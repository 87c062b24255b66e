------------------------------ MODULE MCPrograms ------------------------------
(***************************************************************************)
(* Constants for model checking what one thread does by itself.            *)
(***************************************************************************)
EXTENDS Programs, Bitwise

CONSTANTS c1, c2, \* caches of the jobs
          h, h2,  \* the region that a fseq job allocates, and another one
          p1, p2  \* positions that vacuity lines name

\* Words of 5 bits, a ring of two blocks, bounds at both ends of the range.
MCRngW == 5
MCBufWords == 4
MCBlockWords == 2
MCNs == {1, 3, 5, 12, 16, 17, 31}
MCMaxKeys == 2
MCMaxWords == 7

\* cnt below, at and above the two turns that are unrolled.
MCBytes == {0, 1, 2}
MCBufSize == 3
MCMaxBuffer == 2

\* Two chunks of eight bytes and single ones before and after them, and the
\* four bytes that a word of a 64-bit build has too many.
MCMemSize == 26
MCLongBytes == 8

\* A size_t of 6 bits: no bytes, some that are rounded up, and all there are.
MCBuilds == {"sea", "klee", "clam"}
MCSizeW == 6
MCAllocSizes == {0, 9, 63}
MCMaxBlocks == 3

\* Two harnesses in any order of their operations; no bytes, and sizes that
\* are no powers of two too.
MCCaches == {c1, c2}
MCSizes1 == {0, 1, 3}
MCSizes2 == {0, 2}
MCMaxSize == 5
MCAnd(a, b) == a & b

MCRegions == {h, h2}
MCSeqs == {0, 1}
MCFseqSizes == {0, 2}
MCFseqOps == 6

MCRxMaxMax == 3
MCLongMax == 3
MCCfgOps == 7

\* Killed, ended well, and with the codes that verify.py has a meaning for.
MCPlaces == {p1, p2}
MCCodes == {-9, 0, 1, 2}
MCMaxLines == 3

\* A client makes all its calls, as in the loop its harness has commented out.
MCMaxRecord == 3
MCMaxWire == 3
MCPubLen == 1
MCRawPubLen == 2
MCClientCalls == 7
=============================================================================
