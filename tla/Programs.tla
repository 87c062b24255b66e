------------------------------- MODULE Programs -------------------------------
(***************************************************************************)
(* What one thread does by itself: the generator of random numbers, the    *)
(* functions and stubs that the verification jobs link in, the jobs and    *)
(* verify.py.  They share nothing, so a behaviour is one of these          *)
(* programs, the one that part names; the variables of the others stay 0.  *)
(***************************************************************************)
EXTENDS Integers, Sequences

CONSTANTS
  RngW, BufWords, BlockWords, Ns, MaxKeys, MaxWords,    \* as in ChachaRng
  Bytes, BufSize, MaxBuffer,                            \* ByteFns
  MemSize, LongBytes,                                   \* MemMove
  Builds, SizeW, AllocSizes, MaxBlocks,                 \* Alloc
  Caches, Sizes1, Sizes2, MaxSize, NoCache, BitAnd(_, _),  \* CacheJobs
  Regions, Hidden, Seqs, FseqSizes, FseqOps,            \* FseqJobs
  RxMaxMax, LongMax, CfgOps,                            \* FctlCfg
  Places, Codes, MaxLines,                              \* Verify
  MaxRecord, MaxWire, PubLen, RawPubLen, ClientCalls    \* TlsStubs

VARIABLES
  part,
  buf, buf_off, buf_fill, mode, key, bound, took, roll,           \* ChachaRng
  fn, s1, s2, ptrs, cnt, fnpc, idx, reads, ret,                   \* ByteFns
  mem, from, to, len, tmp_from, tmp_to, left, rem, mvpc,          \* MemMove
  build, blocks, held, last,                                      \* Alloc
  hdr, block, job, jobpc, glb, failed, overlaps,                  \* CacheJobs
  shmem, g_ul_ptr, joined, wrote, own, made, got, ops,            \* FseqJobs
  fctl, rx, status, asked, added, cfgops,                         \* FctlCfg
  args, vpc, out, found_expected, found_error, vacuity_passed,
  vacuity_failed, rcode, exit,                                    \* Verify
  side, st, calls, tlspc, record, views, wire, todo, asserts      \* TlsStubs

R == INSTANCE ChachaRng WITH W <- RngW, n <- bound, ret <- roll
F == INSTANCE ByteFns WITH Size <- BufSize, n <- cnt, pc <- fnpc,
                         i <- idx, p <- reads
M == INSTANCE MemMove WITH Size <- MemSize, n <- len, f <- tmp_from, t <- tmp_to,
                         pc <- mvpc
A == INSTANCE Alloc WITH W <- SizeW, Sizes <- AllocSizes
C == INSTANCE CacheJobs WITH pc <- jobpc
Q == INSTANCE FseqJobs WITH Sizes <- FseqSizes, MaxOps <- FseqOps
G == INSTANCE FctlCfg WITH MaxOps <- CfgOps, ops <- cfgops
V == INSTANCE Verify WITH pc <- vpc
H == INSTANCE TlsStubs WITH pc <- tlspc

ASSUME ProgramsAssumption ==
  /\ R!RngAssumption /\ F!ByteFnsAssumption /\ M!MemMoveAssumption
  /\ A!AllocAssumption /\ C!CacheJobsAssumption
  /\ Q!FseqJobsAssumption /\ G!FctlCfgAssumption /\ V!VerifyAssumption
  /\ H!TlsStubsAssumption

rngVars == <<buf, buf_off, buf_fill, mode, key, bound, took, roll>>
bytesVars == <<fn, s1, s2, ptrs, cnt, fnpc, idx, reads, ret>>
moveVars == <<mem, from, to, len, tmp_from, tmp_to, left, rem, mvpc>>
allocVars == <<build, blocks, held, last>>
cachesVars == <<hdr, block, job, jobpc, glb, failed, overlaps>>
fseqVars == <<shmem, g_ul_ptr, joined, wrote, own, made, got, ops>>
fctlVars == <<fctl, rx, status, asked, added, cfgops>>
verifyVars == <<args, vpc, out, found_expected, found_error, vacuity_passed,
                vacuity_failed, rcode, exit>>
tlsVars == <<side, st, calls, tlspc, record, views, wire, todo, asserts>>

vars == <<part, rngVars, bytesVars, moveVars, allocVars, cachesVars, fseqVars,
          fctlVars, verifyVars, tlsVars>>

-----------------------------------------------------------------------------
\* The variables of a program that does not run.
NoRng == /\ buf = 0 /\ buf_off = 0 /\ buf_fill = 0 /\ mode = 0 /\ key = 0
         /\ bound = 0 /\ took = 0 /\ roll = 0
NoBytes == /\ fn = 0 /\ s1 = 0 /\ s2 = 0 /\ ptrs = 0 /\ cnt = 0 /\ fnpc = 0
           /\ idx = 0 /\ reads = 0 /\ ret = 0
NoMove == /\ mem = 0 /\ from = 0 /\ to = 0 /\ len = 0 /\ tmp_from = 0 /\ tmp_to = 0
          /\ left = 0 /\ rem = 0 /\ mvpc = 0
NoAlloc == build = 0 /\ blocks = 0 /\ held = 0 /\ last = 0
NoCaches == /\ hdr = 0 /\ block = 0 /\ job = 0 /\ jobpc = 0 /\ glb = 0 /\ failed = 0
            /\ overlaps = 0
NoFseq == /\ shmem = 0 /\ g_ul_ptr = 0 /\ joined = 0 /\ wrote = 0 /\ own = 0
          /\ made = 0 /\ got = 0 /\ ops = 0
NoFctl == fctl = 0 /\ rx = 0 /\ status = 0 /\ asked = 0 /\ added = 0 /\ cfgops = 0
NoVerify == /\ args = 0 /\ vpc = 0 /\ out = 0 /\ found_expected = 0
            /\ found_error = 0 /\ vacuity_passed = 0 /\ vacuity_failed = 0
            /\ rcode = 0 /\ exit = 0
NoTls == /\ side = 0 /\ st = 0 /\ calls = 0 /\ tlspc = 0 /\ record = 0
         /\ views = 0 /\ wire = 0 /\ todo = 0 /\ asserts = 0

Init ==
  /\ part \in {"rng", "bytes", "move", "alloc", "caches", "fseq", "fctl", "verify", "tls"}
  /\ IF part = "rng" THEN R!Init ELSE NoRng
  /\ IF part = "bytes" THEN F!Init ELSE NoBytes
  /\ IF part = "move" THEN M!Init ELSE NoMove
  /\ IF part = "alloc" THEN A!Init ELSE NoAlloc
  /\ IF part = "caches" THEN C!Init ELSE NoCaches
  /\ IF part = "fseq" THEN Q!Init ELSE NoFseq
  /\ IF part = "fctl" THEN G!Init ELSE NoFctl
  /\ IF part = "verify" THEN V!Init ELSE NoVerify
  /\ IF part = "tls" THEN H!Init ELSE NoTls

Next ==
  /\ IF part = "rng" THEN R!Next ELSE UNCHANGED rngVars
  /\ IF part = "bytes" THEN F!Next ELSE UNCHANGED bytesVars
  /\ IF part = "move" THEN M!Next ELSE UNCHANGED moveVars
  /\ IF part = "alloc" THEN A!Next ELSE UNCHANGED allocVars
  /\ IF part = "caches" THEN C!Next ELSE UNCHANGED cachesVars
  /\ IF part = "fseq" THEN Q!Next ELSE UNCHANGED fseqVars
  /\ IF part = "fctl" THEN G!Next ELSE UNCHANGED fctlVars
  /\ IF part = "verify" THEN V!Next ELSE UNCHANGED verifyVars
  /\ IF part = "tls" THEN H!Next ELSE UNCHANGED tlsVars
  /\ UNCHANGED part

Spec == Init /\ [][Next]_vars

-----------------------------------------------------------------------------
(* Properties: those of the modules, each for its own program *)

\* The generator reads its stream word by word, across refills and keys.
StreamInOrder ==
  [][part = "rng" /\ buf_off' > buf_off =>
       took' = [key |-> key, at |-> buf_off] /\ took' # took]_vars

\* A roll is unbiased, for every bound and in both modes, and takes two words
\* or less on average.
RollIsFair == part = "rng" => R!Uniform /\ R!HalfAccepted

\* What lib/ puts in the place of libc: comparisons answer right around the
\* unrolled turns, memmove moves its bytes however they overlap and writes no
\* others, allocators give live blocks of the size asked for, and
\* p = realloc(p, n) loses no block and keeps no freed one.
LibKeepsItsWord ==
  /\ part = "bytes" => F!ComparesBytes
  /\ part = "move" => M!MovesBytes /\ M!StaysInside
  /\ part = "alloc" => A!GivesWhatWasAsked /\ A!NothingLost

\* The verification jobs of tango, several caches and fseqs at once: accessors
\* answer for the cache they are asked about until another of its kind is
\* joined, a cache is deleted by its own harness, and lines and slots are in
\* the blocks that were allocated; a fseq keeps its number and is left as
\* itself; the receivers of a fctl are those added to it, and its thresholds
\* are in order.
JobsUseTheirOwn ==
  /\ part = "caches" => C!AnswersAreOwn /\ C!DeletedWhenDone /\ C!SlotsInBounds
  /\ part = "fseq" => Q!AssertsHold
  /\ part = "fctl" => G!ReceiversAreAdded /\ G!RoomForAll /\ G!ThresholdsInOrder

\* A job that was read is reported as all ok just when its command ended well
\* and something was answered; with --vac the exit code tells of failed
\* assertions and vacuous places, however the command ended.
ExitCodeTells == part = "verify" => V!OkIsAnswered /\ V!VacuityDecides

\* The views that the TLS parsers hand out lie in the record, a reply is never
\* longer than its buffer, and no handshake gets past a certificate.
HandshakeInBounds ==
  part = "tls" => H!ViewsInRecord /\ H!ReplyFits /\ H!NeverPastCert
=============================================================================
