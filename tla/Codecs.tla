-------------------------------- MODULE Codecs --------------------------------
(***************************************************************************)
(* What fd_bits.h and fd_pod.h compute, each part used the way its         *)
(* comments describe: a stream of integers, pods, the operations on the    *)
(* bits of a word, and layouts.  They share nothing, so a behaviour is of  *)
(* the module that part names; the variables of the others stay 0.         *)
(***************************************************************************)
EXTENDS Integers, Sequences

CONSTANTS
  Values, MaxInts, Garbage,                      \* as in SvwStream
  RootMax, SubMax, Keys, Inputs, MaxPairs,       \* Pod
  WordBits,                                      \* Bits
  AddrBits, Aligns, Sizes, MaxRegions            \* Scratch

VARIABLES
  part,
  mem, ents, end, cursor, out,                         \* SvwStream
  pod, pairs, iter, seen, made,                        \* Pod
  word,                                                \* Bits
  plan, layout, align, base, next, regions, failed     \* Scratch

S == INSTANCE SvwStream WITH MaxCnt <- MaxInts
P == INSTANCE Pod WITH mem <- pod, SizeBits <- WordBits
B == INSTANCE Bits WITH W <- WordBits, x <- word
L == INSTANCE Scratch WITH W <- AddrBits, MaxCnt <- MaxRegions

ASSUME CodecsAssumption ==
  /\ S!SvwAssumption /\ P!PodAssumption
  /\ B!WAssumption /\ L!ScratchAssumption

svwVars == <<mem, ents, end, cursor, out>>
podVars == <<pod, pairs, iter, seen, made>>
scratchVars == <<plan, layout, align, base, next, regions, failed>>
codecsVars == <<part, svwVars, podVars, word, scratchVars>>

-----------------------------------------------------------------------------
\* The variables of a part that is not used.
NoSvw == mem = 0 /\ ents = 0 /\ end = 0 /\ cursor = 0 /\ out = 0
NoPod == pod = 0 /\ pairs = 0 /\ iter = 0 /\ seen = 0 /\ made = 0
NoBits == word = 0
NoScratch == /\ plan = 0 /\ layout = 0 /\ align = 0 /\ base = 0 /\ next = 0
             /\ regions = 0 /\ failed = 0
NoCodec == NoSvw /\ NoPod /\ NoBits /\ NoScratch

CodecsInit ==
  /\ part \in {"svw", "pod", "bits", "scratch"}
  /\ IF part = "svw" THEN S!Init ELSE NoSvw
  /\ IF part = "pod" THEN P!Init ELSE NoPod
  /\ IF part = "bits" THEN B!Init ELSE NoBits
  /\ IF part = "scratch" THEN L!Init ELSE NoScratch

CodecsNext ==
  /\ IF part = "svw" THEN S!Next ELSE UNCHANGED svwVars
  /\ IF part = "pod" THEN P!Next ELSE UNCHANGED podVars
  /\ IF part = "bits" THEN B!Next ELSE UNCHANGED word
  /\ IF part = "scratch" THEN L!Next ELSE UNCHANGED scratchVars
  /\ UNCHANGED part

CodecsSpec == CodecsInit /\ [][CodecsNext]_codecsVars

-----------------------------------------------------------------------------
(* Properties: those of the modules, each for its own part *)

\* A stream of integers can be read from its end, its integers where they are
\* by who knows their sizes, and forwards as far as they are legible; all ways
\* to load bytes agree.
ReadsBack ==
  part = "svw" => /\ S!ReadsBack /\ S!EachInItsPlace /\ S!ForwardsIfLegible
                  /\ S!LoadsAgree

\* The first byte of an integer tells its size, as fd_bits.h and the svw
\* harness have it.
FirstByteTells == part = "svw" => S!FirstByteTells

\* A pod, and every pod in it, keeps its count and its max whatever is put in;
\* while the sizes in it are legible it gives back what was put into it, and
\* an iteration shows each pair once.
HoldsItsPairs ==
  part = "pod" => P!HoldsItsPairs /\ P!UsedIsTight /\ P!IterationIsComplete

\* Arithmetic at the limits of a word: the bit operations do what the
\* comments say.
ArithmeticIsRight ==
  part = "bits" => /\ B!FieldsRight /\ B!Pow2Right /\ B!AlignRight
                   /\ B!ShiftsRight /\ B!SignedRight /\ B!DigitsRight

\* The footprint of a layout is enough for its regions, aligned as they were
\* asked for, wherever in the address space the block is.
RegionsFit == part = "scratch" => L!RegionsFit
=============================================================================
