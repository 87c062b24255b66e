--------------------------------- MODULE Alloc ---------------------------------
(***************************************************************************)
(* The allocators of the verification builds (lib/sea_allocators.c,        *)
(* lib/proof_allocators.c), with the word they round sizes in, and the     *)
(* nondeterministic values of lib/nd_clam.c, which the clam build links in *)
(* place of SeaHorn's.  A program calls them in any order and does with a  *)
(* block it reallocates what C programs do: p = realloc(p, n).             *)
(*                                                                         *)
(* malloc, free and memhavoc are external: malloc always has a block, a    *)
(* fresh one, and memhavoc writes as many bytes as it is told to.          *)
(***************************************************************************)
EXTENDS Integers, Sequences

CONSTANTS Builds,     \* of "sea", "klee" and "clam", those to look at
          W,          \* width of size_t
          Sizes,      \* values of a size_t, before nd_size_t's assumption
          MaxBlocks   \* BOUND: blocks that malloc gives

\* A size_t has four bits at least.
AllocAssumption ==
  /\ Builds \subseteq {"sea", "klee", "clam"} /\ W \in Nat \ {0}
  /\ 2^(W - 1) \in Nat /\ 2^W = 2 * 2^(W - 1) /\ 2^(W - 1) >= 8
  /\ Sizes \subseteq 0 .. 2^W - 1 /\ MaxBlocks \in Nat

VARIABLES
  build,
  blocks,  \* the blocks malloc gave: size, and whether they are live
  held,    \* blocks the program has a pointer to
  last     \* the last call: its name, the size, the pointer, bytes havocked

vars == <<build, blocks, held, last>>

Null == 0

Init ==
  /\ build \in Builds
  /\ blocks = <<>> /\ held = {}
  /\ last = [f |-> "none", sz |-> 0, p |-> Null, havoc |-> 0]

Clam == build = "clam"

\* nd_size_t, nd_uint64_t and so on: in the clam build a non-negative value
\* of the signed type.
Nondet == {v \in Sizes : Clam => v < 2^(W - 1)}

\* nd_malloc_is_fail
MayFail == IF Clam THEN {FALSE} ELSE BOOLEAN

\* Mutant: rounded down.
RoundDown(sz) == sz - (sz % 8)

\* AWS_ALIGN_ROUND_UP to an intmax_t, in a size_t: a size less than seven
\* below the top of it wraps to 0.
RoundUp(sz) == LET v == (sz + 7) % 2^W IN v - (v % 8)

\* What a call can do: the size of the block, whether there is one, and how
\* many bytes are havocked where it returns.  No element: an assume failed.
Failed == [sz |-> 0, ok |-> FALSE, havoc |-> 0]
Assume(os) == {o \in os : o.ok}

Havoc(os, sz) == {[o EXCEPT !.havoc = sz] : o \in os}

SeaMalloc(sz) ==
  IF Clam /\ sz = 0 THEN {}
  ELSE {IF f THEN Failed ELSE [sz |-> sz, ok |-> TRUE, havoc |-> 0] : f \in MayFail}
SeaMallocAligned(sz) == SeaMalloc(RoundUp(sz))
SeaMallocHavoc(sz) == Havoc(SeaMalloc(sz), sz)
SeaMallocSafe(sz) == {[sz |-> sz, ok |-> TRUE, havoc |-> 0]}

SeaMallocHavocSafe(sz) == Assume(SeaMallocHavoc(sz))
SeaMallocAlignedSafe(sz) == Assume(SeaMallocAligned(sz))
SeaMallocAlignedHavoc(sz) ==
  IF build = "klee"
  THEN {IF o.ok THEN [o EXCEPT !.havoc = RoundUp(sz)] ELSE o : o \in SeaMallocAligned(sz)}
  ELSE Havoc(SeaMallocAligned(sz), sz)
BoundedMallocHavoc(sz) ==
  IF sz = 0 THEN IF Clam THEN {} ELSE {Failed} ELSE SeaMallocHavocSafe(sz)
CanFailMallocHavoc(sz) ==
  IF sz = 0 THEN IF Clam THEN {} ELSE {Failed} ELSE SeaMallocHavoc(sz)

Freed(p) == [b \in DOMAIN blocks |-> IF b = p THEN [blocks[b] EXCEPT !.live = FALSE] ELSE blocks[b]]

\* A call of f with outcomes os, once the blocks are bs and h of them held.
Get(f, sz, os, bs, h) ==
  \E o \in os :
    LET p == IF o.ok THEN Len(bs) + 1 ELSE Null IN
    /\ p <= MaxBlocks
    /\ blocks' = IF o.ok THEN Append(bs, [sz |-> o.sz, live |-> TRUE]) ELSE bs
    /\ held' = h \cup ({p} \ {Null})
    /\ last' = [f |-> f, sz |-> sz, p |-> p, havoc |-> o.havoc]
    /\ UNCHANGED build

Malloc(sz) ==
  \/ Get("sea_malloc", sz, SeaMalloc(sz), blocks, held)
  \/ Get("sea_malloc_aligned", sz, SeaMallocAligned(sz), blocks, held)
  \/ Get("sea_malloc_havoc", sz, SeaMallocHavoc(sz), blocks, held)
  \/ Get("sea_malloc_safe", sz, SeaMallocSafe(sz), blocks, held)
  \/ Get("sea_malloc_havoc_safe", sz, SeaMallocHavocSafe(sz), blocks, held)
  \/ Get("sea_malloc_aligned_safe", sz, SeaMallocAlignedSafe(sz), blocks, held)
  \/ Get("sea_malloc_aligned_havoc", sz, SeaMallocAlignedHavoc(sz), blocks, held)
  \/ Get("bounded_malloc_havoc", sz, BoundedMallocHavoc(sz), blocks, held)
  \/ Get("can_fail_malloc_havoc", sz, CanFailMallocHavoc(sz), blocks, held)

\* sea_free
Free(p) ==
  /\ blocks' = Freed(p) /\ held' = held \ {p}
  /\ last' = [f |-> "sea_free", sz |-> 0, p |-> Null, havoc |-> 0]
  /\ UNCHANGED build

\* Mutant: the old block is not freed.
ReallocKeeps(p, sz) == Get("realloc", sz, SeaMalloc(sz), blocks, held \ {p})

\* realloc, which is sea_realloc: the old block goes first.
Realloc(p, sz) == Get("realloc", sz, SeaMalloc(sz), Freed(p), held \ {p})

Next ==
  \/ \E sz \in Nondet : Malloc(sz)
  \/ \E p \in held : Free(p)
  \/ \E p \in held \cup {Null}, sz \in Nondet : Realloc(p, sz)
  \/ Len(blocks) = MaxBlocks /\ UNCHANGED vars

Spec == Init /\ [][Next]_vars

-----------------------------------------------------------------------------
(* Properties *)

\* Allocators that round sizes up, and the sizes that wrap there.
Aligned == {"sea_malloc_aligned", "sea_malloc_aligned_safe", "sea_malloc_aligned_havoc"}
Wraps(f, sz) == f \in Aligned /\ sz > 2^W - 8

\* A pointer that is not NULL is to a live block of the size asked for,
\* rounded or not, and what is havocked in it (to stand for initializing it)
\* is inside, in all builds.  It is so up to the sizes that wrap when they are
\* rounded: for those the block is empty, havocked past its end but in the
\* klee build, and none of them is ever asked for in the clam build.
GivesWhatWasAsked ==
  last.p # Null =>
    /\ blocks[last.p].live
    /\ IF Wraps(last.f, last.sz)
         THEN /\ ~Clam /\ blocks[last.p].sz = 0
              /\ build = "klee" => last.havoc = 0
         ELSE blocks[last.p].sz >= last.sz /\ last.havoc <= blocks[last.p].sz

\* With p = realloc(p, n), failed calls and all, no block is lost and no
\* pointer to a freed one is kept.
NothingLost == held = {b \in DOMAIN blocks : blocks[b].live}
=============================================================================
