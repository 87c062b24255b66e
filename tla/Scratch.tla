-------------------------------- MODULE Scratch --------------------------------
(***************************************************************************)
(* FD_LAYOUT and FD_SCRATCH_ALLOC of fd_bits.h: the first computes the     *)
(* footprint of a row of aligned regions, the second hands them out of a   *)
(* block of memory.  The block is allocated with the footprint and the     *)
(* alignment that the layout asked for.                                    *)
(***************************************************************************)
EXTENDS Integers, Sequences

CONSTANTS W,        \* bits of an address
          Aligns, Sizes, MaxCnt

\* Powers of two are what they are: the provers do not know it.
PowersOfTwo == \A k \in 0 .. W - 1 : 2 ^ (k + 1) = 2 * 2 ^ k

ScratchAssumption ==
  /\ W \in Nat \ {0} /\ Sizes \subseteq Nat /\ MaxCnt \in Nat
  /\ \A a \in Aligns : \E n \in 0 .. W - 1 : a = 2 ^ n
  /\ PowersOfTwo

VARIABLES plan,     \* the regions of the layout: alignment and size
          layout,   \* FD_LAYOUT's value so far
          align,    \* the alignment of the whole, the largest one
          base,     \* where the block is; -1 before it is allocated
          next,     \* FD_SCRATCH_ALLOC's value
          regions,  \* the regions handed out: first byte and size
          failed    \* FD_SCRATCH_ALLOC_APPEND has reported an overflow

vars == <<plan, layout, align, base, next, regions, failed>>

Top == 2 ^ W
Larger(a, b) == IF a > b THEN a ELSE b
AlignUp(x, a) == LET y == (x + a - 1) % Top IN y - (y % a)

Init ==
  /\ plan = <<>> /\ layout = 0 /\ align = 1
  /\ base = -1 /\ next = 0 /\ regions = <<>> /\ failed = FALSE

\* The caller promises that the layout is at most fd_ulong_align_dn(ULONG_MAX,a)
\* for the largest alignment, so that nothing overflows.
Promised(l, a, s) == l <= Top - a /\ AlignUp(l, a) + s <= Top - Larger(a, align)

\* Mutant: a layout that adds up the sizes only.
LayoutPacked(a, s) ==
  /\ base = -1 /\ Len(plan) < MaxCnt /\ Promised(layout, a, s)
  /\ plan' = Append(plan, [align |-> a, sz |-> s])
  /\ layout' = layout + s
  /\ align' = Larger(a, align)
  /\ UNCHANGED <<base, next, regions, failed>>

\* FD_LAYOUT_APPEND
LayoutAppend(a, s) ==
  /\ base = -1 /\ Len(plan) < MaxCnt /\ Promised(layout, a, s)
  /\ plan' = Append(plan, [align |-> a, sz |-> s])
  /\ layout' = AlignUp(layout, a) + s
  /\ align' = Larger(a, align)
  /\ UNCHANGED <<base, next, regions, failed>>

\* FD_LAYOUT_FINI gives the footprint; the block may be anywhere, up to the
\* very end of the address space.
Footprint == AlignUp(layout, align)
ScratchInit(b) ==
  /\ base = -1 /\ plan # <<>>
  /\ b % align = 0 /\ b + Footprint < Top
  /\ base' = b /\ next' = b
  /\ UNCHANGED <<plan, layout, align, regions, failed>>

ScratchAppend ==
  LET k == Len(regions) + 1  at == AlignUp(next, plan[k].align)
      end == (at + plan[k].sz) % Top
  IN
  /\ base # -1 /\ ~failed /\ k <= Len(plan)
  /\ IF end < at
       THEN failed' = TRUE /\ UNCHANGED <<next, regions>>
       ELSE /\ next' = end
            /\ regions' = Append(regions, [at |-> at, sz |-> plan[k].sz])
            /\ UNCHANGED failed
  /\ UNCHANGED <<plan, layout, align, base>>

\* FD_SCRATCH_ALLOC_FINI; the block is used for something else after that.
ScratchFini ==
  /\ base # -1 /\ Len(regions) = Len(plan)
  /\ next' = AlignUp(next, align)
  /\ UNCHANGED <<plan, layout, align, base, regions, failed>>

Next ==
  \/ \E a \in Aligns, s \in Sizes : LayoutAppend(a, s)
  \/ \E b \in 0 .. Top - 1 : ScratchInit(b)
  \/ ScratchAppend \/ ScratchFini

Spec == Init /\ [][Next]_vars

-----------------------------------------------------------------------------
\* The footprint is enough: the regions are aligned, disjoint and inside the
\* block, the end that FINI gives too, and nothing overflows.
RegionsFit ==
  /\ ~failed
  /\ base # -1 => next <= base + Footprint
  /\ \A k \in DOMAIN regions :
       /\ regions[k].at % plan[k].align = 0
       /\ regions[k].at >= IF k = 1 THEN base
                           ELSE regions[k - 1].at + regions[k - 1].sz
=============================================================================
