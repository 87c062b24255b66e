-------------------------------- MODULE MemMove --------------------------------
(***************************************************************************)
(* memmove of lib/bcmp.c as it is built for Symbiotic: forwards byte by    *)
(* byte if the source is not below the destination, else backwards, by two *)
(* words at a time when there are eight bytes left, after single bytes up  *)
(* to a multiple of four.  The words are meant to have four bytes; where   *)
(* an unsigned long has eight, every load and store of one reaches four    *)
(* bytes further up.                                                       *)
(***************************************************************************)
EXTENDS Integers

CONSTANTS Size,      \* bytes of memory
          LongBytes  \* sizeof(unsigned long)

MemMoveAssumption == Size \in Nat \ {0} /\ LongBytes \in {4, 8}

VARIABLES mem, from, to, n,   \* as the caller gave them, mem as it is now
          f, t, left, rem,    \* tmp_from, tmp_to, bytes to go, bytes to align
          pc

vars == <<mem, from, to, n, f, t, left, rem, pc>>

Addr == 0 .. Size - 1

\* Bytes that a word has too many.
Over == LongBytes - 4

\* Every byte of memory starts as its own address.  There is memory behind the
\* two blocks for the words that reach over their ends.
Init ==
  /\ mem = [a \in Addr |-> a]
  /\ from \in Addr /\ to \in Addr /\ n \in 0 .. Size
  /\ from + n + Over <= Size /\ to + n + Over <= Size
  /\ pc = "begin" /\ f = 0 /\ t = 0 /\ left = n /\ rem = 0

\* k bytes at once, all read before any is written.
Copied(dst, src, k) ==
  [a \in Addr |-> IF a \in dst .. dst + k - 1 THEN mem[src + (a - dst)] ELSE mem[a]]

\* Mutant: the direction is not chosen.
BeginForward ==
  /\ pc = "begin"
  /\ f' = from /\ t' = to /\ pc' = "memcpy" /\ UNCHANGED rem
  /\ UNCHANGED <<mem, from, to, n, left>>

Begin ==
  /\ pc = "begin"
  /\ IF from >= to
       THEN f' = from /\ t' = to /\ pc' = "memcpy" /\ UNCHANGED rem
       ELSE /\ f' = from + n /\ t' = to + n
            /\ IF n < 8 THEN pc' = "lessthan8" /\ UNCHANGED rem
               ELSE IF (to + n) % 4 = 0 THEN pc' = "copy_chunks" /\ UNCHANGED rem
               ELSE pc' = "align" /\ rem' = 4 - ((to + n) % 4)
  /\ UNCHANGED <<mem, from, to, n, left>>

\* memcpy( to, from, n ): while( n-- ) *idest++ = *ifrom++;
Memcpy ==
  /\ pc = "memcpy"
  /\ IF left > 0
       THEN /\ mem' = [mem EXCEPT ![t] = mem[f]]
            /\ f' = f + 1 /\ t' = t + 1 /\ left' = left - 1 /\ UNCHANGED pc
       ELSE pc' = "done" /\ UNCHANGED <<mem, f, t, left>>
  /\ UNCHANGED <<from, to, n, rem>>

\* align: a byte, from the end, rem times
Align ==
  /\ pc = "align"
  /\ mem' = [mem EXCEPT ![t - 1] = mem[f - 1]]
  /\ f' = f - 1 /\ t' = t - 1 /\ left' = left - 1 /\ rem' = rem - 1
  /\ pc' = IF rem' > 0 THEN "align"
           ELSE IF left' >= 8 THEN "copy_chunks" ELSE "lessthan8"
  /\ UNCHANGED <<from, to, n>>

\* Two words are loaded and then stored, at t - 4 and at t - 8.
CopyChunks ==
  /\ pc = "copy_chunks"
  /\ mem' = Copied(t - 8, f - 8, 4 + LongBytes) /\ f' = f - 8 /\ t' = t - 8 /\ left' = left - 8
  /\ pc' = IF left' >= 8 THEN "copy_chunks" ELSE "lessthan8"
  /\ UNCHANGED <<from, to, n, rem>>

\* lessthan8: a word if there are four bytes, and then single ones
LessThan8 ==
  /\ pc = "lessthan8"
  /\ IF left >= 4
       THEN mem' = Copied(t - 4, f - 4, LongBytes) /\ f' = f - 4 /\ t' = t - 4 /\ left' = left - 4
       ELSE UNCHANGED <<mem, f, t, left>>
  /\ pc' = "bytes"
  /\ UNCHANGED <<from, to, n, rem>>

Tail ==
  /\ pc = "bytes"
  /\ IF left > 0
       THEN /\ mem' = [mem EXCEPT ![t - 1] = mem[f - 1]]
            /\ f' = f - 1 /\ t' = t - 1 /\ left' = left - 1 /\ UNCHANGED pc
       ELSE pc' = "done" /\ UNCHANGED <<mem, f, t, left>>
  /\ UNCHANGED <<from, to, n, rem>>

Done == pc = "done" /\ UNCHANGED vars

Next == Begin \/ Memcpy \/ Align \/ CopyChunks \/ LessThan8 \/ Tail \/ Done

Spec == Init /\ [][Next]_vars

-----------------------------------------------------------------------------
(* Properties *)

\* Backwards, and not only by single bytes.
ByWords == from < to /\ n >= 4

\* When it is done, the destination holds what the source held before,
\* however the two overlap and wherever they lie - but for a move upwards by
\* less than the bytes that a word has too many, which reads what it has
\* written already.
MovesBytes ==
  pc = "done" /\ (ByWords => to - from >= Over) =>
    \A k \in 0 .. n - 1 : mem[to + k] = from + k

\* No byte outside of the destination is written: the n bytes from dst on are
\* all that the function asserts (in SeaHorn's build) to be there.  By words,
\* the bytes that the first one has too many are written as well.
StaysInside ==
  \A a \in Addr : mem[a] # a =>
    to <= a /\ a < to + n + IF ByWords THEN Over ELSE 0
=============================================================================
