------------------------------ MODULE SvwStream ------------------------------
(***************************************************************************)
(* A byte stream of symmetric variable width integers, used the ways that  *)
(* fd_bits.h describes: integers are appended, an integer is updated in    *)
(* place to one that takes no more bytes, and the stream is read back from *)
(* its end, one integer before the other.  Reading forwards changes        *)
(* nothing: it is in the properties.                                       *)
(***************************************************************************)
EXTENDS Svw, Sequences

CONSTANTS Values,   \* the integers, as words
          MaxCnt,   \* BOUND: how many are appended
          Garbage   \* what the memory may hold at first

SvwAssumption ==
  Values \subseteq SUBSET (0 .. 63) /\ MaxCnt \in Nat /\ Garbage \subseteq SUBSET Nat

VARIABLES mem,
          ents,     \* what was written: where, in how many bytes, what
          end,      \* the first byte after the stream
          cursor,   \* where the reader is, and
          out       \* what it has read, the last integer first

vars == <<mem, ents, end, cursor, out>>

Init ==
  /\ mem \in Garbage
  /\ ents = <<>> /\ end = 0
  /\ cursor = 0 /\ out = <<>>

Append1(x) ==
  /\ Len(ents) < MaxCnt
  /\ mem' = Enc(mem, end, x)
  /\ ents' = Append(ents, [at |-> end, csz |-> EncSz(x), val |-> x])
  /\ end' = end + EncSz(x)
  /\ cursor' = end' /\ out' = <<>>

\* In place, in the bytes that the integer has.
Update(k, x) ==
  /\ Fits(x, ents[k].csz)
  /\ mem' = EncFixed(mem, ents[k].at, ents[k].csz, x)
  /\ ents' = [ents EXCEPT ![k].val = x]
  /\ cursor' = end /\ out' = <<>>
  /\ UNCHANGED end

\* fd_ulong_svw_dec_tail
ReadBack ==
  /\ cursor > 0
  /\ LET csz == DecTailSz(mem, cursor) IN
     /\ cursor' = cursor - csz
     /\ out' = Append(out, DecFixed(mem, cursor - csz, csz))
  /\ UNCHANGED <<mem, ents, end>>

Next ==
  \/ \E x \in Values : Append1(x) \/ \E k \in DOMAIN ents : Update(k, x)
  \/ ReadBack

Spec == Init /\ [][Next]_vars

-----------------------------------------------------------------------------
\* The stream can be read from its end without knowing any size: the reader
\* gets every integer that was written, in reverse, and stops at the start.
ReadsBack ==
  LET n == Len(ents) IN
  /\ Len(out) <= n
  /\ \A k \in DOMAIN out : out[k] = ents[n + 1 - k].val
  /\ Len(out) = n <=> cursor = 0

\* No write disturbs another integer, and every one of them can be read by
\* who knows where it is and in how many bytes.
EachInItsPlace ==
  \A k \in DOMAIN ents : DecFixed(mem, ents[k].at, ents[k].csz) = ents[k].val

\* Forwards, whose size is read right is told by a few bits of the integer,
\* and fd_ulong_svw_dec returns those integers.
ForwardsIfLegible ==
  \A k \in DOMAIN ents :
    LET e == ents[k] IN
    /\ DecSz(mem, e.at) = e.csz <=> Legible(e.val, e.csz)
    /\ Legible(e.val, e.csz) => DecSvw(mem, e.at) = e.val

\* What the comment of fd_ulong_svw_dec_sz and its harness say of all of
\* them: the first byte tells the size.
FirstByteTells ==
  \A k \in DOMAIN ents : DecSz(mem, ents[k].at) = ents[k].csz

\* All the ways there are to load 1 to 8 bytes load the same, whatever there
\* is behind the bytes asked for.
LoadsAgree ==
  \A n \in 1 .. 8 : \A b \in {0, end} :
    LoadFast(mem, b, n) = Load(mem, b, n) /\ LoadDirect(mem, b, n) = Load(mem, b, n)
=============================================================================
