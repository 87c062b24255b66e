--------------------------- MODULE ReliableStream ---------------------------
(***************************************************************************)
(* What an mcache, a flow control and the receivers' fseqs promise         *)
(* together to a reliable receiver (fd_fctl.h, lines 8-30 and 505-515):    *)
(* it gets every frag, whole and in order, and never less than what it     *)
(* last returned is kept for it, so that it may crash and start over.      *)
(***************************************************************************)
EXTENDS Integers

CONSTANTS First,     \* the first frag
          Window,    \* how far ahead of its last return the sender may get
          Fields,
          Receivers, Unstable

VARIABLES sent,      \* frags First .. sent - 1 are published
          next,      \* the frag each receiver gets next
          returned,  \* how far each receiver has said that it has got
          delivered  \* the metadata each receiver accepted last

vars == <<sent, next, returned, delivered>>

Meta(n) == [f \in Fields |-> n]

Init ==
  /\ sent = First
  /\ next = [r \in Receivers |-> First] /\ returned = next
  /\ delivered = [r \in Receivers |-> Meta(First - 1)]

Send ==
  /\ \A r \in Receivers : sent < returned[r] + Window
  /\ sent' = sent + 1
  /\ UNCHANGED <<next, returned, delivered>>

Receive(r) ==
  /\ next[r] < sent
  /\ delivered' = [delivered EXCEPT ![r] = Meta(next[r])]
  /\ next' = [next EXCEPT ![r] = @ + 1]
  /\ UNCHANGED <<sent, returned>>

Return(r) ==
  /\ returned' = [returned EXCEPT ![r] = next[r]]
  /\ UNCHANGED <<sent, next, delivered>>

Crash(r) ==
  /\ next' = [next EXCEPT ![r] = returned[r]]
  /\ UNCHANGED <<sent, returned, delivered>>

Next ==
  \/ Send
  \/ \E r \in Receivers : Receive(r) \/ Return(r) \/ (r \in Unstable /\ Crash(r))

Spec == Init /\ [][Next]_vars
=============================================================================
