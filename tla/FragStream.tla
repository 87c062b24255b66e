----------------------------- MODULE FragStream -----------------------------
(***************************************************************************)
(* What an mcache promises its users (fd_mcache.h, the comments above      *)
(* fd_mcache_line_idx, fd_mcache_publish and FD_MCACHE_WAIT), with no      *)
(* cache lines, no polling and no torn reads:                              *)
(*                                                                         *)
(*   - one producer publishes frags First, First + 1, ...;                 *)
(*   - the Depth most recent frags are available, older ones are gone;     *)
(*   - a consumer receives the frag it stands at, whole, and moves on, or  *)
(*     it has lost it and skips forward to a published frag;               *)
(*   - nothing is delivered twice, out of order or before it exists.       *)
(*                                                                         *)
(* Mcache implements this specification (Mcache!Abstract).                 *)
(***************************************************************************)
EXTENDS Integers

CONSTANTS First,      \* the first frag the producer publishes (seq0)
          Depth,      \* how many frags are available at once
          Fields,     \* the fields of a frag's metadata
          Consumers

VARIABLES pub,        \* frags First .. pub - 1 have been published
          pos,        \* the frag each consumer wants next
          joined,     \* the consumers that have started
          delivered   \* the metadata each consumer accepted last

vars == <<pub, pos, joined, delivered>>

\* The metadata of frag n: every field is that of n.
Meta(n) == [f \in Fields |-> n]

Init ==
  /\ pub = First
  /\ pos \in [Consumers -> {First}]
  /\ joined = {}
  /\ delivered = [c \in Consumers |-> Meta(First - 1)]

Publish ==
  /\ pub' = pub + 1
  /\ UNCHANGED <<pos, joined, delivered>>

\* A consumer starts at or before the frag published next.
Join(c) ==
  /\ c \notin joined
  /\ joined' = joined \cup {c}
  /\ pos' \in {[pos EXCEPT ![c] = n] : n \in First .. pub}
  /\ UNCHANGED <<pub, delivered>>

Receive(c) ==
  /\ c \in joined
  /\ pos[c] < pub
  /\ pub - pos[c] <= Depth
  /\ delivered' = [delivered EXCEPT ![c] = Meta(pos[c])]
  /\ pos' = [pos EXCEPT ![c] = @ + 1]
  /\ UNCHANGED <<pub, joined>>

\* Frag pos[c] has left the cache, or is leaving it: go on with a later,
\* published one.
Skip(c) ==
  /\ c \in joined
  /\ pub - pos[c] >= Depth
  /\ pos' \in {[pos EXCEPT ![c] = n] : n \in pos[c] + 1 .. pub - 1}
  /\ UNCHANGED <<pub, joined, delivered>>

Next ==
  \/ Publish
  \/ \E c \in Consumers : Join(c) \/ Receive(c) \/ Skip(c)

Spec == Init /\ [][Next]_vars
=============================================================================
