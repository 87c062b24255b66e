----------------------------- MODULE DedupCache -----------------------------
(***************************************************************************)
(* What a tcache does for its user (fd_tcache.h, the comments at the top   *)
(* and above FD_TCACHE_QUERY and FD_TCACHE_INSERT): it remembers the Depth *)
(* most recent unique tags.  A duplicate changes nothing - it does not     *)
(* make the tag more recent - and a new tag pushes the oldest one out when *)
(* there is no room.                                                       *)
(*                                                                         *)
(* A tag that is removed is forgotten but keeps its place among the recent *)
(* ones.  When it comes back and is itself the oldest, it pushes itself    *)
(* out: that is what the code does, and not what the comment above         *)
(* FD_TCACHE_INSERT says ("if dup is zero, tag was inserted").             *)
(***************************************************************************)
EXTENDS Naturals, Sequences

CONSTANTS Tags, Depth

VARIABLES recent,   \* the last tags inserted, oldest first
          present,  \* those that are remembered
          answer    \* the last answer: was this tag there?

vars == <<recent, present, answer>>

Init == recent = <<>> /\ present = {} /\ answer = <<>>

Query(t) ==
  /\ answer' = <<t, t \in present>>
  /\ UNCHANGED <<recent, present>>

InsertDup(t) ==
  /\ t \in present
  /\ answer' = <<t, TRUE>>
  /\ UNCHANGED <<recent, present>>

InsertNew(t) ==
  /\ t \notin present
  /\ answer' = <<t, FALSE>>
  /\ IF Len(recent) = Depth
       THEN /\ recent' = Append(Tail(recent), t)
            /\ present' = (present \cup {t}) \ {Head(recent)}
       ELSE /\ recent' = Append(recent, t)
            /\ present' = present \cup {t}

Remove(t) ==
  /\ present' = present \ {t}
  /\ UNCHANGED <<recent, answer>>

Reset == recent' = <<>> /\ present' = {} /\ UNCHANGED answer

Next ==
  \/ \E t \in Tags : Query(t) \/ InsertDup(t) \/ InsertNew(t) \/ Remove(t)
  \/ Reset

Spec == Init /\ [][Next]_vars
=============================================================================
