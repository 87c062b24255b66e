---------------------------- MODULE MCStructures ----------------------------
(***************************************************************************)
(* Constants for model checking the data structures that have one user: a  *)
(* tcache, and those of Codecs.  They share nothing: a behaviour is of the *)
(* module that part names.                                                 *)
(***************************************************************************)
EXTENDS Tcache, Codecs

mcvars == <<codecsVars, vars>>

\* Two tags are remembered in a map of four slots, the smallest that there
\* can be; the probes of half of the tags start at its last slot, so that
\* chains go around the end.
MCTags == {2, 3, 6, 7}

\* The integers at every size limit, legible ones of every size, in memory of
\* all zeros or all ones.
Limits == {6, 10, 18, 24, 32, 56}
MCValues ==
  {{}, 0 .. 63} \cup {{k} : k \in Limits} \cup {0 .. k - 1 : k \in Limits}
    \cup {{4, 6}, {2, 4, 10}, {2, 3, 18}, {0, 2, 3, 24}, {1, 2, 3, 32}}
MCGarbage == {{}, 0 .. 215}

\* Vals of every encoding, with one byte and with as many as there can be:
\* ulong, uint128, int128, cstr, uchar (the others are encoded like these).
\* Of one the integer is not legible, and of another, a buf of 64 bytes, the
\* size is not.
MCInputs ==
  {[type |-> 12, val |-> 0 .. 63], [type |-> 13, val |-> {4, 6, 64}],
   [type |-> 12, val |-> {6}], [type |-> 1, val |-> [sz |-> 64, w |-> 0 .. 511]],
   [type |-> 8, val |-> 2 .. 127], [type |-> 2, val |-> [sz |-> 0, w |-> {}]],
   [type |-> 9, val |-> [sz |-> 1, w |-> 0 .. 7]]}
MCKeys == {97, 98}

\* Up to three regions, in a block anywhere in 64 bytes; some layouts are as
\* large as a caller may make them.
MCAligns == {1, 2, 8}
MCSizes == {0, 1, 5, 23}

-----------------------------------------------------------------------------
MCInit ==
  /\ CodecsInit \/ (part = "tcache" /\ NoCodec)
  /\ Init

MCNext ==
  IF part = "tcache" THEN Next /\ UNCHANGED codecsVars
  ELSE CodecsNext /\ UNCHANGED vars

\* The thread that has called into a tcache runs.
MCSpec ==
  /\ MCInit /\ [][MCNext]_mcvars
  /\ WF_mcvars(part = "tcache" /\ Calls /\ UNCHANGED codecsVars)
=============================================================================
