------------------------------- MODULE MCLink -------------------------------
(***************************************************************************)
(* Constants for model checking Link: two lines, room for the payload of   *)
(* three frags, credits for as many frags as there are lines.  One         *)
(* consumer, reliable and apt to crash (MCLink.cfg), or one that the       *)
(* producer does not wait for (MCLinkWatch.cfg).                           *)
(***************************************************************************)
EXTENDS Link

MCFields == {"chunk"}
MCConfigs ==
  {[rx_cr_max |-> [r \in Receivers |-> Depth], cr_burst |-> 1,
    cr_max |-> Depth, cr_resume |-> Depth, cr_refill |-> Depth]}
=============================================================================
