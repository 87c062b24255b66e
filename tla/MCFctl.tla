------------------------------- MODULE MCFctl -------------------------------
(***************************************************************************)
(* Constants for model checking Fctl: two receivers, the second one added  *)
(* late, sequence numbers of 5 bits that wrap during the run.              *)
(***************************************************************************)
EXTENDS Fctl

\* At the transmitter, behind it by more than cr_max, ahead.
MCLags == {-1, 0, 4}
MCFewLags == {0, 4}

MCThresholds(rxMax, crMaxes) ==
  {c \in [rx_cr_max : {rxMax}, cr_burst : 1 .. 2, cr_max : crMaxes,
          cr_resume : 1 .. 4, cr_refill : 1 .. 4] : ValidConfig(c)}

RxMax == [r \in Rx |-> 2 + r]

\* Every threshold the comments allow, with credits for up to four.
MCAll == MCThresholds(RxMax, {2, 4})

\* Those that do not keep the credits flowing, in one way and in the other.
MCLowRefill == {c \in MCAll : c.cr_refill < c.cr_burst /\ c.cr_resume <= 2}
MCHighResume == {c \in MCAll : c.cr_refill >= c.cr_burst /\ c.cr_resume > 2}
=============================================================================
