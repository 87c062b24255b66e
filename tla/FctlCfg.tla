-------------------------------- MODULE FctlCfg --------------------------------
(***************************************************************************)
(* The configuration of an fctl, as the three fctl harnesses do it: a      *)
(* region with anything in it is formatted (fctl_override.c), receivers    *)
(* are added, the configuration is completed, the accessors are asked and  *)
(* the region is given back, maybe to be formatted again.                  *)
(*                                                                         *)
(* fd_fctl_cfg_rx_add and fd_fctl_cfg_done are declared in fd_fctl.h and   *)
(* defined outside of the repository: they follow its comments there.      *)
(* Credits and counts are small, in units the comments do not tell apart.  *)
(***************************************************************************)
EXTENDS Integers, Sequences, FiniteSetsExt

CONSTANTS RxMaxMax,  \* FD_FCTL_RX_MAX_MAX, 2^k - 1: what fits in a ushort
          LongMax,   \* LONG_MAX
          MaxOps     \* BOUND: calls

FctlCfgAssumption ==
  {RxMaxMax, LongMax, MaxOps} \subseteq Nat \ {0}

VARIABLES
  fctl,    \* the struct
  rx,      \* the rx array
  status,  \* "raw" before fd_fctl_new, "open" before cfg_done, "done" after
  asked,   \* rx_max as it was given to fd_fctl_new
  added,   \* what the program has added: cr_max and address, in this order
  ops

vars == <<fctl, rx, status, asked, added, ops>>

Garbage == -1
Entry == [cr_max |-> Garbage, laddr |-> Garbage]
Zeros == [cr_burst |-> 0, cr_max |-> 0, cr_resume |-> 0, cr_refill |-> 0]

Op == ops < MaxOps /\ ops' = ops + 1

\* memhavoc of the region: anything that a struct can hold.
Havoc ==
  \E n, m \in 0 .. RxMaxMax, c \in {0, LongMax} :
    fctl = [rx_max |-> n, rx_cnt |-> m, in_refill |-> 1,
            cr |-> [Zeros EXCEPT !.cr_burst = c, !.cr_max = c]]

Init ==
  /\ Havoc /\ rx = [i \in {} |-> Entry]
  /\ status = "raw" /\ asked = 0 /\ added = <<>> /\ ops = 0

\* Mutant: the count of receivers is left as it was.
NewKeepsCnt(rx_max) ==
  /\ Op /\ status = "raw" /\ rx_max <= RxMaxMax
  /\ fctl' = [fctl EXCEPT !.rx_max = rx_max % (RxMaxMax + 1), !.in_refill = 0, !.cr = Zeros]
  /\ rx' = [i \in 0 .. rx_max - 1 |-> Entry]
  /\ status' = "open" /\ asked' = rx_max /\ added' = <<>>

\* Mutant: the thresholds are left as they were.
NewKeepsCr(rx_max) ==
  /\ Op /\ status = "raw" /\ rx_max <= RxMaxMax
  /\ fctl' = [fctl EXCEPT !.rx_max = rx_max % (RxMaxMax + 1), !.rx_cnt = 0, !.in_refill = 0]
  /\ rx' = [i \in 0 .. rx_max - 1 |-> Entry]
  /\ status' = "open" /\ asked' = rx_max /\ added' = <<>>

\* fd_fctl_new and fd_fctl_join; when rx_max is too large the program ends.
New(rx_max) ==
  /\ Op /\ status = "raw" /\ rx_max <= RxMaxMax
  /\ fctl' = [rx_max |-> rx_max % (RxMaxMax + 1), rx_cnt |-> 0, in_refill |-> 0, cr |-> Zeros]
  /\ rx' = [i \in 0 .. rx_max - 1 |-> Entry]
  /\ status' = "open" /\ asked' = rx_max /\ added' = <<>>

\* One turn of the harnesses' loop.  The receiver's address is its turn.
\* fd_fctl_cfg_rx_add fails for a cr_max out of range or too many receivers.
RxAdd(cr_max) ==
  /\ Op /\ status = "open" /\ Len(added) < asked
  /\ IF cr_max \in 1 .. LongMax /\ fctl.rx_cnt < fctl.rx_max
       THEN LET e == [cr_max |-> cr_max, laddr |-> Len(added)] IN
            /\ rx' = [rx EXCEPT ![fctl.rx_cnt] = e]
            /\ fctl' = [fctl EXCEPT !.rx_cnt = @ + 1]
            /\ added' = Append(added, e)
       ELSE UNCHANGED <<rx, fctl, added>>
  /\ UNCHANGED <<status, asked>>

Receivers == 0 .. fctl.rx_cnt - 1

\* fd_fctl_rx_cr_max, fd_fctl_rx_seq_laddr
RxCrMax(i) == rx[i].cr_max
RxLaddr(i) == rx[i].laddr

\* fd_fctl_cfg_done: 0 asks for a default, anything out of range fails.
CfgDone(burst, max, resume, refill) ==
  LET burst_max == Min({LongMax} \cup {rx[i].cr_max : i \in Receivers})
      m == IF max = 0 THEN burst_max ELSE max
      s == IF resume = 0 THEN burst + (2 * (m - burst)) \div 3 ELSE resume
      f == IF refill = 0 THEN burst + (s - burst) \div 2 ELSE refill
  IN /\ Op /\ status = "open"
     /\ burst \in 1 .. burst_max /\ m \in burst .. LongMax
     /\ s \in burst .. m /\ f \in burst .. s
     /\ fctl' = [fctl EXCEPT !.cr = [cr_burst |-> burst, cr_max |-> m,
                                     cr_resume |-> s, cr_refill |-> f]]
     /\ status' = "done"
     /\ UNCHANGED <<rx, asked, added>>

\* fd_fctl_delete and fd_fctl_leave: the region is the program's, as it is.
Delete ==
  /\ Op /\ status # "raw"
  /\ status' = "raw"
  /\ UNCHANGED <<fctl, rx, asked, added>>

Next ==
  \/ \E n \in 1 .. RxMaxMax + 1 : New(n)
  \/ \E c \in 0 .. LongMax + 1 : RxAdd(c)
  \/ \E b, m, s, f \in 0 .. LongMax : CfgDone(b, m, s, f)
  \/ Delete
  \/ ops = MaxOps /\ UNCHANGED vars

Spec == Init /\ [][Next]_vars

-----------------------------------------------------------------------------
(* Properties *)

\* The receivers of a fctl are those added since fd_fctl_new, whatever the
\* region held before: their count, and at each index what was added there.
ReceiversAreAdded ==
  status # "raw" =>
    /\ fctl.rx_cnt = Len(added) /\ fctl.rx_cnt <= fctl.rx_max
    /\ \A i \in Receivers : RxLaddr(i) = i /\ RxCrMax(i) = added[i + 1].cr_max

\* A fctl has room for as many receivers as fd_fctl_new was asked for, in
\* its own count and in the array: the cut of rx_max to a ushort loses none.
RoomForAll == status # "raw" => fctl.rx_max = asked /\ DOMAIN rx = 0 .. asked - 1

\* The harness's assertions after fd_fctl_cfg_done: the thresholds are in
\* order and every receiver can take a burst; before, there are none.
ThresholdsInOrder ==
  /\ status = "open" => fctl.cr = Zeros
  /\ status = "done" =>
       /\ 1 <= fctl.cr.cr_burst /\ fctl.cr.cr_burst <= fctl.cr.cr_resume
       /\ 1 <= fctl.cr.cr_refill /\ fctl.cr.cr_refill <= fctl.cr.cr_resume
       /\ fctl.cr.cr_resume <= fctl.cr.cr_max /\ fctl.cr.cr_max <= LongMax
       /\ \A i \in Receivers : RxCrMax(i) >= fctl.cr.cr_burst
=============================================================================
