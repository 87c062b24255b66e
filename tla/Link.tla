-------------------------------- MODULE Link --------------------------------
(***************************************************************************)
(* The parts put together: one producer, its mcache, its flow control, the *)
(* receivers' fseqs and the payload buffer.  Mcache and Fctl are taken as  *)
(* they are; what this module adds is what each of them leaves open:       *)
(*                                                                         *)
(*   - the producer publishes only with credits, and a frag costs one;     *)
(*   - what fctl calls receiving is a consumer's accepting a frag, and     *)
(*     the word it returns credits in is its fseq;                         *)
(*   - the payload of a frag is written before the frag is published, and  *)
(*     read by a consumer before it looks at the line again.               *)
(*                                                                         *)
(* Consumers 0 .. RxCnt - 1 are reliable; Watchers are not, and the        *)
(* producer does not wait for them.                                        *)
(***************************************************************************)
EXTENDS SeqNum, FiniteSets

CONSTANTS
  Depth, Block, Interleave, Seq0, MaxPub, Fields, SseFields,
  PubKinds, WaitKinds, Recoveries, PollMax,   \* as in Mcache
  RxCnt, Configs, Unstable,                   \* as in Fctl
  Watchers,   \* consumers that return no credits
  DataSlots   \* frags that the payload buffer has room for

VARIABLES
  line, seqCell, tx, pubKind, pubTodo, ppc,
  rx, poll, kind, found, copy, todo, cpc, got,
  cfg, cr_avail, in_refill, tpc, rx_idx, cr_query, rx_slow, seen, covered,
  slow, active, rx_cell,
  data,   \* the payload buffer: whose payload is in each slot
  dpc,    \* producer: "none", "half" or "full": payload of frag tx written
  pay     \* consumers: the payload they have read, NoPay for none

mcacheVars == <<line, seqCell, tx, pubKind, pubTodo, ppc,
                rx, poll, kind, found, copy, todo, cpc, got>>
fctlVars == <<cfg, cr_avail, in_refill, tpc, rx_idx, cr_query, rx_slow, seen,
              covered, slow, active, rx_cell>>
dataVars == <<data, dpc, pay>>
vars == <<mcacheVars, fctlVars, dataVars>>

Receivers == 0 .. RxCnt - 1
Consumers == Receivers \cup Watchers

M == INSTANCE Mcache
F == INSTANCE Fctl WITH
  Late <- {}, Tx0 <- Seq0, Lags <- {0}, MaxSend <- MaxPub,
  tx_seq <- tx, rx_seq <- [r \in Receivers |-> rx[r]]

ASSUME LinkAssumption ==
  /\ M!McacheAssumption /\ F!FctlAssumption
  /\ DataSlots \in Nat /\ DataSlots > Depth
  /\ Watchers \cap Receivers = {}
  /\ \A c \in Configs : \A r \in Receivers : c.rx_cr_max[r] <= Depth

NoPay == Seq0 - 1
Torn == Seq0 - 2
Slot(n) == n % DataSlots

\* The fseqs are created with the mcache's first sequence number.
Init ==
  /\ rx_cell = [r \in Receivers |-> Seq0]
  /\ M!Init /\ F!Init
  /\ data = [s \in 0 .. DataSlots - 1 |-> Torn]
  /\ dpc = "none"
  /\ pay = [c \in Consumers |-> NoPay]

-----------------------------------------------------------------------------
(* The producer *)

\* Mutant: the producer publishes when it has any payload ready.
PayloadNoCredit ==
  /\ tpc = "run" /\ ppc = "idle" /\ dpc = "none" /\ tx < Seq0 + MaxPub
  /\ data' = [data EXCEPT ![Slot(tx)] = Torn]
  /\ dpc' = "half"
  /\ UNCHANGED <<mcacheVars, fctlVars, pay>>

\* With credits for a burst the producer takes on a frag: its payload goes
\* into the next slot of the buffer ...
Payload ==
  /\ tpc = "run" /\ ppc = "idle" /\ dpc = "none" /\ tx < Seq0 + MaxPub
  /\ cr_avail >= cfg.cr_burst
  /\ data' = [data EXCEPT ![Slot(tx)] = Torn]
  /\ dpc' = "half"
  /\ UNCHANGED <<mcacheVars, fctlVars, pay>>

PayloadDone ==
  /\ dpc = "half"
  /\ data' = [data EXCEPT ![Slot(tx)] = tx]
  /\ dpc' = "full"
  /\ UNCHANGED <<mcacheVars, fctlVars, pay>>

\* Mutant: the metadata is written while the payload still is.
PublishEarly ==
  /\ dpc \in {"half", "full"}
  /\ M!PublishMark \/ M!PublishSse \/ M!PublishBody
  /\ UNCHANGED <<fctlVars, dataVars>>

\* ... its metadata into the mcache ...
Publish ==
  /\ dpc = "full"
  /\ M!PublishMark \/ M!PublishSse \/ M!PublishBody
  /\ UNCHANGED <<fctlVars, dataVars>>

\* Mutant: the credit is not spent.
PublishedFree ==
  /\ M!PublishSeq
  /\ dpc' = "none"
  /\ UNCHANGED <<data, pay, fctlVars>>

\* ... and with the last store it is out and has cost a credit.
Published ==
  /\ M!PublishSeq /\ F!Send
  /\ dpc' = "none"
  /\ UNCHANGED <<data, pay>>

\* The producer's housekeeping, between two frags: fd_fctl_tx_cr_update ...
Housekeeping ==
  /\ ppc = "idle" /\ dpc = "none"
  /\ UNCHANGED <<mcacheVars, dataVars>>
  /\ F!Housekeeping

\* ... and fd_mcache_seq_update.
SeqUpdate ==
  /\ tpc = "run" /\ dpc = "none"
  /\ M!SeqUpdate
  /\ UNCHANGED <<fctlVars, dataVars>>

-----------------------------------------------------------------------------
(* The consumers *)

\* A reliable consumer starts where its fseq says, a watcher anywhere.
Start(c) ==
  /\ \/ c \in Watchers /\ M!Join(c)
     \/ /\ c \in Receivers /\ cpc[c] = "off"
        /\ cpc' = [cpc EXCEPT ![c] = "poll"]
        /\ UNCHANGED <<line, seqCell, tx, pubKind, pubTodo, ppc,
                       rx, poll, kind, found, copy, todo, got>>
  /\ UNCHANGED <<fctlVars, dataVars>>

Poll(c) ==
  /\ \/ M!WaitSeq(c) \/ M!WaitSse(c) \/ M!WaitCopy(c) \/ M!WaitTimeout(c)
     \/ M!WaitRetry(c) \/ M!WaitOverrun(c) \/ M!WaitMeta(c) \/ M!Recover(c)
  /\ UNCHANGED <<fctlVars, dataVars>>

\* The consumer processes the payload where it is, zero copy.
ReadPayload(c) ==
  /\ cpc[c] = "spec" /\ pay[c] = NoPay
  /\ pay' = [pay EXCEPT ![c] = data[Slot(rx[c])]]
  /\ UNCHANGED <<mcacheVars, fctlVars, data, dpc>>

\* Then it looks at the line again: the frag is lost, or it is accepted.
Lost(c) ==
  /\ pay[c] # NoPay
  /\ M!RecheckOverrun(c)
  /\ pay' = [pay EXCEPT ![c] = NoPay]
  /\ UNCHANGED <<fctlVars, data, dpc>>

Accept(c) ==
  /\ pay[c] # NoPay
  /\ M!Accept(c)
  /\ IF c \in Receivers THEN F!Receive(c) ELSE UNCHANGED fctlVars
  /\ pay' = [pay EXCEPT ![c] = NoPay]
  /\ UNCHANGED <<data, dpc>>

\* Mutant: a consumer returns the number of the last frag, not of the next.
ReturnLast(c) ==
  /\ c \in Receivers /\ cpc[c] = "poll" /\ rx[c] > Seq0
  /\ rx_cell' = [rx_cell EXCEPT ![c] = rx[c] - 1]
  /\ UNCHANGED <<cfg, cr_avail, in_refill, tpc, rx_idx, cr_query, rx_slow,
                 seen, covered, slow, active, mcacheVars, dataVars>>

\* Its housekeeping: fd_fctl_rx_cr_return into its fseq (fd_fseq_update).
Return(c) ==
  /\ c \in Receivers /\ cpc[c] = "poll"
  /\ UNCHANGED <<mcacheVars, dataVars>>
  /\ F!CrReturn(c)

\* A consumer crashes anywhere and starts over from its fseq.
Crash(c) ==
  /\ c \in Unstable /\ cpc[c] # "off"
  /\ rx' = [rx EXCEPT ![c] = rx_cell[c]]
  /\ F!Crash(c)
  /\ cpc' = [cpc EXCEPT ![c] = "poll"]
  /\ poll' = [poll EXCEPT ![c] = PollMax]
  /\ pay' = [pay EXCEPT ![c] = NoPay]
  /\ UNCHANGED <<line, seqCell, tx, pubKind, pubTodo, ppc,
                 kind, found, copy, todo, got, data, dpc>>

-----------------------------------------------------------------------------
Producing == Payload \/ PayloadDone \/ Publish \/ Published
Consuming(c) ==
  Start(c) \/ Poll(c) \/ ReadPayload(c) \/ Lost(c) \/ Accept(c)

Next ==
  \/ Producing \/ Housekeeping \/ SeqUpdate
  \/ \E c \in Consumers : Consuming(c) \/ Return(c) \/ Crash(c)

Spec == Init /\ [][Next]_vars

\* Everybody's loop goes on: the producer has something to publish, its
\* credits are queried, the consumers poll.  A consumer does its housekeeping
\* every so many polls, between two of them: it is not always there, but it
\* comes back there again and again (strong fairness).
FairSpec ==
  /\ Spec
  /\ WF_vars(Producing) /\ WF_vars(Housekeeping)
  /\ \A c \in Consumers : WF_vars(Consuming(c)) /\ SF_vars(Return(c))

-----------------------------------------------------------------------------
(* Properties *)

\* What a consumer has read in the buffer is the payload of the frag it is
\* processing whenever its second look at the line finds the frag there -
\* for a watcher too, that the producer may overrun at any time.
PayloadIntact ==
  \A c \in Consumers :
    cpc[c] = "spec" /\ pay[c] # NoPay /\ M!Query(rx[c]) = rx[c] =>
      pay[c] = rx[c]

\* Everything a reliable consumer has not returned yet is still there whole,
\* in the mcache and in the buffer, and it can start over from there.
KeptForReceivers ==
  \A c \in Receivers : \A n \in rx_cell[c] .. tx - 1 :
    /\ line[M!LineIdx(n)] = [seq |-> n, body |-> M!Meta(n)]
    /\ data[Slot(n)] = n

\* The link implements a reliable stream for its receivers.
Stream == INSTANCE ReliableStream WITH
  First <- Seq0, Window <- Depth, sent <- tx,
  next <- [r \in Receivers |-> rx[r]], returned <- rx_cell,
  delivered <- [r \in Receivers |-> got[r]]

ImplementsReliableStream == Stream!Spec

Drained == tx = Seq0 + MaxPub /\ \A c \in Receivers : rx[c] = tx

\* Everything gets published, and every reliable consumer receives it all,
\* unless one crashes again and again: none of the parts ends up waiting for
\* another.
AllDelivered ==
  <>[]Drained \/ []<><<\E c \in Consumers : Crash(c)>>_vars
=============================================================================
