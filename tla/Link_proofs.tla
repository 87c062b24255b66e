---------------------------- MODULE Link_proofs ----------------------------
(***************************************************************************)
(* Proofs about Link: that the reliable consumers lose nothing, and that   *)
(* payloads read in place are whole, for any number of receivers and of    *)
(* watchers, any depth, configuration and size of the payload buffer that  *)
(* LinkAssumption allows.                                                  *)
(*                                                                         *)
(* The invariants of the parts are taken from the proofs about them: MP    *)
(* and FP are M and F again, with their theorems.                          *)
(***************************************************************************)
EXTENDS Link, ModularLemmas

MP == INSTANCE Mcache_proofs
FP == INSTANCE Fctl_proofs WITH
  Late <- {}, Tx0 <- Seq0, Lags <- {0}, MaxSend <- MaxPub,
  tx_seq <- tx, rx_seq <- [r \in Receivers |-> rx[r]]

-----------------------------------------------------------------------------
(* The inductive invariant: that of the mcache, that of the flow control,   *)
(* and what ties them together.                                             *)

\* A receiver starts over where it has been, and not before the first frag.
ReturnsPassed == \A r \in Receivers : rx_cell[r] \in Seq0 .. rx[r]

\* A frag is taken on with credits for it, and published after its payload.
CreditsFirst ==
  /\ dpc \in {"none", "half", "full"}
  /\ dpc # "none" => tpc = "run" /\ cr_avail >= cfg.cr_burst
  /\ dpc # "none" => tx < Seq0 + MaxPub
  /\ ppc = "body" => dpc = "full"
  /\ ppc # "down"

\* The buffer holds the payload under way, and those of the last frags: one
\* fewer than it has slots.
PayloadsKept ==
  /\ data \in [0 .. DataSlots - 1 -> Int]
  /\ dpc = "full" => data[Slot(tx)] = tx
  /\ \A n \in Seq0 .. tx - 1 : tx - n < DataSlots => data[Slot(n)] = n

\* What a consumer has read is the payload of its frag, or it has been
\* overrun for good.
PayloadsRead ==
  /\ pay \in [Consumers -> Int]
  /\ \A c \in Consumers :
       /\ cpc[c] # "spec" => pay[c] = NoPay
       /\ pay[c] # NoPay => pay[c] = rx[c] \/ tx - rx[c] >= DataSlots

\* A receiver never finds a later frag than its own.
NeverLate ==
  \A r \in Receivers :
    /\ cpc[r] = "copy" => found[r] <= rx[r]
    /\ cpc[r] # "recover"

LInv ==
  /\ MP!RInv /\ FP!IInv
  /\ ReturnsPassed /\ CreditsFirst /\ PayloadsKept /\ PayloadsRead /\ NeverLate

-----------------------------------------------------------------------------
(* The parts, seen from Link                                                *)

LEMMA MAssumed == MP!McacheAssumption
BY LinkAssumption DEF M!McacheAssumption, MP!McacheAssumption

LEMMA FAssumed == FP!FctlAssumption
BY LinkAssumption DEF F!FctlAssumption, FP!FctlAssumption, F!ValidConfig,
   FP!ValidConfig, F!Rx, FP!Rx

LEMMA Constants ==
  /\ Seq0 \in Nat /\ Depth \in Nat /\ Depth > 1 /\ MaxPub \in Nat
  /\ DataSlots \in Nat \ {0} /\ DataSlots > Depth
  /\ PollMax \in 1 .. PollMax /\ RxCnt \in Nat
  /\ Receivers \cap Watchers = {} /\ Receivers \subseteq Consumers
  /\ Watchers \subseteq Consumers /\ FP!Rx = Receivers
  /\ Unstable \subseteq Receivers
BY LinkAssumption, MAssumed, FAssumed
   DEF MP!McacheAssumption, FP!FctlAssumption, FP!Rx, Receivers, Consumers

LEMMA SameLines ==
  ASSUME NEW n
  PROVE  /\ M!LineIdx(n) = MP!LineIdx(n) /\ M!Query(n) = MP!Query(n)
         /\ M!Meta(n) = MP!Meta(n)
BY DEF M!LineIdx, MP!LineIdx, M!Query, MP!Query, M!Meta, MP!Meta

LEMMA SameProducer ==
  /\ M!PublishMark <=> MP!PublishMark
  /\ M!PublishSse <=> MP!PublishSse
  /\ M!PublishBody <=> MP!PublishBody
  /\ M!PublishSeq <=> MP!PublishSeq
  /\ M!SeqUpdate <=> MP!SeqUpdate
BY DEF M!PublishMark, MP!PublishMark, M!PublishSse, MP!PublishSse, M!Mark,
   MP!Mark, M!PublishBody, MP!PublishBody, M!PublishSeq, MP!PublishSeq,
   M!SeqUpdate, MP!SeqUpdate, M!LineIdx, MP!LineIdx, M!Stored, MP!Stored,
   M!Accesses, MP!Accesses, M!consumerVars, MP!consumerVars

LEMMA SameConsumer ==
  ASSUME NEW c \in Consumers
  PROVE  /\ M!Join(c) <=> MP!Join(c)
         /\ M!WaitSeq(c) <=> MP!WaitSeq(c)
         /\ M!WaitSse(c) <=> MP!WaitSse(c)
         /\ M!WaitCopy(c) <=> MP!WaitCopy(c)
         /\ M!WaitTimeout(c) <=> MP!WaitTimeout(c)
         /\ M!WaitRetry(c) <=> MP!WaitRetry(c)
         /\ M!WaitOverrun(c) <=> MP!WaitOverrun(c)
         /\ M!WaitMeta(c) <=> MP!WaitMeta(c)
         /\ M!RecheckOverrun(c) <=> MP!RecheckOverrun(c)
         /\ M!Accept(c) <=> MP!Accept(c)
         /\ M!Recover(c) <=> MP!Recover(c)
<1>1. M!producerVars = MP!producerVars /\ M!producerVars' = MP!producerVars'
  BY DEF M!producerVars, MP!producerVars
<1>2. \A a, b : (M!SeqEq(a, b) <=> MP!SeqEq(a, b)) /\ M!SeqDiff(a, b) = MP!SeqDiff(a, b)
  BY DEF M!SeqEq, MP!SeqEq, M!SeqDiff, MP!SeqDiff, M!SeqMod, MP!SeqMod
<1>3. \A n : M!LineIdx(n) = MP!LineIdx(n) /\ M!Query(n) = MP!Query(n)
  BY SameLines
<1>4. \A k, fs : M!Accesses(k, fs) = MP!Accesses(k, fs)
  BY DEF M!Accesses, MP!Accesses
<1>5. \A n : M!Overrun(c, n) <=> MP!Overrun(c, n)
  BY DEF M!Overrun, MP!Overrun
<1>6. M!Polled(c) <=> MP!Polled(c)
  BY DEF M!Polled, MP!Polled
<1>7. M!WaitDone(c) <=> MP!WaitDone(c)
  BY <1>2, <1>3 DEF M!WaitDone, MP!WaitDone
<1>8. \A k, fs : M!Load(c, k, fs) <=> MP!Load(c, k, fs)
  BY <1>1, <1>3 DEF M!Load, MP!Load
<1>9. /\ M!Join(c) <=> MP!Join(c)
      /\ M!WaitSeq(c) <=> MP!WaitSeq(c)
      /\ M!WaitSse(c) <=> MP!WaitSse(c)
      /\ M!Recover(c) <=> MP!Recover(c)
  BY <1>1, <1>8 DEF M!Join, MP!Join, M!WaitSeq, MP!WaitSeq, M!WaitSse,
     MP!WaitSse, M!Recover, MP!Recover
<1>10. M!WaitCopy(c) <=> MP!WaitCopy(c)
  BY <1>1, <1>3, <1>4 DEF M!WaitCopy, MP!WaitCopy
<1>11. /\ M!WaitTimeout(c) <=> MP!WaitTimeout(c)
       /\ M!WaitRetry(c) <=> MP!WaitRetry(c)
  BY <1>1, <1>6, <1>7
     DEF M!WaitTimeout, MP!WaitTimeout, M!WaitRetry, MP!WaitRetry
<1>12. /\ M!WaitOverrun(c) <=> MP!WaitOverrun(c)
       /\ M!WaitMeta(c) <=> MP!WaitMeta(c)
  BY <1>1, <1>2, <1>5, <1>6, <1>7
     DEF M!WaitOverrun, MP!WaitOverrun, M!WaitMeta, MP!WaitMeta
<1>13. M!RecheckOverrun(c) <=> MP!RecheckOverrun(c)
  BY <1>1, <1>2, <1>3, <1>5 DEF M!RecheckOverrun, MP!RecheckOverrun
<1>14. M!Accept(c) <=> MP!Accept(c)
  BY <1>1, <1>2, <1>3 DEF M!Accept, MP!Accept
<1> QED BY <1>9, <1>10, <1>11, <1>12, <1>13, <1>14

LEMMA SameFlow ==
  /\ F!Send <=> FP!Send
  /\ F!Housekeeping <=> FP!Housekeeping
  /\ \A r \in Receivers : /\ F!Receive(r) <=> FP!Receive(r)
                          /\ F!CrReturn(r) <=> FP!CrReturn(r)
                          /\ F!Crash(r) <=> FP!Crash(r)
<1>1. /\ F!queryVars = FP!queryVars /\ F!queryVars' = FP!queryVars'
      /\ F!rxVars = FP!rxVars /\ F!rxVars' = FP!rxVars' /\ F!Rx = FP!Rx
  BY DEF F!queryVars, FP!queryVars, F!rxVars, FP!rxVars, F!Rx, FP!Rx
<1>2. F!Send <=> FP!Send
  BY <1>1 DEF F!Send, FP!Send
<1>3. F!StartQuery <=> FP!StartQuery
  BY <1>1 DEF F!StartQuery, FP!StartQuery
<1>4. F!SkipInactive <=> FP!SkipInactive
  BY <1>1 DEF F!SkipInactive, FP!SkipInactive
<1>5. \A m, a, b : F!RxCredits(m, a, b) = FP!RxCredits(m, a, b)
  BY DEF F!RxCredits, FP!RxCredits, F!LongMax, FP!LongMax, F!SeqDiff,
     FP!SeqDiff, F!SeqMod, FP!SeqMod
<1>6. F!QueryRx <=> FP!QueryRx
  BY <1>1, <1>5 DEF F!QueryRx, FP!QueryRx
<1>7. F!Resume <=> FP!Resume
  BY <1>1 DEF F!Resume, FP!Resume, F!QueryDone, FP!QueryDone
<1>8. F!EnterRefill <=> FP!EnterRefill
  BY <1>1 DEF F!EnterRefill, FP!EnterRefill, F!QueryDone, FP!QueryDone
<1>9. F!StayInRefill <=> FP!StayInRefill
  BY <1>1 DEF F!StayInRefill, FP!StayInRefill, F!QueryDone, FP!QueryDone
<1>10. F!Housekeeping <=> FP!Housekeeping
  BY <1>3, <1>4, <1>6, <1>7, <1>8, <1>9 DEF F!Housekeeping, FP!Housekeeping
<1>11. ASSUME NEW r \in Receivers
       PROVE  /\ F!Receive(r) <=> FP!Receive(r)
              /\ F!CrReturn(r) <=> FP!CrReturn(r)
              /\ F!Crash(r) <=> FP!Crash(r)
  BY <1>1 DEF F!Receive, FP!Receive, F!CrReturn, FP!CrReturn, F!Crash, FP!Crash
<1> QED BY <1>2, <1>10, <1>11

-----------------------------------------------------------------------------
(* What the invariant says                                                  *)

LEMMA Facts ==
  ASSUME LInv
  PROVE  /\ tx \in Nat /\ tx >= Seq0 /\ tx <= Seq0 + MaxPub
         /\ rx \in [Consumers -> Int] /\ found \in [Consumers -> Int]
         /\ cpc \in [Consumers -> {"off", "poll", "copy", "spec", "recover"}]
         /\ poll \in [Consumers -> 1 .. PollMax]
         /\ got \in [Consumers -> [Fields -> Int]]
         /\ \A c \in Consumers : rx[c] \in Seq0 .. tx
         /\ rx_cell \in [Receivers -> Int] /\ active \subseteq Receivers
         /\ cfg \in Configs /\ cfg.cr_burst \in Nat \ {0} /\ cr_avail \in Nat
         /\ \A r \in Receivers : cfg.rx_cr_max[r] \in Nat /\ cfg.rx_cr_max[r] <= Depth
<1>1. MP!TypeOK /\ MP!Bounds /\ FP!TypeOK
  BY DEF LInv, MP!RInv, MP!IInv, FP!IInv
<1>2. /\ tx \in Nat /\ rx \in [Consumers -> Int] /\ found \in [Consumers -> Int]
      /\ cpc \in [Consumers -> {"off", "poll", "copy", "spec", "recover"}]
      /\ poll \in [Consumers -> 1 .. PollMax]
      /\ got \in [Consumers -> [Fields -> Int]]
  BY <1>1 DEF MP!TypeOK
<1>3. /\ tx >= Seq0 /\ tx <= Seq0 + MaxPub
      /\ \A c \in Consumers : rx[c] \in Seq0 .. tx
  BY <1>1, <1>2, Constants DEF MP!Bounds
<1>4. /\ rx_cell \in [Receivers -> Int] /\ active \subseteq Receivers
      /\ cfg \in Configs /\ cr_avail \in 0 .. cfg.cr_max
  BY <1>1, Constants DEF FP!TypeOK
<1>5. FP!ValidConfig(cfg) /\ SeqHalf \in Nat
  BY <1>4, FAssumed DEF FP!FctlAssumption
<1>6. /\ cfg.cr_burst \in Nat \ {0} /\ cr_avail \in Nat
      /\ \A r \in Receivers : cfg.rx_cr_max[r] \in Nat
  BY <1>4, <1>5, Constants DEF FP!ValidConfig
<1>7. \A r \in Receivers : cfg.rx_cr_max[r] <= Depth
  BY <1>4, LinkAssumption
<1> QED BY <1>2, <1>3, <1>4, <1>6, <1>7

\* No receiver is more than Depth behind with what it has returned, and while
\* a frag is under way there is room for it.
LEMMA Near ==
  ASSUME LInv, NEW r \in Receivers
  PROVE  /\ tx <= rx_cell[r] + Depth
         /\ dpc # "none" => tx < rx_cell[r] + Depth
<1> USE Facts, Constants
<1>1. /\ FP!QueryCovers /\ FP!CreditsAreReal /\ ReturnsPassed /\ CreditsFirst
  BY DEF LInv, FP!IInv
<1>2. rx_cell[r] \in Int /\ rx_cell[r] >= Seq0
  BY <1>1 DEF ReturnsPassed
<1>3. cr_avail > 0 \/ tx # Seq0 => r \in covered
  BY <1>1 DEF FP!QueryCovers
<1>4. r \in covered => tx + cr_avail <= rx_cell[r] + cfg.rx_cr_max[r]
  BY <1>1 DEF FP!CreditsAreReal
<1>5. cfg.rx_cr_max[r] \in Nat /\ cfg.rx_cr_max[r] <= Depth
  OBVIOUS
<1>6. r \in covered => tx + cr_avail <= rx_cell[r] + Depth
  BY <1>2, <1>4, <1>5
<1>7. tx <= rx_cell[r] + Depth
  BY <1>2, <1>3, <1>6
<1>8. dpc # "none" => cr_avail > 0
  BY <1>1 DEF CreditsFirst
<1>9. dpc # "none" => tx < rx_cell[r] + Depth
  BY <1>2, <1>3, <1>6, <1>8
<1> QED BY <1>7, <1>9

\* So what a receiver has not returned is held.
LEMMA NearHeld ==
  ASSUME LInv, NEW r \in Receivers, NEW n \in rx_cell[r] .. tx - 1
  PROVE  n \in Int /\ n >= Seq0 /\ n < tx /\ tx - n <= Depth /\ MP!Query(n) = n
<1> USE Facts, Constants
<1>1. MP!IInv /\ MP!LinesInTurn /\ CreditsFirst
  BY DEF LInv, MP!RInv
<1>2. rx_cell[r] \in Int /\ rx_cell[r] >= Seq0
  BY DEF LInv, ReturnsPassed
<1>3. n \in Int /\ n >= Seq0 /\ n < tx /\ tx - n <= Depth
  BY <1>2, Near
<1>4. ppc = "body" => tx - n < Depth
  BY <1>1, <1>2, Near DEF CreditsFirst
<1>5. n \in MP!Held
  BY <1>3, <1>4 DEF MP!Held
<1>6. MP!Query(n) = n
  BY <1>1, <1>3, <1>5, MP!QueryNow, MAssumed
<1> QED BY <1>3, <1>6

\* A receiver finds its frag, or an earlier one if it is not published yet.
LEMMA FindsOwn ==
  ASSUME LInv, NEW r \in Receivers
  PROVE  /\ rx[r] < tx => MP!Query(rx[r]) = rx[r]
         /\ MP!Query(rx[r]) <= rx[r]
<1> USE Facts, Constants
<1>1. rx[r] \in Seq0 .. tx /\ rx_cell[r] \in Seq0 .. rx[r]
  BY DEF LInv, ReturnsPassed
<1>2. rx[r] < tx => MP!Query(rx[r]) = rx[r]
  BY <1>1, NearHeld
<1>3. rx[r] \in Int /\ rx[r] >= Seq0 /\ MP!IInv /\ MP!LinesInTurn
  BY <1>1 DEF LInv, MP!RInv
<1>4. /\ MP!Query(rx[r]) \in Seq0 - Depth - 1 .. tx - 1
      /\ MP!Query(rx[r]) < rx[r] <=> rx[r] >= tx
  BY <1>3, MP!QueryNow, MAssumed
<1>5. rx[r] >= tx => MP!Query(rx[r]) <= rx[r]
  BY <1>3, <1>4
<1> QED BY <1>1, <1>2, <1>5

\* Slots of payloads less than DataSlots apart are different.
LEMMA SlotFree ==
  ASSUME NEW a \in Int, NEW b \in Int, a # b, a - b < DataSlots, b - a < DataSlots
  PROVE  Slot(a) # Slot(b)
BY Constants, ModEqual DEF Slot

LEMMA SlotRange ==
  ASSUME NEW n \in Int
  PROVE  Slot(n) \in 0 .. DataSlots - 1
BY Constants, DivMod DEF Slot

\* A step of the mcache, or none; a step of the flow control, or none.
LEMMA McacheStep ==
  ASSUME MP!RInv, MP!Next \/ UNCHANGED mcacheVars
  PROVE  MP!RInv'
BY MP!RInvStep, MAssumed DEF MP!vars, mcacheVars

LEMMA FctlStep ==
  ASSUME FP!IInv,
         FP!Next \/ UNCHANGED <<fctlVars, tx, [r \in Receivers |-> rx[r]]>>
  PROVE  FP!IInv'
BY FP!NextIInv, FAssumed DEF FP!vars, fctlVars

LEMMA FctlStill ==
  ASSUME LInv, UNCHANGED fctlVars, tx' = tx, \A r \in Receivers : rx'[r] = rx[r]
  PROVE  FP!IInv'
<1>1. [r \in Receivers |-> rx[r]]' = [r \in Receivers |-> rx[r]]
  OBVIOUS
<1> QED BY <1>1, FctlStep DEF LInv

-----------------------------------------------------------------------------
(* The invariant: initial states, the producer                              *)

LEMMA InitLInv == Init => LInv
<1> SUFFICES ASSUME Init PROVE LInv
  OBVIOUS
<1> USE Constants
<1>1. MP!Init
  BY DEF Init, M!Init, MP!Init, M!LineIdx, MP!LineIdx, M!Meta, MP!Meta,
     M!Lines, MP!Lines
<1>2. MP!RInv
  BY <1>1, MP!InitRInv, MAssumed
<1>3. FP!Init
  BY DEF Init, F!Init, FP!Init, F!Rx, FP!Rx
<1>4. FP!IInv
  BY <1>3, FP!InitIInv, FAssumed
<1>5. /\ tx = Seq0 /\ ppc = "idle" /\ dpc = "none"
      /\ rx = [c \in Consumers |-> Seq0] /\ rx_cell = [r \in Receivers |-> Seq0]
      /\ cpc = [c \in Consumers |-> "off"]
      /\ data = [s \in 0 .. DataSlots - 1 |-> Torn]
      /\ pay = [c \in Consumers |-> NoPay]
  BY DEF Init, M!Init
<1>6. ReturnsPassed /\ CreditsFirst
  BY <1>5 DEF ReturnsPassed, CreditsFirst
<1>7. PayloadsKept /\ PayloadsRead /\ NeverLate
  BY <1>5 DEF PayloadsKept, PayloadsRead, NeverLate, Torn, NoPay
<1> QED BY <1>2, <1>4, <1>6, <1>7 DEF LInv

\* A payload is written in a slot that none of the frags kept has.
LEMMA PayloadStep == LInv /\ (Payload \/ PayloadDone) => LInv'
<1> SUFFICES ASSUME LInv, Payload \/ PayloadDone PROVE LInv'
  OBVIOUS
<1> USE Facts, Constants
<1>1. /\ UNCHANGED <<mcacheVars, fctlVars, pay>>
      /\ tx' = tx /\ ppc' = ppc /\ rx' = rx /\ cpc' = cpc /\ found' = found
      /\ rx_cell' = rx_cell /\ tpc' = tpc /\ cr_avail' = cr_avail /\ cfg' = cfg
  BY DEF Payload, PayloadDone, mcacheVars, fctlVars
<1>2. MP!RInv' /\ FP!IInv'
  BY <1>1, McacheStep, FctlStill DEF LInv
<1>3. ReturnsPassed' /\ NeverLate'
  BY <1>1 DEF LInv, ReturnsPassed, NeverLate
<1>4. PayloadsRead'
  BY <1>1 DEF LInv, PayloadsRead
<1>5. CreditsFirst'
  BY <1>1 DEF LInv, CreditsFirst, Payload, PayloadDone
<1>6. PayloadsKept'
  <2>1. PICK v \in {Torn, tx} : /\ data' = [data EXCEPT ![Slot(tx)] = v]
                                /\ dpc' = "full" => v = tx
    BY DEF Payload, PayloadDone
  <2>2. /\ data \in [0 .. DataSlots - 1 -> Int] /\ v \in Int
        /\ \A n \in Seq0 .. tx - 1 : tx - n < DataSlots => data[Slot(n)] = n
    BY DEF LInv, PayloadsKept, Torn
  <2>3. Slot(tx) \in 0 .. DataSlots - 1
    BY SlotRange
  <2>4. ASSUME NEW n \in Seq0 .. tx - 1, tx - n < DataSlots
        PROVE  data'[Slot(n)] = n
    <3>1. n \in Int /\ n # tx /\ n - tx < DataSlots
      OBVIOUS
    <3>2. Slot(n) # Slot(tx) /\ Slot(n) \in 0 .. DataSlots - 1
      BY <2>4, <3>1, SlotFree, SlotRange
    <3> QED BY <2>1, <2>2, <2>4, <3>2
  <2> QED BY <1>1, <2>1, <2>2, <2>3, <2>4 DEF PayloadsKept, Slot
<1> QED BY <1>2, <1>3, <1>4, <1>5, <1>6 DEF LInv

LEMMA PublishStep == LInv /\ Publish => LInv'
<1> SUFFICES ASSUME LInv, Publish PROVE LInv'
  OBVIOUS
<1>1. MP!PublishMark \/ MP!PublishSse \/ MP!PublishBody
  BY SameProducer DEF Publish
<1>2. /\ dpc = "full" /\ UNCHANGED <<fctlVars, dataVars>>
      /\ tx' = tx /\ ppc' = "body" /\ rx' = rx /\ cpc' = cpc /\ found' = found
  BY <1>1 DEF Publish, MP!PublishMark, MP!PublishSse, MP!PublishBody, MP!Mark,
     MP!consumerVars
<1>3. MP!RInv'
  BY <1>1, McacheStep DEF LInv, MP!Next, MP!Producer
<1>4. FP!IInv'
  BY <1>2, FctlStill
<1> QED BY <1>2, <1>3, <1>4
        DEF LInv, ReturnsPassed, CreditsFirst, PayloadsKept, PayloadsRead,
            NeverLate, fctlVars, dataVars, Slot

\* The new frag's payload is complete, and the frag that leaves the buffer is
\* more than Depth behind.
LEMMA PublishedStep == LInv /\ Published => LInv'
<1> SUFFICES ASSUME LInv, Published PROVE LInv'
  OBVIOUS
<1> USE Facts, Constants
<1>1. MP!PublishSeq /\ FP!Send
  BY SameProducer, SameFlow DEF Published
<1>2. /\ ppc = "body" /\ tx' = tx + 1 /\ ppc' = "idle" /\ dpc' = "none"
      /\ rx' = rx /\ cpc' = cpc /\ found' = found /\ rx_cell' = rx_cell
      /\ data' = data /\ pay' = pay
  BY <1>1 DEF Published, MP!PublishSeq, MP!consumerVars, FP!Send, FP!rxVars
<1>3. MP!RInv'
  BY <1>1, McacheStep DEF LInv, MP!Next, MP!Producer
<1>4. FP!IInv'
  BY <1>1, FctlStep DEF LInv, FP!Next
<1>5. ReturnsPassed' /\ NeverLate' /\ CreditsFirst'
  BY <1>2 DEF LInv, ReturnsPassed, NeverLate, CreditsFirst
<1>6. PayloadsRead'
  BY <1>2 DEF LInv, PayloadsRead
<1>7. PayloadsKept'
  <2>1. /\ dpc = "full" /\ data \in [0 .. DataSlots - 1 -> Int]
        /\ data[Slot(tx)] = tx
        /\ \A n \in Seq0 .. tx - 1 : tx - n < DataSlots => data[Slot(n)] = n
    BY <1>2 DEF LInv, CreditsFirst, PayloadsKept
  <2>2. ASSUME NEW n \in Seq0 .. tx, tx + 1 - n < DataSlots
        PROVE  data[Slot(n)] = n
    <3>1. CASE n = tx
      BY <2>1, <3>1
    <3>2. CASE n # tx
      <4>0. tx \in Nat /\ Seq0 \in Nat /\ DataSlots \in Nat /\ n \in Int
        OBVIOUS
      <4>1. n \in Seq0 .. tx - 1 /\ tx - n < DataSlots
        BY <2>2, <3>2, <4>0
      <4> QED BY <2>1, <4>1
    <3> QED BY <3>1, <3>2
  <2>3. \A n \in Seq0 .. tx' - 1 : tx' - n < DataSlots => data'[Slot(n)] = n
    BY <1>2, <2>2
  <2> QED BY <1>2, <2>1, <2>3 DEF PayloadsKept, Slot
<1> QED BY <1>3, <1>4, <1>5, <1>6, <1>7 DEF LInv

LEMMA HousekeepingStep == LInv /\ (Housekeeping \/ SeqUpdate) => LInv'
<1> SUFFICES ASSUME LInv, Housekeeping \/ SeqUpdate PROVE LInv'
  OBVIOUS
<1>1. CASE Housekeeping
  <2>1. FP!Housekeeping /\ UNCHANGED <<mcacheVars, dataVars>> /\ dpc = "none"
    BY <1>1, SameFlow DEF Housekeeping
  <2>2. rx_cell' = rx_cell
    BY <2>1 DEF FP!Housekeeping, FP!StartQuery, FP!SkipInactive, FP!QueryRx,
       FP!Resume, FP!EnterRefill, FP!StayInRefill, FP!rxVars
  <2>3. MP!RInv' /\ FP!IInv'
    BY <2>1, McacheStep, FctlStep DEF LInv, FP!Next
  <2> QED BY <2>1, <2>2, <2>3
          DEF LInv, ReturnsPassed, CreditsFirst, PayloadsKept, PayloadsRead,
              NeverLate, mcacheVars, dataVars, Slot
<1>2. CASE SeqUpdate
  <2>1. MP!SeqUpdate /\ UNCHANGED <<fctlVars, dataVars>> /\ dpc = "none"
    BY <1>2, SameProducer DEF SeqUpdate
  <2>2. /\ tx' = tx /\ ppc' = ppc /\ rx' = rx /\ cpc' = cpc /\ found' = found
    BY <2>1 DEF MP!SeqUpdate, MP!consumerVars
  <2>3. MP!RInv' /\ FP!IInv'
    BY <2>1, <2>2, McacheStep, FctlStill DEF LInv, MP!Next, MP!Producer
  <2> QED BY <2>1, <2>2, <2>3
          DEF LInv, ReturnsPassed, CreditsFirst, PayloadsKept, PayloadsRead,
              NeverLate, fctlVars, dataVars, Slot
<1> QED BY <1>1, <1>2

-----------------------------------------------------------------------------
(* The invariant: a consumer                                                *)

LEMMA ConsumerFrame ==
  ASSUME LInv, MP!RInv', FP!IInv', NEW c \in Consumers,
         UNCHANGED <<tx, ppc, tpc, cr_avail, cfg, data, dpc>>,
         \A d \in Consumers \ {c} :
           /\ rx'[d] = rx[d] /\ cpc'[d] = cpc[d] /\ found'[d] = found[d]
           /\ pay'[d] = pay[d],
         \A r \in Receivers \ {c} : rx_cell'[r] = rx_cell[r],
         pay' \in [Consumers -> Int],
         cpc'[c] # "spec" => pay'[c] = NoPay,
         pay'[c] # NoPay => pay'[c] = rx'[c] \/ tx - rx'[c] >= DataSlots,
         c \in Receivers =>
           /\ rx_cell'[c] \in Seq0 .. rx'[c]
           /\ cpc'[c] = "copy" => found'[c] <= rx'[c]
           /\ cpc'[c] # "recover"
  PROVE  LInv'
<1> USE Constants
<1>1. ReturnsPassed' /\ NeverLate'
  BY DEF LInv, ReturnsPassed, NeverLate
<1>2. PayloadsRead'
  BY DEF LInv, PayloadsRead
<1>3. CreditsFirst' /\ PayloadsKept'
  BY DEF LInv, CreditsFirst, PayloadsKept, Slot
<1> QED BY <1>1, <1>2, <1>3 DEF LInv

\* What a receiver finds in a poll and at its second look is its own frag, or
\* nothing new: it is not overrun.
LEMMA ReceiverDecides ==
  ASSUME LInv, NEW r \in Receivers
  PROVE  /\ cpc[r] = "copy" /\ MP!WaitDone(r) => MP!SeqDiff(found[r], rx[r]) = 0
         /\ cpc[r] = "spec" => MP!SeqEq(MP!Query(rx[r]), rx[r])
<1> USE Facts, Constants
<1>1. MP!IInv /\ MP!CopiesIntact
  BY DEF LInv, MP!RInv, MP!IInv
<1>2. /\ MP!SeqEq(MP!Query(rx[r]), rx[r]) <=> MP!Query(rx[r]) = rx[r]
      /\ MP!SeqDiff(found[r], rx[r]) = found[r] - rx[r]
  BY <1>1, MP!Decides, MAssumed
<1>3. cpc[r] = "copy" => found[r] <= rx[r]
  BY DEF LInv, NeverLate
<1>4. found[r] \in Int /\ rx[r] \in Int
  OBVIOUS
<1>5. cpc[r] = "copy" /\ MP!WaitDone(r) => MP!SeqDiff(found[r], rx[r]) = 0
  <2> SUFFICES ASSUME cpc[r] = "copy", MP!WaitDone(r)
               PROVE  MP!SeqDiff(found[r], rx[r]) = 0
    OBVIOUS
  <2> DEFINE d == MP!SeqDiff(found[r], rx[r])
  <2>1. d >= 0
    BY DEF MP!WaitDone
  <2>2. d = found[r] - rx[r]
    BY <1>2
  <2> HIDE DEF d
  <2>3. d \in Int /\ d <= 0
    BY <1>3, <1>4, <2>2
  <2>4. d = 0
    BY <2>1, <2>3
  <2> QED BY <2>4 DEF d
<1>6. cpc[r] = "spec" => rx[r] < tx
  BY <1>1 DEF MP!CopiesIntact
<1>7. cpc[r] = "spec" => MP!Query(rx[r]) = rx[r]
  BY <1>6, FindsOwn
<1> QED BY <1>2, <1>5, <1>7

\* What a poll, or finding that a frag is lost, may change.
LEMMA PollEffect ==
  ASSUME LInv, NEW c \in Consumers, Poll(c) \/ Lost(c)
  PROVE  /\ MP!Next /\ UNCHANGED <<fctlVars, tx, ppc, data, dpc, got>>
         /\ \A d \in Consumers \ {c} :
              rx'[d] = rx[d] /\ cpc'[d] = cpc[d] /\ found'[d] = found[d]
         /\ pay' = [pay EXCEPT ![c] = NoPay]
         /\ c \in Receivers =>
              /\ rx' = rx
              /\ cpc'[c] = "copy" => found'[c] <= rx[c]
              /\ cpc'[c] # "recover"
<1> USE Facts, Constants
<1>0. /\ pay \in [Consumers -> Int]
      /\ cpc[c] # "spec" => pay[c] = NoPay
      /\ c \in Receivers => /\ cpc[c] # "recover"
                            /\ cpc[c] = "copy" => found[c] <= rx[c]
  BY DEF LInv, PayloadsRead, NeverLate
<1>1. CASE Poll(c)
  <2>1. UNCHANGED <<fctlVars, data, dpc, pay>>
    BY <1>1 DEF Poll, dataVars
  <2>p. cpc[c] # "spec" => pay' = [pay EXCEPT ![c] = NoPay]
    BY <1>0, <2>1
  <2>2. CASE MP!WaitSeq(c) \/ MP!WaitSse(c)
    <3>1. PICK k, fs : MP!Load(c, k, fs)
      BY <2>2 DEF MP!WaitSeq, MP!WaitSse
    <3>2. /\ found' = [found EXCEPT ![c] = MP!Query(rx[c])]
          /\ cpc' = [cpc EXCEPT ![c] = "copy"] /\ cpc[c] = "poll"
          /\ UNCHANGED <<rx, got, tx, ppc>>
      BY <3>1 DEF MP!Load, MP!producerVars
    <3>3. c \in Receivers => MP!Query(rx[c]) <= rx[c]
      BY FindsOwn
    <3>4. MP!Next
      BY <2>2, <3>2 DEF MP!Next, MP!RunLoop
    <3>5. /\ \A d \in Consumers \ {c} :
               rx'[d] = rx[d] /\ cpc'[d] = cpc[d] /\ found'[d] = found[d]
          /\ c \in Receivers => /\ cpc'[c] = "copy" => found'[c] <= rx[c]
                                /\ cpc'[c] # "recover"
      BY <1>0, <3>2, <3>3
    <3> QED BY <1>0, <2>1, <2>p, <3>2, <3>3, <3>4, <3>5
  <2>3. CASE MP!WaitCopy(c) \/ MP!WaitTimeout(c) \/ MP!WaitRetry(c)
    <3>1. /\ cpc' = cpc \/ cpc' = [cpc EXCEPT ![c] = "poll"]
          /\ cpc[c] = "copy" /\ UNCHANGED <<rx, found, got, tx, ppc>>
      BY <2>3 DEF MP!WaitCopy, MP!WaitTimeout, MP!WaitRetry, MP!Polled,
         MP!producerVars
    <3>2. MP!Next
      BY <2>3, <3>1 DEF MP!Next, MP!RunLoop
    <3>3. /\ \A d \in Consumers \ {c} :
               rx'[d] = rx[d] /\ cpc'[d] = cpc[d] /\ found'[d] = found[d]
          /\ c \in Receivers => /\ cpc'[c] = "copy" => found'[c] <= rx[c]
                                /\ cpc'[c] # "recover"
      BY <1>0, <3>1
    <3> QED BY <1>0, <2>1, <2>p, <3>1, <3>2, <3>3
  <2>4. CASE MP!WaitMeta(c)
    <3>1. /\ cpc' = [cpc EXCEPT ![c] = "spec"]
          /\ cpc[c] = "copy" /\ UNCHANGED <<rx, found, got, tx, ppc>>
      BY <2>4 DEF MP!WaitMeta, MP!Polled, MP!producerVars
    <3>2. MP!Next
      BY <2>4, <3>1 DEF MP!Next, MP!RunLoop
    <3>3. /\ \A d \in Consumers \ {c} :
               rx'[d] = rx[d] /\ cpc'[d] = cpc[d] /\ found'[d] = found[d]
          /\ c \in Receivers => /\ cpc'[c] = "copy" => found'[c] <= rx[c]
                                /\ cpc'[c] # "recover"
      BY <1>0, <3>1
    <3> QED BY <1>0, <2>1, <2>p, <3>1, <3>2, <3>3
  <2>5. CASE MP!WaitOverrun(c)
    <3>1. /\ cpc[c] = "copy" /\ MP!WaitDone(c) /\ MP!SeqDiff(found[c], rx[c]) # 0
          /\ MP!Overrun(c, found[c]) /\ UNCHANGED <<found, got, tx, ppc>>
      BY <2>5 DEF MP!WaitOverrun, MP!Polled, MP!producerVars
    <3>2. c \notin Receivers
      BY <3>1, ReceiverDecides
    <3>3. /\ \A d \in Consumers \ {c} : rx'[d] = rx[d] /\ cpc'[d] = cpc[d]
      BY <3>1 DEF MP!Overrun
    <3>4. MP!Next
      BY <2>5, <3>1 DEF MP!Next, MP!RunLoop
    <3> QED BY <2>1, <2>p, <3>1, <3>2, <3>3, <3>4
  <2>6. CASE MP!Recover(c)
    <3>1. /\ cpc[c] = "recover" /\ rx' = [rx EXCEPT ![c] = seqCell]
          /\ cpc' = [cpc EXCEPT ![c] = "poll"] /\ UNCHANGED <<found, got, tx, ppc>>
      BY <2>6 DEF MP!Recover, MP!producerVars
    <3>2. MP!Next
      BY <2>6, <3>1 DEF MP!Next, MP!RunLoop
    <3>3. /\ \A d \in Consumers \ {c} :
               rx'[d] = rx[d] /\ cpc'[d] = cpc[d] /\ found'[d] = found[d]
          /\ c \in Receivers => /\ cpc'[c] = "copy" => found'[c] <= rx[c]
                                /\ cpc'[c] # "recover"
      BY <1>0, <3>1
    <3> QED BY <1>0, <2>1, <2>p, <3>1, <3>2, <3>3
  <2> QED BY <1>1, <2>2, <2>3, <2>4, <2>5, <2>6, SameConsumer DEF Poll
<1>2. CASE Lost(c)
  <2>1. /\ MP!RecheckOverrun(c) /\ pay' = [pay EXCEPT ![c] = NoPay]
        /\ UNCHANGED <<fctlVars, data, dpc>>
    BY <1>2, SameConsumer DEF Lost
  <2>2. /\ cpc[c] = "spec" /\ ~MP!SeqEq(MP!Query(rx[c]), rx[c])
        /\ MP!Overrun(c, MP!Query(rx[c])) /\ UNCHANGED <<found, got, tx, ppc>>
    BY <2>1 DEF MP!RecheckOverrun, MP!producerVars
  <2>3. c \notin Receivers
    BY <2>2, ReceiverDecides
  <2>4. /\ \A d \in Consumers \ {c} : rx'[d] = rx[d] /\ cpc'[d] = cpc[d]
    BY <2>2 DEF MP!Overrun
  <2>5. MP!Next
    BY <2>1, <2>2 DEF MP!Next, MP!RunLoop
  <2> QED BY <2>1, <2>2, <2>3, <2>4, <2>5
<1> QED BY <1>1, <1>2

LEMMA PollStep ==
  ASSUME LInv, NEW c \in Consumers, Poll(c) \/ Lost(c)
  PROVE  LInv'
<1> USE Facts, Constants
<1>1. /\ MP!Next /\ UNCHANGED <<fctlVars, tx, ppc, data, dpc, got>>
      /\ \A d \in Consumers \ {c} :
           rx'[d] = rx[d] /\ cpc'[d] = cpc[d] /\ found'[d] = found[d]
      /\ pay' = [pay EXCEPT ![c] = NoPay]
      /\ c \in Receivers => /\ rx' = rx
                            /\ cpc'[c] = "copy" => found'[c] <= rx[c]
                            /\ cpc'[c] # "recover"
  BY PollEffect
<1>2. /\ pay \in [Consumers -> Int] /\ NoPay \in Int
      /\ \A r \in Receivers : rx_cell[r] \in Seq0 .. rx[r]
  BY DEF LInv, PayloadsRead, ReturnsPassed, NoPay
<1>3. /\ pay' \in [Consumers -> Int] /\ pay'[c] = NoPay
      /\ \A d \in Consumers \ {c} : pay'[d] = pay[d]
  BY <1>1, <1>2
<1>4. /\ UNCHANGED <<tpc, cr_avail, cfg, rx_cell>>
      /\ \A r \in Receivers : rx'[r] = rx[r]
  BY <1>1 DEF fctlVars
<1>5. MP!RInv' /\ FP!IInv'
  BY <1>1, <1>4, McacheStep, FctlStill DEF LInv
<1> QED BY <1>1, <1>2, <1>3, <1>4, <1>5, ConsumerFrame

\* The payload in the slot is that of the frag, or the consumer has already
\* been overrun.
LEMMA ReadPayloadStep ==
  ASSUME LInv, NEW c \in Consumers, ReadPayload(c)
  PROVE  LInv'
<1> USE Facts, Constants
<1>1. /\ cpc[c] = "spec" /\ pay' = [pay EXCEPT ![c] = data[Slot(rx[c])]]
      /\ UNCHANGED <<mcacheVars, fctlVars, data, dpc>>
  BY DEF ReadPayload
<1>2. UNCHANGED <<tx, ppc, rx, cpc, found, tpc, cr_avail, cfg, rx_cell>>
  BY <1>1 DEF mcacheVars, fctlVars
<1>3. MP!RInv' /\ FP!IInv'
  BY <1>1, <1>2, McacheStep, FctlStill DEF LInv
<1>4. rx[c] < tx /\ rx[c] \in Seq0 .. tx /\ rx[c] \in Seq0 .. tx - 1
  <2>1. rx[c] < tx /\ rx[c] \in Seq0 .. tx
    BY <1>1 DEF LInv, MP!RInv, MP!IInv, MP!CopiesIntact
  <2> QED BY <2>1
<1>5. /\ data \in [0 .. DataSlots - 1 -> Int]
      /\ tx - rx[c] < DataSlots => data[Slot(rx[c])] = rx[c]
  BY <1>4 DEF LInv, PayloadsKept
<1>6. Slot(rx[c]) \in 0 .. DataSlots - 1
  BY <1>4, SlotRange
<1>7. pay \in [Consumers -> Int]
  BY DEF LInv, PayloadsRead
<1>8. /\ pay' \in [Consumers -> Int] /\ pay'[c] = data[Slot(rx[c])]
      /\ \A d \in Consumers \ {c} : pay'[d] = pay[d]
  BY <1>1, <1>5, <1>6, <1>7
<1>9. tx \in Int /\ rx[c] \in Int /\ DataSlots \in Int
  BY <1>4
<1>10. pay'[c] = rx'[c] \/ tx - rx'[c] >= DataSlots
  BY <1>2, <1>5, <1>8, <1>9
<1>11. c \in Receivers => /\ rx_cell'[c] \in Seq0 .. rx'[c]
                          /\ cpc'[c] # "copy" /\ cpc'[c] # "recover"
  BY <1>1, <1>2 DEF LInv, ReturnsPassed
<1> QED BY <1>1, <1>2, <1>3, <1>8, <1>10, <1>11, ConsumerFrame

LEMMA AcceptStep ==
  ASSUME LInv, NEW c \in Consumers, Accept(c)
  PROVE  LInv'
<1> USE Facts, Constants
<1>1. /\ MP!Accept(c) /\ pay' = [pay EXCEPT ![c] = NoPay]
      /\ UNCHANGED <<data, dpc>>
  BY SameConsumer DEF Accept
<1>2. /\ cpc[c] = "spec" /\ cpc' = [cpc EXCEPT ![c] = "poll"]
      /\ rx' = [rx EXCEPT ![c] = rx[c] + 1] /\ UNCHANGED <<found, tx, ppc>>
  BY <1>1 DEF MP!Accept, MP!producerVars
<1>3. MP!RInv'
  BY <1>1, <1>2, McacheStep DEF LInv, MP!Next, MP!RunLoop
<1>4. FP!IInv' /\ UNCHANGED <<tpc, cr_avail, cfg, rx_cell>>
  <2>1. CASE c \in Receivers
    <3>1. FP!Receive(c)
      BY <2>1, SameFlow DEF Accept
    <3>2. FP!IInv'
      BY <2>1, <3>1, FctlStep DEF LInv, FP!Next
    <3> QED BY <3>1, <3>2 DEF FP!Receive
  <2>2. CASE c \notin Receivers
    <3>1. UNCHANGED fctlVars /\ \A r \in Receivers : rx'[r] = rx[r]
      BY <1>2, <2>2 DEF Accept
    <3> QED BY <1>2, <3>1, FctlStill DEF fctlVars
  <2> QED BY <2>1, <2>2
<1>5. pay \in [Consumers -> Int] /\ NoPay \in Int
  BY DEF LInv, PayloadsRead, NoPay
<1>6. /\ pay' \in [Consumers -> Int] /\ pay'[c] = NoPay
      /\ \A d \in Consumers \ {c} : pay'[d] = pay[d]
  BY <1>1, <1>5
<1>7. c \in Receivers => /\ rx_cell'[c] \in Seq0 .. rx'[c]
                         /\ cpc'[c] # "copy" /\ cpc'[c] # "recover"
  <2>1. c \in Receivers => rx_cell[c] \in Seq0 .. rx[c]
    BY DEF LInv, ReturnsPassed
  <2> QED BY <1>2, <1>4, <2>1
<1> QED BY <1>1, <1>2, <1>3, <1>4, <1>6, <1>7, ConsumerFrame

\* Joining, returning credits and crashing.
LEMMA StartStep ==
  ASSUME LInv, NEW c \in Consumers, Start(c) \/ Return(c) \/ Crash(c)
  PROVE  LInv'
<1> USE Facts, Constants
<1>0. /\ pay \in [Consumers -> Int] /\ NoPay \in Int
      /\ cpc[c] # "spec" => pay[c] = NoPay
      /\ c \in Receivers => rx_cell[c] \in Seq0 .. rx[c]
  BY DEF LInv, PayloadsRead, ReturnsPassed, NoPay
<1>1. CASE Start(c)
  <2>1. UNCHANGED <<fctlVars, dataVars>>
    BY <1>1 DEF Start
  <2>2. CASE c \in Watchers /\ M!Join(c)
    <3>1. MP!Join(c)
      BY <2>2, SameConsumer
    <3>2. /\ rx' = [rx EXCEPT ![c] = seqCell] /\ cpc' = [cpc EXCEPT ![c] = "poll"]
          /\ cpc[c] = "off" /\ UNCHANGED <<found, tx, ppc>>
      BY <3>1 DEF MP!Join, MP!producerVars
    <3>3. MP!RInv'
      BY <3>1, McacheStep DEF LInv, MP!Next
    <3>4. c \notin Receivers
      BY <2>2
    <3>5. \A r \in Receivers : rx'[r] = rx[r]
      BY <3>2, <3>4
    <3>6. FP!IInv'
      BY <2>1, <3>2, <3>5, FctlStill
    <3>7. /\ UNCHANGED <<tpc, cr_avail, cfg, rx_cell, data, dpc, pay>>
      BY <2>1 DEF fctlVars, dataVars
    <3>8. /\ \A d \in Consumers \ {c} : rx'[d] = rx[d] /\ cpc'[d] = cpc[d]
          /\ cpc'[c] = "poll"
      BY <3>2
    <3> QED BY <1>0, <3>2, <3>3, <3>4, <3>6, <3>7, <3>8, ConsumerFrame
  <2>3. CASE c \in Receivers /\ ~(c \in Watchers /\ M!Join(c))
    <3>1. /\ cpc' = [cpc EXCEPT ![c] = "poll"] /\ cpc[c] = "off"
          /\ UNCHANGED <<line, seqCell, tx, pubKind, pubTodo, ppc,
                         rx, poll, kind, found, copy, todo, got>>
      BY <1>1, <2>3 DEF Start
    <3>2. rx' = [rx EXCEPT ![c] = rx[c]] /\ rx[c] \in Seq0 .. tx
      BY <3>1
    <3>3. MP!RInv'
      BY <3>1, <3>2, MP!StartOver, MAssumed DEF LInv, MP!producerVars
    <3>4. FP!IInv'
      BY <2>1, <3>1, FctlStill
    <3>5. /\ UNCHANGED <<tpc, cr_avail, cfg, rx_cell, data, dpc, pay>>
      BY <2>1 DEF fctlVars, dataVars
    <3>6. (\A d \in Consumers \ {c} : cpc'[d] = cpc[d]) /\ cpc'[c] = "poll"
      BY <3>1
    <3> QED BY <1>0, <3>1, <3>3, <3>4, <3>5, <3>6, ConsumerFrame
  <2> QED BY <1>1, <2>2, <2>3 DEF Start
<1>2. CASE Return(c)
  <2>1. /\ c \in Receivers /\ cpc[c] = "poll" /\ FP!CrReturn(c)
        /\ UNCHANGED <<mcacheVars, dataVars>>
    BY <1>2, SameFlow DEF Return
  <2>2. /\ rx_cell' = [rx_cell EXCEPT ![c] = rx[c]]
        /\ UNCHANGED <<tpc, cr_avail, cfg>>
    BY <2>1 DEF FP!CrReturn
  <2>3. UNCHANGED <<tx, ppc, rx, cpc, found, data, dpc, pay>>
    BY <2>1 DEF mcacheVars, dataVars
  <2>4. MP!RInv' /\ FP!IInv'
    BY <2>1, McacheStep, FctlStep DEF LInv, FP!Next
  <2>5. /\ rx_cell'[c] = rx[c]
        /\ \A r \in Receivers \ {c} : rx_cell'[r] = rx_cell[r]
    BY <2>1, <2>2
  <2> QED BY <1>0, <2>1, <2>2, <2>3, <2>4, <2>5, ConsumerFrame
<1>3. CASE Crash(c)
  <2>1. /\ c \in Receivers /\ FP!Crash(c)
        /\ rx' = [rx EXCEPT ![c] = rx_cell[c]]
        /\ cpc' = [cpc EXCEPT ![c] = "poll"]
        /\ poll' = [poll EXCEPT ![c] = PollMax]
        /\ pay' = [pay EXCEPT ![c] = NoPay]
        /\ UNCHANGED <<line, seqCell, tx, pubKind, pubTodo, ppc,
                       kind, found, copy, todo, got, data, dpc>>
    BY <1>3, SameFlow DEF Crash
  <2>2. rx_cell[c] \in Seq0 .. tx
    BY <1>0, <2>1
  <2>3. poll' \in [Consumers -> 1 .. PollMax]
    BY <2>1
  <2>4. MP!RInv'
    BY <2>1, <2>2, <2>3, MP!StartOver, MAssumed DEF LInv, MP!producerVars
  <2>5. FP!IInv'
    BY <2>1, FctlStep DEF LInv, FP!Next
  <2>6. UNCHANGED <<tpc, cr_avail, cfg, rx_cell>>
    BY <2>1 DEF FP!Crash
  <2>7. /\ pay' \in [Consumers -> Int] /\ pay'[c] = NoPay
        /\ rx'[c] = rx_cell[c] /\ cpc'[c] = "poll"
        /\ \A d \in Consumers \ {c} : /\ rx'[d] = rx[d] /\ cpc'[d] = cpc[d]
                                      /\ pay'[d] = pay[d]
    BY <1>0, <2>1
  <2>8. rx_cell'[c] \in Seq0 .. rx'[c]
    BY <2>2, <2>6, <2>7
  <2> QED BY <2>1, <2>4, <2>5, <2>6, <2>7, <2>8, ConsumerFrame
<1> QED BY <1>1, <1>2, <1>3

LEMMA LInvStep == LInv /\ [Next]_vars => LInv'
<1> SUFFICES ASSUME LInv, [Next]_vars PROVE LInv'
  OBVIOUS
<1>1. CASE Producing
  BY <1>1, PayloadStep, PublishStep, PublishedStep DEF Producing
<1>2. CASE Housekeeping \/ SeqUpdate
  BY <1>2, HousekeepingStep
<1>3. ASSUME NEW c \in Consumers, Consuming(c) \/ Return(c) \/ Crash(c)
      PROVE  LInv'
  BY <1>3, PollStep, ReadPayloadStep, AcceptStep, StartStep DEF Consuming
<1>4. CASE UNCHANGED vars
  <2>1. UNCHANGED <<mcacheVars, fctlVars, dataVars>>
    BY <1>4 DEF vars
  <2>2. UNCHANGED <<tx, ppc, rx, cpc, found, tpc, cr_avail, cfg, rx_cell,
                    data, dpc, pay>>
    BY <2>1 DEF mcacheVars, fctlVars, dataVars
  <2>3. MP!RInv' /\ FP!IInv'
    BY <2>1, <2>2, McacheStep, FctlStill DEF LInv
  <2> QED BY <2>2, <2>3 DEF LInv, ReturnsPassed, CreditsFirst, PayloadsKept,
          PayloadsRead, NeverLate, Slot
<1> QED BY <1>1, <1>2, <1>3, <1>4 DEF Next

LEMMA LInvHolds == Spec => []LInv
<1>1. Init => LInv
  BY InitLInv
<1>2. LInv /\ [Next]_vars => LInv'
  BY LInvStep
<1> QED BY <1>1, <1>2, PTL DEF Spec

-----------------------------------------------------------------------------
(* Theorems *)

\* Everything a reliable consumer has not returned is kept whole, the metadata
\* in the mcache and the payload in the buffer: it may crash at any step and
\* start over from its fseq.
THEOREM KeptForReceiversHolds == Spec => []KeptForReceivers
<1>1. ASSUME LInv PROVE KeptForReceivers
  <2> USE <1>1, Facts, Constants
  <2> SUFFICES ASSUME NEW r \in Receivers, NEW n \in rx_cell[r] .. tx - 1
               PROVE  /\ line[M!LineIdx(n)] = [seq |-> n, body |-> M!Meta(n)]
                      /\ data[Slot(n)] = n
    BY DEF KeptForReceivers
  <2>1. /\ n \in Int /\ n >= Seq0 /\ n < tx /\ tx - n <= Depth
        /\ MP!Query(n) = n
    BY NearHeld
  <2>2. MP!IInv /\ MP!LinesIntact /\ MP!TypeOK
    BY DEF LInv, MP!RInv, MP!IInv
  <2>3. MP!LineIdx(n) \in MP!Lines
    BY <2>1, MP!LineIdxRange, MAssumed
  <2>4. line[MP!LineIdx(n)].seq = n
    BY <2>1 DEF MP!Query
  <2>5. line[MP!LineIdx(n)].body = MP!Meta(n)
    BY <2>2, <2>3, <2>4 DEF MP!LinesIntact
  <2>6. line[MP!LineIdx(n)] \in [seq : Int, body : [Fields -> Int]]
    BY <2>2, <2>3 DEF MP!TypeOK
  <2>7. line[MP!LineIdx(n)] = [seq |-> n, body |-> MP!Meta(n)]
    BY <2>4, <2>5, <2>6
  <2>8. n \in Seq0 .. tx - 1 /\ tx - n < DataSlots
    BY <2>1
  <2>9. data[Slot(n)] = n
    BY <2>8 DEF LInv, PayloadsKept
  <2> QED BY <2>7, <2>9, SameLines
<1> QED BY <1>1, LInvHolds, PTL

\* A payload read in place is that of the frag, if the second look at the line
\* finds the frag there - for the consumers that the producer does not wait
\* for too, whenever it overruns them.
THEOREM PayloadIntactHolds == Spec => []PayloadIntact
<1>1. ASSUME LInv PROVE PayloadIntact
  <2> USE <1>1, Facts, Constants
  <2> SUFFICES ASSUME NEW c \in Consumers, cpc[c] = "spec", pay[c] # NoPay,
                      M!Query(rx[c]) = rx[c]
               PROVE  pay[c] = rx[c]
    BY DEF PayloadIntact
  <2>1. pay[c] = rx[c] \/ tx - rx[c] >= DataSlots
    BY DEF LInv, PayloadsRead
  <2>2. /\ rx[c] \in Int /\ rx[c] >= Seq0 /\ MP!IInv /\ MP!LinesInTurn
        /\ MP!Query(rx[c]) = rx[c]
    BY SameLines DEF LInv, MP!RInv
  <2>3. rx[c] \in MP!Held
    BY <2>2, MP!QueryNow, MAssumed
  <2>4. tx - rx[c] <= Depth
    BY <2>2, <2>3 DEF MP!Held
  <2>5. ~(tx - rx[c] >= DataSlots)
    BY <2>2, <2>4
  <2> QED BY <2>1, <2>5
<1> QED BY <1>1, LInvHolds, PTL

\* The steps that concern the stream.
LEMMA StreamSend == LInv /\ Published => Stream!Send
<1> SUFFICES ASSUME LInv, Published PROVE Stream!Send
  OBVIOUS
<1>1. MP!PublishSeq /\ FP!Send
  BY SameProducer, SameFlow DEF Published
<1>2. /\ ppc = "body" /\ tx' = tx + 1
      /\ UNCHANGED <<rx, got, rx_cell>>
  BY <1>1 DEF MP!PublishSeq, MP!consumerVars, FP!Send, FP!rxVars
<1>3. dpc # "none"
  BY <1>2 DEF LInv, CreditsFirst
<1>4. \A r \in Receivers : tx < rx_cell[r] + Depth
  BY <1>3, Near
<1> QED BY <1>2, <1>4 DEF Stream!Send

LEMMA StreamReceive ==
  ASSUME LInv, NEW c \in Consumers, Accept(c)
  PROVE  IF c \in Receivers THEN Stream!Receive(c) ELSE UNCHANGED Stream!vars
<1> USE Facts, Constants
<1>1. MP!Accept(c)
  BY SameConsumer DEF Accept
<1>2. /\ cpc[c] = "spec" /\ tx' = tx
      /\ got' = [got EXCEPT ![c] = copy[c]] /\ rx' = [rx EXCEPT ![c] = rx[c] + 1]
  BY <1>1 DEF MP!Accept, MP!producerVars
<1>3. rx[c] < tx /\ copy[c] = MP!Meta(rx[c])
  BY <1>2 DEF LInv, MP!RInv, MP!IInv, MP!CopiesIntact
<1>4. CASE c \in Receivers
  <2>1. rx_cell' = rx_cell
    BY <1>4, SameFlow DEF Accept, FP!Receive
  <2>2. /\ [r \in Receivers |-> rx'[r]] =
             [[r \in Receivers |-> rx[r]] EXCEPT ![c] = rx[c] + 1]
        /\ [r \in Receivers |-> got'[r]] =
             [[r \in Receivers |-> got[r]] EXCEPT ![c] = copy[c]]
        /\ [r \in Receivers |-> rx[r]][c] = rx[c]
    BY <1>2, <1>4
  <2>3. copy[c] = Stream!Meta(rx[c])
    BY <1>3 DEF MP!Meta, Stream!Meta
  <2> QED BY <1>2, <1>3, <1>4, <2>1, <2>2, <2>3 DEF Stream!Receive
<1>5. CASE c \notin Receivers
  <2>1. rx_cell' = rx_cell
    BY <1>5 DEF Accept, fctlVars
  <2>2. /\ [r \in Receivers |-> rx'[r]] = [r \in Receivers |-> rx[r]]
        /\ [r \in Receivers |-> got'[r]] = [r \in Receivers |-> got[r]]
    BY <1>2, <1>5
  <2> QED BY <1>2, <1>5, <2>1, <2>2 DEF Stream!vars
<1> QED BY <1>4, <1>5

LEMMA StreamReturn ==
  ASSUME LInv, NEW c \in Consumers, Return(c) \/ Crash(c)
  PROVE  /\ c \in Receivers
         /\ Stream!Return(c) \/ (c \in Unstable /\ Stream!Crash(c))
<1> USE Facts, Constants
<1>1. CASE Return(c)
  <2>1. /\ c \in Receivers /\ FP!CrReturn(c) /\ UNCHANGED mcacheVars
    BY <1>1, SameFlow DEF Return
  <2>2. /\ rx_cell' = [rx_cell EXCEPT ![c] = rx[c]] /\ UNCHANGED <<tx, rx, got>>
    BY <2>1 DEF FP!CrReturn, mcacheVars
  <2> QED BY <2>1, <2>2 DEF Stream!Return
<1>2. CASE Crash(c)
  <2>1. /\ c \in Receivers /\ c \in Unstable /\ FP!Crash(c)
        /\ rx' = [rx EXCEPT ![c] = rx_cell[c]] /\ UNCHANGED <<tx, got>>
    BY <1>2, SameFlow DEF Crash
  <2>2. rx_cell' = rx_cell
    BY <2>1 DEF FP!Crash
  <2>3. [r \in Receivers |-> rx'[r]] =
          [[r \in Receivers |-> rx[r]] EXCEPT ![c] = rx_cell[c]]
    BY <2>1
  <2> QED BY <2>1, <2>2, <2>3 DEF Stream!Crash
<1> QED BY <1>1, <1>2

LEMMA StreamStill ==
  ASSUME LInv,
         \/ Payload \/ PayloadDone \/ Publish \/ Housekeeping \/ SeqUpdate
         \/ \E c \in Consumers : Start(c) \/ Poll(c) \/ ReadPayload(c) \/ Lost(c)
         \/ UNCHANGED vars
  PROVE  UNCHANGED Stream!vars
<1> SUFFICES /\ UNCHANGED <<tx, rx_cell, got>>
             /\ \A r \in Receivers : rx'[r] = rx[r]
  BY DEF Stream!vars
<1> USE Facts, Constants
<1>1. CASE Payload \/ PayloadDone \/ UNCHANGED vars
  BY <1>1 DEF Payload, PayloadDone, vars, mcacheVars, fctlVars
<1>2. CASE Publish
  <2>1. MP!PublishMark \/ MP!PublishSse \/ MP!PublishBody
    BY <1>2, SameProducer DEF Publish
  <2> QED BY <1>2, <2>1 DEF Publish, MP!PublishMark, MP!PublishSse,
          MP!PublishBody, MP!Mark, MP!consumerVars, fctlVars
<1>3. CASE Housekeeping
  <2>1. FP!Housekeeping
    BY <1>3, SameFlow DEF Housekeeping
  <2>2. rx_cell' = rx_cell
    BY <2>1 DEF FP!Housekeeping, FP!StartQuery, FP!SkipInactive, FP!QueryRx,
       FP!Resume, FP!EnterRefill, FP!StayInRefill, FP!rxVars
  <2> QED BY <1>3, <2>2 DEF Housekeeping, mcacheVars
<1>4. CASE SeqUpdate
  <2>1. MP!SeqUpdate
    BY <1>4, SameProducer DEF SeqUpdate
  <2> QED BY <1>4, <2>1 DEF SeqUpdate, MP!SeqUpdate, MP!consumerVars, fctlVars
<1>5. ASSUME NEW c \in Consumers, Poll(c) \/ Lost(c)
      PROVE  /\ UNCHANGED <<tx, rx_cell, got>>
             /\ \A r \in Receivers : rx'[r] = rx[r]
  BY <1>5, PollEffect DEF fctlVars
<1>6. ASSUME NEW c \in Consumers, Start(c)
      PROVE  /\ UNCHANGED <<tx, rx_cell, got>>
             /\ \A r \in Receivers : rx'[r] = rx[r]
  BY <1>6 DEF Start, M!Join, M!producerVars, fctlVars
<1>7. ASSUME NEW c \in Consumers, ReadPayload(c)
      PROVE  /\ UNCHANGED <<tx, rx_cell, got>>
             /\ \A r \in Receivers : rx'[r] = rx[r]
  BY <1>7 DEF ReadPayload, mcacheVars, fctlVars
<1> QED BY <1>1, <1>2, <1>3, <1>4, <1>5, <1>6, <1>7

\* Mcache, flow control, fseqs and payload buffer together implement a
\* reliable stream: its receivers get every frag, whole and in order, however
\* often they crash, and the producer never runs away from them.
THEOREM ImplementsReliableStreamHolds == Spec => ImplementsReliableStream
<1>1. Init => Stream!Init
  <2> SUFFICES ASSUME Init PROVE Stream!Init
    OBVIOUS
  <2>1. /\ tx = Seq0 /\ rx = [c \in Consumers |-> Seq0]
        /\ rx_cell = [r \in Receivers |-> Seq0]
        /\ got = [c \in Consumers |-> M!Meta(Seq0 - 1)]
    BY DEF Init, M!Init
  <2> QED BY <2>1, Constants DEF Stream!Init, Stream!Meta, M!Meta
<1>2. LInv /\ [Next]_vars => [Stream!Next]_(Stream!vars)
  <2> SUFFICES ASSUME LInv, [Next]_vars
               PROVE  Stream!Next \/ UNCHANGED Stream!vars
    OBVIOUS
  <2>1. CASE Published
    BY <2>1, StreamSend DEF Stream!Next
  <2>2. ASSUME NEW c \in Consumers, Accept(c)
        PROVE  Stream!Next \/ UNCHANGED Stream!vars
    BY <2>2, StreamReceive DEF Stream!Next
  <2>3. ASSUME NEW c \in Consumers, Return(c) \/ Crash(c) PROVE Stream!Next
    BY <2>3, StreamReturn DEF Stream!Next
  <2>4. CASE \/ Payload \/ PayloadDone \/ Publish \/ Housekeeping \/ SeqUpdate
             \/ \E c \in Consumers :
                  Start(c) \/ Poll(c) \/ ReadPayload(c) \/ Lost(c)
             \/ UNCHANGED vars
    BY <2>4, StreamStill
  <2> QED BY <2>1, <2>2, <2>3, <2>4 DEF Next, Producing, Consuming
<1> QED BY <1>1, <1>2, LInvHolds, PTL
        DEF Spec, ImplementsReliableStream, Stream!Spec
=============================================================================
