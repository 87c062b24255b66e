---------------------------- MODULE Fctl_proofs ----------------------------
(***************************************************************************)
(* Proofs about Fctl, for every number of receivers, every configuration   *)
(* the comments allow and every starting position FctlAssumption admits.   *)
(***************************************************************************)
EXTENDS Fctl, ModularLemmas

-----------------------------------------------------------------------------
(* Sequence numbers: between numbers less than SeqHalf apart the residues   *)
(* decide, and no difference leaves the range of a long.                   *)

LEMMA SeqModNat ==
  ASSUME SeqHalf \in Nat \ {0}
  PROVE  SeqMod \in Nat \ {0} /\ SeqMod = 2 * SeqHalf
BY DEF SeqMod

\* fd_seq_diff is the difference for numbers less than SeqHalf apart.
LEMMA SeqDiffIs ==
  ASSUME SeqHalf \in Nat \ {0},
         NEW a \in Int, NEW b \in Int, a - b < SeqHalf, b - a <= SeqHalf
  PROVE  SeqDiff(a, b) = a - b
<1> DEFINE r == a - b + SeqHalf
<1>1. r \in 0 .. SeqMod - 1
  BY SeqModNat
<1> HIDE DEF r
<1>2. SeqMod * 0 + r = r
  BY <1>1, SeqModNat
<1>3. r % SeqMod = r
  BY <1>1, <1>2, SeqModNat, DivModOf
<1>4. r - SeqHalf = a - b
  BY SeqModNat DEF r
<1> QED BY <1>3, <1>4 DEF SeqDiff, r

\* fd_seq_diff fits a long, for any numbers.
LEMMA SeqDiffRange ==
  ASSUME SeqHalf \in Nat \ {0}, NEW a \in Int, NEW b \in Int
  PROVE  SeqDiff(a, b) \in -SeqHalf .. SeqHalf - 1
<1> DEFINE r == (a - b + SeqHalf) % SeqMod
<1>1. a - b + SeqHalf \in Int
  OBVIOUS
<1>2. r \in 0 .. SeqMod - 1
  BY <1>1, SeqModNat, DivMod
<1> HIDE DEF r
<1>3. r - SeqHalf \in -SeqHalf .. SeqHalf - 1
  BY <1>2, SeqModNat
<1> QED BY <1>3 DEF SeqDiff, r

-----------------------------------------------------------------------------
(* The credit calculation *)

\* rx_cr_query is computed without overflow whatever the two sequence numbers
\* are, and is between 0 and the receiver's cr_max: the argument of the
\* comment in fd_fctl_cr_query, for "overflow / misconfigured receivers".
THEOREM RxCreditsNoOverflow ==
  ASSUME SeqHalf \in Nat \ {0}, NEW m \in 1 .. SeqHalf - 1,
         NEW tx \in Int, NEW rx \in Int
  PROVE  /\ m - LongMax(SeqDiff(tx, rx), 0) \in -SeqHalf .. SeqHalf - 1
         /\ RxCredits(m, tx, rx) \in 0 .. m
<1> DEFINE d == SeqDiff(tx, rx)
<1>1. d \in -SeqHalf .. SeqHalf - 1
  BY SeqDiffRange
<1> HIDE DEF d
<1>2. /\ m - LongMax(d, 0) \in -SeqHalf .. SeqHalf - 1
      /\ LongMax(m - LongMax(d, 0), 0) \in 0 .. m
  BY <1>1 DEF LongMax
<1> QED BY <1>2 DEF RxCredits, d

\* Between a transmitter and a receiver less than SeqHalf apart.
LEMMA RxCreditsIs ==
  ASSUME SeqHalf \in Nat \ {0}, NEW m \in 1 .. SeqHalf - 1,
         NEW tx \in Int, NEW rx \in Int, tx - rx < SeqHalf, rx - tx <= SeqHalf
  PROVE  RxCredits(m, tx, rx) = LongMax(m - LongMax(tx - rx, 0), 0)
BY SeqDiffIs DEF RxCredits

\* Credits, if there are any, keep the transmitter within cr_max.
LEMMA RxCreditsSafe ==
  ASSUME SeqHalf \in Nat \ {0}, NEW m \in 1 .. SeqHalf - 1,
         NEW tx \in Int, NEW rx \in Int, tx - rx < SeqHalf, rx - tx <= SeqHalf,
         RxCredits(m, tx, rx) > 0
  PROVE  tx + RxCredits(m, tx, rx) <= rx + m
<1>1. RxCredits(m, tx, rx) = LongMax(m - LongMax(tx - rx, 0), 0)
  BY RxCreditsIs
<1>2. LongMax(m - LongMax(tx - rx, 0), 0) > 0
  BY <1>1
<1>3. tx + LongMax(m - LongMax(tx - rx, 0), 0) <= rx + m
  BY <1>2 DEF LongMax
<1> QED BY <1>1, <1>3

\* A receiver that moves on leaves at least as many credits as before.
LEMMA RxCreditsMonotone ==
  ASSUME SeqHalf \in Nat \ {0}, NEW m \in 1 .. SeqHalf - 1,
         NEW tx \in Int, NEW rx \in Int, NEW new \in Int,
         rx <= new, tx - rx < SeqHalf, new - tx <= SeqHalf
  PROVE  RxCredits(m, tx, rx) <= RxCredits(m, tx, new)
<1>1. rx - tx <= SeqHalf /\ tx - new < SeqHalf
  OBVIOUS
<1>2. RxCredits(m, tx, rx) = LongMax(m - LongMax(tx - rx, 0), 0)
  BY <1>1, RxCreditsIs
<1>3. RxCredits(m, tx, new) = LongMax(m - LongMax(tx - new, 0), 0)
  BY <1>1, RxCreditsIs
<1>4. LongMax(m - LongMax(tx - rx, 0), 0) <= LongMax(m - LongMax(tx - new, 0), 0)
  BY DEF LongMax
<1> QED BY <1>2, <1>3, <1>4

-----------------------------------------------------------------------------
(* The inductive invariant *)

\* What the configuration in force guarantees.
LEMMA ConfigFacts ==
  ASSUME cfg \in Configs
  PROVE  /\ SeqHalf \in Nat \ {0} /\ RxCnt \in Nat
         /\ Tx0 \in Nat /\ MaxSend \in Nat
         /\ cfg.rx_cr_max \in [Rx -> 1 .. SeqHalf - 1]
         /\ cfg.cr_burst \in 1 .. SeqHalf - 1
         /\ cfg.cr_max \in cfg.cr_burst .. SeqHalf - 1
         /\ cfg.cr_resume \in cfg.cr_burst .. cfg.cr_max
         /\ cfg.cr_refill \in 1 .. cfg.cr_resume
BY FctlAssumption DEF ValidConfig

\* What the code computes for a receiver in a reachable state: a number in
\* range, that keeps the transmitter within cr_max if there are credits.
LEMMA CreditsOf ==
  ASSUME IInv, NEW r \in Rx
  PROVE  LET cr == RxCredits(cfg.rx_cr_max[r], tx_seq, rx_cell[r]) IN
           /\ cr \in Nat
           /\ cr > 0 => tx_seq + cr <= rx_cell[r] + cfg.rx_cr_max[r]
<1> DEFINE m == cfg.rx_cr_max[r]
           cr == RxCredits(m, tx_seq, rx_cell[r])
<1>1. cfg \in Configs /\ tx_seq \in Int /\ rx_cell[r] \in Int /\ rx_seq[r] \in Int
  BY FctlAssumption DEF IInv, TypeOK
<1>2. m \in 1 .. SeqHalf - 1 /\ SeqHalf \in Nat \ {0}
  BY <1>1, ConfigFacts
<1>3. tx_seq - rx_cell[r] < SeqHalf /\ rx_cell[r] - tx_seq <= SeqHalf
  <2>1. tx_seq <= Tx0 + MaxSend
    BY <1>1, ConfigFacts DEF IInv, TypeOK
  <2>2. /\ rx_cell[r] <= rx_seq[r]
        /\ Tx0 + MaxSend - rx_cell[r] < SeqHalf
        /\ rx_seq[r] - tx_seq <= SeqHalf
    BY DEF IInv, Positions
  <2> QED BY <1>1, <2>1, <2>2, ConfigFacts
<1> HIDE DEF m
<1>4. cr \in 0 .. m
  BY <1>1, <1>2, RxCreditsNoOverflow
<1>5. cr > 0 => tx_seq + cr <= rx_cell[r] + m
  BY <1>1, <1>2, <1>3, RxCreditsSafe
<1>6. cr \in Nat
  BY <1>2, <1>4
<1> QED BY <1>5, <1>6 DEF m

LEMMA InitIInv == Init => IInv
<1> SUFFICES ASSUME Init PROVE IInv
  OBVIOUS
<1>1. cfg \in Configs
  BY DEF Init
<1>2. TypeOK
  <2>1. rx_seq \in [Rx -> Int] /\ rx_cell \in [Rx -> Int]
    <3>1. {Tx0 - l : l \in Lags} \subseteq Int
      BY <1>1, FctlAssumption
    <3> QED BY <3>1 DEF Init
  <2>2. /\ tx_seq \in Tx0 .. Tx0 + MaxSend
        /\ cr_avail \in 0 .. cfg.cr_max /\ cr_query \in 0 .. cfg.cr_max
        /\ rx_idx \in 0 .. RxCnt /\ rx_slow \in 0 .. RxCnt
    BY <1>1, ConfigFacts DEF Init
  <2>3. slow \in [Rx -> Nat] /\ active \subseteq Rx
    BY DEF Init
  <2> QED BY <2>1, <2>2, <2>3, <1>1 DEF Init, TypeOK
<1>3. Positions
  <2> SUFFICES ASSUME NEW r \in Rx
               PROVE  /\ rx_cell[r] <= rx_seq[r]
                      /\ Tx0 + MaxSend - rx_cell[r] < SeqHalf
                      /\ rx_seq[r] - tx_seq <= SeqHalf
    BY DEF Positions
  <2>1. PICK l \in Lags : rx_seq[r] = Tx0 - l
    BY DEF Init
  <2>2. l \in Int /\ -SeqHalf <= l /\ l + MaxSend < SeqHalf
    BY FctlAssumption
  <2>3. rx_cell[r] = Tx0 - l /\ tx_seq = Tx0
    BY <2>1 DEF Init
  <2> QED BY <2>1, <2>2, <2>3, <1>1, ConfigFacts
<1>4. QueryCovers /\ CreditsAreReal /\ QueryIsLowerBound
  BY DEF Init, QueryCovers, CreditsAreReal, QueryIsLowerBound
<1> QED BY <1>2, <1>3, <1>4 DEF IInv

\* A burst.
LEMMA SendStep == IInv /\ Send => IInv'
<1> SUFFICES ASSUME IInv, Send PROVE IInv'
  OBVIOUS
<1>0. TypeOK /\ Positions /\ QueryCovers /\ CreditsAreReal
  BY DEF IInv
<1>1. cfg \in Configs
  BY <1>0 DEF TypeOK
<1>2. PICK n \in 1 .. cfg.cr_burst :
        /\ tx_seq + n <= Tx0 + MaxSend
        /\ tx_seq' = tx_seq + n
        /\ cr_avail' = cr_avail - n
  BY DEF Send
<1>3. /\ cr_avail >= cfg.cr_burst /\ cr_avail \in 0 .. cfg.cr_max
      /\ tx_seq \in Tx0 .. Tx0 + MaxSend
      /\ n \in Nat \ {0} /\ n <= cr_avail
  BY <1>0, <1>1, <1>2, ConfigFacts DEF Send, TypeOK
<1>4. /\ tpc = "run" /\ tpc' = "run" /\ cfg' = cfg
      /\ UNCHANGED <<in_refill, queryVars, covered, slow, rxVars>>
  BY DEF Send
<1>5. /\ tx_seq' \in Tx0 .. Tx0 + MaxSend
      /\ cr_avail' \in 0 .. cfg.cr_max
  BY <1>1, <1>2, <1>3, ConfigFacts
<1>6. TypeOK'
  BY <1>0, <1>4, <1>5 DEF TypeOK, queryVars, rxVars
<1>7. Positions'
  <2> SUFFICES ASSUME NEW r \in Rx
               PROVE  /\ rx_cell[r] <= rx_seq[r]
                      /\ Tx0 + MaxSend - rx_cell[r] < SeqHalf
                      /\ rx_seq[r] - tx_seq' <= SeqHalf
    BY <1>4 DEF Positions, rxVars
  <2>1. /\ rx_cell[r] <= rx_seq[r]
        /\ Tx0 + MaxSend - rx_cell[r] < SeqHalf
        /\ rx_seq[r] - tx_seq <= SeqHalf
    BY <1>0 DEF Positions
  <2>2. rx_seq[r] \in Int /\ tx_seq \in Int /\ SeqHalf \in Int
    BY <1>0, <1>1, <1>3, ConfigFacts DEF TypeOK
  <2> QED BY <2>1, <2>2, <1>2, <1>3
<1>8. QueryCovers'
  <2>1. cr_avail > 0
    BY <1>3
  <2>2. Rx \ Late \subseteq covered
    BY <1>0, <2>1 DEF QueryCovers
  <2> QED BY <2>2, <1>0, <1>4 DEF QueryCovers, queryVars, rxVars
<1>9. CreditsAreReal'
  <2> SUFFICES ASSUME NEW r \in covered
               PROVE  tx_seq' + cr_avail' <= rx_cell[r] + cfg.rx_cr_max[r]
    BY <1>4 DEF CreditsAreReal, rxVars
  <2>1. tx_seq + cr_avail <= rx_cell[r] + cfg.rx_cr_max[r]
    BY <1>0 DEF CreditsAreReal
  <2>2. tx_seq' + cr_avail' = tx_seq + cr_avail
    BY <1>1, <1>2, <1>3, ConfigFacts
  <2> QED BY <2>1, <2>2
<1>10. QueryIsLowerBound'
  BY <1>4 DEF QueryIsLowerBound
<1> QED BY <1>6, <1>7, <1>8, <1>9, <1>10 DEF IInv

\* A query starts, or looks at one more receiver.
LEMMA QueryStep ==
  IInv /\ (StartQuery \/ SkipInactive \/ QueryRx) => IInv'
<1> SUFFICES ASSUME IInv, StartQuery \/ SkipInactive \/ QueryRx PROVE IInv'
  OBVIOUS
<1>0. TypeOK /\ Positions /\ QueryCovers /\ CreditsAreReal /\ QueryIsLowerBound
  BY DEF IInv
<1>1. /\ cfg' = cfg /\ tx_seq' = tx_seq /\ cr_avail' = cr_avail
      /\ in_refill' = in_refill /\ covered' = covered /\ slow' = slow
      /\ active' = active /\ rx_cell' = rx_cell /\ rx_seq' = rx_seq
  BY DEF StartQuery, SkipInactive, QueryRx, rxVars
<1>2. Positions' /\ CreditsAreReal'
  BY <1>0, <1>1 DEF Positions, CreditsAreReal
<1>3. cfg \in Configs
  BY <1>0 DEF TypeOK
<1>4. CASE StartQuery
  <2>1. /\ tpc' = "query" /\ rx_idx' = 0 /\ cr_query' = cfg.cr_max
        /\ rx_slow' = RxCnt /\ seen' = {}
    BY <1>4 DEF StartQuery
  <2>2. cr_query' \in 0 .. cfg.cr_max /\ rx_idx' \in 0 .. RxCnt /\ rx_slow' \in 0 .. RxCnt
    BY <2>1, <1>3, ConfigFacts
  <2>3. TypeOK'
    BY <2>1, <2>2, <1>0, <1>1 DEF TypeOK
  <2>4. \A r \in Rx : ~(r < 0)
    BY <1>3, ConfigFacts DEF Rx
  <2>5. QueryCovers'
    BY <2>1, <2>4, <1>0, <1>1 DEF QueryCovers
  <2>6. QueryIsLowerBound'
    BY <2>1 DEF QueryIsLowerBound
  <2> QED BY <2>3, <2>5, <2>6, <1>2 DEF IInv
<1>5. ASSUME SkipInactive \/ QueryRx
      PROVE  /\ rx_idx \in Rx /\ rx_idx' = rx_idx + 1 /\ rx_idx' \in 0 .. RxCnt
             /\ tpc = "query" /\ tpc' = "query"
             /\ \A r \in Rx : r < rx_idx' => r < rx_idx \/ r = rx_idx
  <2>1. /\ rx_idx < RxCnt /\ rx_idx' = rx_idx + 1
        /\ tpc = "query" /\ tpc' = "query"
    BY <1>5 DEF SkipInactive, QueryRx
  <2>2. rx_idx \in 0 .. RxCnt
    BY <1>0 DEF TypeOK
  <2> QED BY <2>1, <2>2, <1>3, ConfigFacts DEF Rx
<1>6. CASE SkipInactive
  <2>1. /\ rx_idx \notin active /\ UNCHANGED <<cr_query, rx_slow, seen>>
    BY <1>6 DEF SkipInactive
  <2>2. TypeOK'
    BY <2>1, <1>0, <1>1, <1>5, <1>6 DEF TypeOK
  <2>3. QueryCovers'
    BY <2>1, <1>0, <1>1, <1>5, <1>6 DEF QueryCovers
  <2>4. QueryIsLowerBound'
    BY <2>1, <1>0, <1>1, <1>5, <1>6 DEF QueryIsLowerBound
  <2> QED BY <2>2, <2>3, <2>4, <1>2 DEF IInv
<1>7. CASE QueryRx
  <2> DEFINE cr == RxCredits(cfg.rx_cr_max[rx_idx], tx_seq, rx_cell[rx_idx])
  <2>1. /\ rx_idx \in active /\ seen' = seen \cup {rx_idx}
        /\ rx_slow' = IF cr < cr_query THEN rx_idx ELSE rx_slow
        /\ cr_query' = IF cr < cr_query THEN cr ELSE cr_query
    BY <1>7 DEF QueryRx
  <2>2. cr \in Nat
    BY <1>5, <1>7, CreditsOf
  <2>3. QueryIsLowerBound'
    <3> SUFFICES ASSUME NEW r \in seen'
                 PROVE  cr_query' <= RxCredits(cfg.rx_cr_max[r], tx_seq, rx_cell[r])
      BY <1>1 DEF QueryIsLowerBound
    <3>1. cr_query \in Nat /\ seen \subseteq Rx
      BY <1>0, <1>3, ConfigFacts DEF TypeOK
    <3>2. cr_query' <= cr_query /\ cr_query' <= cr /\ cr_query' \in Nat
      BY <2>1, <2>2, <3>1
    <3>3. CASE r = rx_idx
      BY <3>2, <3>3
    <3>4. CASE r \in seen
      <4> DEFINE crr == RxCredits(cfg.rx_cr_max[r], tx_seq, rx_cell[r])
      <4>1. cr_query <= crr
        BY <3>4, <1>0, <1>5, <1>7 DEF QueryIsLowerBound
      <4>2. crr \in Nat
        BY <3>1, <3>4, CreditsOf
      <4> HIDE DEF crr
      <4>3. cr_query' <= crr
        BY <3>1, <3>2, <4>1, <4>2
      <4> QED BY <4>3 DEF crr
    <3> QED BY <2>1, <3>3, <3>4
  <2> HIDE DEF cr
  <2>4. cr_query' \in 0 .. cfg.cr_max
    BY <2>1, <2>2, <1>0, <1>3, ConfigFacts DEF TypeOK
  <2>5. rx_slow' \in 0 .. RxCnt /\ seen' \subseteq Rx
    BY <2>1, <1>0, <1>3, <1>5, <1>7, ConfigFacts DEF TypeOK, Rx
  <2>6. TypeOK'
    BY <2>4, <2>5, <1>0, <1>1, <1>5, <1>7 DEF TypeOK
  <2>7. QueryCovers'
    <3>1. \A r \in Rx \ Late : r < rx_idx' => r \in seen'
      BY <2>1, <1>0, <1>5, <1>7 DEF QueryCovers
    <3>2. rx_slow' \in seen' \/ (rx_slow' = RxCnt /\ cr_query' = cfg.cr_max)
      BY <2>1, <1>0, <1>5, <1>7 DEF QueryCovers
    <3>3. seen' \subseteq active
      BY <2>1, <1>0 DEF QueryCovers
    <3> QED BY <3>1, <3>2, <3>3, <1>0, <1>1 DEF QueryCovers
  <2> QED BY <2>3, <2>6, <2>7, <1>2 DEF IInv
<1> QED BY <1>4, <1>6, <1>7

\* The query is over.
LEMMA DoneStep == IInv /\ (Resume \/ EnterRefill \/ StayInRefill) => IInv'
<1> SUFFICES ASSUME IInv, Resume \/ EnterRefill \/ StayInRefill PROVE IInv'
  OBVIOUS
<1>0. TypeOK /\ Positions /\ QueryCovers /\ CreditsAreReal /\ QueryIsLowerBound
  BY DEF IInv
<1>1. /\ cfg' = cfg /\ tx_seq' = tx_seq /\ tpc = "query" /\ tpc' = "run"
      /\ rx_idx = RxCnt
      /\ UNCHANGED <<rx_idx, cr_query, rx_slow, seen>>
      /\ active' = active /\ rx_cell' = rx_cell /\ rx_seq' = rx_seq
  BY DEF Resume, EnterRefill, StayInRefill, QueryDone, rxVars, queryVars
<1>2. Positions' /\ QueryIsLowerBound'
  BY <1>0, <1>1 DEF Positions, QueryIsLowerBound
<1>3. cfg \in Configs
  BY <1>0 DEF TypeOK
<1>4. CASE Resume
  <2>1. /\ cr_query >= cfg.cr_resume /\ cr_avail' = cr_query
        /\ in_refill' = FALSE /\ covered' = seen /\ slow' = slow
    BY <1>4 DEF Resume
  <2>2. cr_query > 0 /\ cr_query \in Nat
    BY <2>1, <1>0, <1>3, ConfigFacts DEF TypeOK
  <2>3. TypeOK'
    BY <2>1, <1>0, <1>1 DEF TypeOK
  <2>4. QueryCovers'
    <3>1. \A r \in Rx : r < rx_idx
      BY <1>1, <1>3, ConfigFacts DEF Rx
    <3>2. Rx \ Late \subseteq seen
      BY <3>1, <1>0, <1>1 DEF QueryCovers
    <3> QED BY <2>1, <3>2, <1>0, <1>1 DEF QueryCovers
  <2>5. CreditsAreReal'
    <3> SUFFICES ASSUME NEW r \in seen
                 PROVE  tx_seq + cr_query <= rx_cell[r] + cfg.rx_cr_max[r]
      BY <2>1, <1>1 DEF CreditsAreReal
    <3> DEFINE cr == RxCredits(cfg.rx_cr_max[r], tx_seq, rx_cell[r])
    <3>1. r \in Rx /\ cr_query <= cr
      BY <1>0, <1>1 DEF TypeOK, QueryIsLowerBound
    <3>2. cr \in Nat /\ (cr > 0 => tx_seq + cr <= rx_cell[r] + cfg.rx_cr_max[r])
      BY <3>1, CreditsOf
    <3>3. /\ tx_seq \in Int /\ rx_cell[r] \in Int /\ cfg.rx_cr_max[r] \in Int
      BY <3>1, <1>0, <1>3, ConfigFacts DEF TypeOK
    <3> HIDE DEF cr
    <3> QED BY <2>2, <3>1, <3>2, <3>3
  <2> QED BY <2>3, <2>4, <2>5, <1>2 DEF IInv
<1>5. CASE EnterRefill \/ StayInRefill
  <2>1. /\ cr_avail' = cr_avail /\ covered' = covered /\ in_refill' \in BOOLEAN
        /\ \/ slow' = slow
           \/ rx_slow \in Rx /\ slow' = [slow EXCEPT ![rx_slow] = @ + 1]
    BY <1>0, <1>5 DEF EnterRefill, StayInRefill, TypeOK
  <2>2. slow' \in [Rx -> Nat]
    BY <2>1, <1>0 DEF TypeOK
  <2>3. TypeOK'
    BY <2>1, <2>2, <1>0, <1>1 DEF TypeOK
  <2>4. QueryCovers' /\ CreditsAreReal'
    BY <2>1, <1>0, <1>1 DEF QueryCovers, CreditsAreReal
  <2> QED BY <2>3, <2>4, <1>2 DEF IInv
<1> QED BY <1>4, <1>5

\* The receivers: what counts is that no position moves back where it shows.
LEMMA RxStep ==
  ASSUME IInv, NEW r \in Rx, Receive(r) \/ CrReturn(r) \/ Activate(r) \/ Crash(r)
  PROVE  IInv'
<1>0. TypeOK /\ Positions /\ QueryCovers /\ CreditsAreReal /\ QueryIsLowerBound
  BY DEF IInv
<1>1. /\ cfg' = cfg /\ tx_seq' = tx_seq /\ cr_avail' = cr_avail
      /\ in_refill' = in_refill /\ tpc' = tpc /\ covered' = covered
      /\ slow' = slow /\ rx_idx' = rx_idx /\ cr_query' = cr_query
      /\ rx_slow' = rx_slow /\ seen' = seen
  BY DEF Receive, CrReturn, Activate, Crash, queryVars
<1>2. /\ active \subseteq active' /\ active' \subseteq Rx
  BY <1>0 DEF Receive, CrReturn, Activate, Crash, TypeOK
<1>3. cfg \in Configs
  BY <1>0 DEF TypeOK
<1>4. /\ Tx0 \in Nat /\ MaxSend \in Nat /\ SeqHalf \in Nat \ {0}
      /\ tx_seq \in Int /\ tx_seq <= Tx0 + MaxSend
      /\ cfg.rx_cr_max \in [Rx -> 1 .. SeqHalf - 1]
  BY <1>0, <1>3, ConfigFacts DEF TypeOK
<1>5. rx_cell \in [Rx -> Int] /\ rx_seq \in [Rx -> Int]
  BY <1>0 DEF TypeOK
<1>6. \A q \in Rx : /\ rx_cell[q] <= rx_seq[q]
                   /\ Tx0 + MaxSend - rx_cell[q] < SeqHalf
                   /\ rx_seq[q] - tx_seq <= SeqHalf
  BY <1>0 DEF Positions
<1>7. /\ rx_cell' \in [Rx -> Int] /\ rx_seq' \in [Rx -> Int]
      /\ \A q \in Rx : /\ rx_cell[q] <= rx_cell'[q]
                      /\ rx_cell'[q] <= rx_seq'[q]
                      /\ rx_seq'[q] - tx_seq <= SeqHalf
  <2>1. CASE Receive(r)
    <3>1. PICK n \in rx_seq[r] + 1 .. tx_seq : rx_seq' = [rx_seq EXCEPT ![r] = n]
      BY <2>1 DEF Receive
    <3>2. rx_cell' = rx_cell
      BY <2>1 DEF Receive
    <3>3. n \in Int /\ rx_cell[r] <= n /\ n - tx_seq <= SeqHalf
      BY <3>1, <1>4, <1>5, <1>6
    <3> QED BY <3>1, <3>2, <3>3, <1>5, <1>6
  <2>2. CASE CrReturn(r) \/ Activate(r)
    <3>1. rx_cell' = [rx_cell EXCEPT ![r] = rx_seq[r]] /\ rx_seq' = rx_seq
      BY <2>2 DEF CrReturn, Activate
    <3> QED BY <3>1, <1>5, <1>6
  <2>3. CASE Crash(r)
    <3>1. rx_seq' = [rx_seq EXCEPT ![r] = rx_cell[r]] /\ rx_cell' = rx_cell
      BY <2>3 DEF Crash
    <3>2. rx_cell[r] - tx_seq <= SeqHalf
      BY <1>4, <1>5, <1>6
    <3> QED BY <3>1, <3>2, <1>5, <1>6
  <2> QED BY <2>1, <2>2, <2>3
<1>8. TypeOK'
  BY <1>0, <1>1, <1>2, <1>7 DEF TypeOK
<1>9. Positions'
  <2> SUFFICES ASSUME NEW q \in Rx
               PROVE  /\ rx_cell'[q] <= rx_seq'[q]
                      /\ Tx0 + MaxSend - rx_cell'[q] < SeqHalf
                      /\ rx_seq'[q] - tx_seq <= SeqHalf
    BY <1>1 DEF Positions
  <2>1. rx_cell[q] <= rx_cell'[q] /\ rx_cell[q] \in Int /\ rx_cell'[q] \in Int
    BY <1>5, <1>7
  <2>2. Tx0 + MaxSend - rx_cell[q] < SeqHalf
    BY <1>6
  <2>3. Tx0 + MaxSend - rx_cell'[q] < SeqHalf
    BY <2>1, <2>2, <1>4
  <2> QED BY <2>3, <1>7
<1>10. QueryCovers'
  BY <1>0, <1>1, <1>2 DEF QueryCovers
<1>11. CreditsAreReal'
  <2> SUFFICES ASSUME NEW q \in covered
               PROVE  tx_seq + cr_avail <= rx_cell'[q] + cfg.rx_cr_max[q]
    BY <1>1 DEF CreditsAreReal
  <2>1. q \in Rx /\ tx_seq + cr_avail <= rx_cell[q] + cfg.rx_cr_max[q]
    BY <1>0 DEF CreditsAreReal, TypeOK
  <2>2. /\ rx_cell[q] <= rx_cell'[q] /\ rx_cell[q] \in Int
        /\ rx_cell'[q] \in Int /\ cfg.rx_cr_max[q] \in Int
    BY <2>1, <1>4, <1>5, <1>7
  <2>3. cr_avail \in Int
    BY <1>0, <1>3, ConfigFacts DEF TypeOK
  <2> QED BY <2>1, <2>2, <2>3, <1>4
<1>12. QueryIsLowerBound'
  <2> SUFFICES ASSUME tpc = "query", NEW q \in seen
               PROVE  cr_query <= RxCredits(cfg.rx_cr_max[q], tx_seq, rx_cell'[q])
    BY <1>1 DEF QueryIsLowerBound
  <2> DEFINE m == cfg.rx_cr_max[q]
             old == RxCredits(m, tx_seq, rx_cell[q])
             new == RxCredits(m, tx_seq, rx_cell'[q])
  <2>1. q \in Rx /\ cr_query <= old
    BY <1>0 DEF QueryIsLowerBound, TypeOK
  <2>2. m \in 1 .. SeqHalf - 1
    BY <2>1, <1>4
  <2>3. /\ rx_cell[q] \in Int /\ rx_cell'[q] \in Int
        /\ rx_cell[q] <= rx_cell'[q]
        /\ tx_seq - rx_cell[q] < SeqHalf /\ rx_cell'[q] - tx_seq <= SeqHalf
    <3>1. rx_cell[q] \in Int /\ rx_cell'[q] \in Int /\ rx_seq'[q] \in Int
      BY <2>1, <1>5, <1>7
    <3>2. /\ rx_cell[q] <= rx_cell'[q] /\ rx_cell'[q] <= rx_seq'[q]
          /\ rx_seq'[q] - tx_seq <= SeqHalf
          /\ Tx0 + MaxSend - rx_cell[q] < SeqHalf
      BY <2>1, <1>6, <1>7
    <3> QED BY <3>1, <3>2, <1>4
  <2> HIDE DEF m
  <2>4. old <= new
    BY <2>2, <2>3, <1>4, RxCreditsMonotone
  <2>5. old \in Int /\ new \in Int
    <3>1. old \in 0 .. m /\ new \in 0 .. m
      BY <2>2, <2>3, <1>4, RxCreditsNoOverflow
    <3> HIDE DEF old, new
    <3> QED BY <3>1, <2>2
  <2>6. cr_query \in Int
    BY <1>0, <1>3, ConfigFacts DEF TypeOK
  <2>7. cr_query <= new
    <3> HIDE DEF old, new
    <3> QED BY <2>1, <2>4, <2>5, <2>6
  <2> QED BY <2>7 DEF m
<1> QED BY <1>8, <1>9, <1>10, <1>11, <1>12 DEF IInv

LEMMA NextIInv == IInv /\ [Next]_vars => IInv'
<1> SUFFICES ASSUME IInv, [Next]_vars PROVE IInv'
  OBVIOUS
<1>1. CASE Send
  BY <1>1, SendStep
<1>2. CASE Housekeeping
  BY <1>2, QueryStep, DoneStep DEF Housekeeping
<1>3. ASSUME NEW r \in Rx, Receive(r) \/ CrReturn(r) \/ Activate(r) \/ Crash(r)
      PROVE  IInv'
  BY <1>3, RxStep
<1>4. CASE UNCHANGED vars
  BY <1>4 DEF vars, IInv, TypeOK, Positions, QueryCovers, CreditsAreReal,
              QueryIsLowerBound
<1> QED BY <1>1, <1>2, <1>3, <1>4 DEF Next

\* The inductive invariant holds in every reachable state.
LEMMA IInvHolds == Spec => []IInv
BY InitIInv, NextIInv, PTL DEF Spec

-----------------------------------------------------------------------------
(* What follows from it *)

\* Every variable of Fctl keeps its type; cr_avail never underflows and never
\* exceeds cr_max.
THEOREM TypeCorrect == Spec => []TypeOK
<1>1. IInv => TypeOK
  BY DEF IInv
<1> QED BY <1>1, IInvHolds, PTL

\* The credits at hand are good for every receiver they were computed from.
THEOREM CreditsAreRealHolds == Spec => []CreditsAreReal
<1>1. IInv => CreditsAreReal
  BY DEF IInv
<1> QED BY <1>1, IInvHolds, PTL

\* What a query has computed is at any time a lower bound of what the
\* receivers it has looked at allow.
THEOREM QueryIsLowerBoundHolds == Spec => []QueryIsLowerBound
<1>1. IInv => QueryIsLowerBound
  BY DEF IInv
<1> QED BY <1>1, IInvHolds, PTL

\* No reliable receiver is overrun, for any number of receivers, credits,
\* thresholds and starting positions, and whatever the receivers do while the
\* transmitter reads their positions.
THEOREM ReliableNotOverrunHolds == Spec => []ReliableNotOverrun
<1>1. IInv => ReliableNotOverrun
  <2> SUFFICES ASSUME IInv, NEW r \in Rx \ Late, tx_seq # Tx0
               PROVE  tx_seq <= rx_cell[r] + cfg.rx_cr_max[r]
    BY DEF ReliableNotOverrun
  <2>1. r \in covered
    BY DEF IInv, QueryCovers
  <2>2. tx_seq + cr_avail <= rx_cell[r] + cfg.rx_cr_max[r]
    BY <2>1 DEF IInv, CreditsAreReal
  <2>3. cfg \in Configs
    BY DEF IInv, TypeOK
  <2>4. /\ tx_seq \in Int /\ cr_avail \in Nat /\ rx_cell[r] \in Int
        /\ cfg.rx_cr_max[r] \in Int
    BY <2>3, ConfigFacts DEF IInv, TypeOK
  <2> QED BY <2>2, <2>4
<1> QED BY <1>1, IInvHolds, PTL

\* Every refill is charged to exactly one receiver the query has looked at.
THEOREM RefillAttributedHolds == Spec => RefillAttributed
<1>1. IInv /\ [Next]_vars =>
        [~in_refill /\ in_refill' =>
           \E r \in seen : slow' = [slow EXCEPT ![r] = @ + 1]]_vars
  <2> SUFFICES ASSUME IInv, Next, ~in_refill, in_refill'
               PROVE  \E r \in seen : slow' = [slow EXCEPT ![r] = @ + 1]
    BY DEF vars
  <2>1. EnterRefill
    BY DEF Next, Send, Housekeeping, StartQuery, SkipInactive, QueryRx, Resume,
           StayInRefill, Receive, CrReturn, Activate, Crash
  <2>2. cr_query < cfg.cr_resume /\ tpc = "query"
    BY <2>1 DEF EnterRefill, QueryDone
  <2>3. cfg \in Configs
    BY DEF IInv, TypeOK
  <2>4. cr_query # cfg.cr_max
    BY <2>2, <2>3, ConfigFacts DEF IInv, TypeOK
  <2>5. rx_slow \in seen /\ seen \subseteq Rx
    BY <2>2, <2>4 DEF IInv, TypeOK, QueryCovers
  <2> QED BY <2>1, <2>5 DEF EnterRefill
<1> QED BY <1>1, IInvHolds, PTL DEF Spec, RefillAttributed
=============================================================================
