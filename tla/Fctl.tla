-------------------------------- MODULE Fctl --------------------------------
(***************************************************************************)
(* fd_fctl: credit-based flow control between one transmitter and its      *)
(* reliable receivers (stubs/fd_fctl.h).                                   *)
(*                                                                         *)
(* A receiver returns credits by storing how far it has got in a word of   *)
(* shared memory.  The transmitter spends credits without looking at those *)
(* words; only when its credits drop below cr_refill does its housekeeping *)
(* read them, one receiver after the other, while the receivers go on.     *)
(*                                                                         *)
(* Each read of a receiver's word is a step here.  So is a whole burst of  *)
(* the transmitter and a whole batch of a receiver: between two looks at   *)
(* shared memory neither depends on anybody else.                          *)
(***************************************************************************)
EXTENDS SeqNum

CONSTANTS
  RxCnt,    \* rx_cnt, the number of receivers configured
  Configs,  \* the configurations fd_fctl_cfg_done may complete with
  Late,     \* receivers added with a NULL seq_laddr, to be set later
  Unstable, \* receivers that may crash and start over
  Tx0,      \* the transmitter's first sequence number
  Lags,     \* how far behind Tx0 a receiver may start (ahead, if negative)
  MaxSend   \* BOUND: the transmitter consumes at most MaxSend credits

Rx == 0 .. RxCnt - 1

\* Which configurations the comments of struct fd_fctl_private allow.
ValidConfig(c) ==
  /\ c.rx_cr_max \in [Rx -> 1 .. SeqHalf - 1]
  /\ c.cr_burst \in 1 .. SeqHalf - 1
  /\ \A r \in Rx : c.cr_burst <= c.rx_cr_max[r]
  /\ c.cr_max \in c.cr_burst .. SeqHalf - 1
  /\ c.cr_resume \in c.cr_burst .. c.cr_max
  /\ c.cr_refill \in 1 .. c.cr_resume

ASSUME FctlAssumption ==
  /\ SeqHalf \in Nat \ {0} /\ RxCnt \in Nat
  /\ \A c \in Configs : ValidConfig(c)
  /\ Late \subseteq Rx /\ Unstable \subseteq Rx
  /\ Tx0 \in Nat /\ MaxSend \in Nat
  /\ Lags \subseteq Int
  /\ \A l \in Lags : -SeqHalf <= l /\ l + MaxSend < SeqHalf

VARIABLES
  cfg,       \* rx[].cr_max, cr_burst, cr_max, cr_resume, cr_refill
  tx_seq,    \* transmitter: the next sequence number it sends
  cr_avail,  \* transmitter: credits it may still use
  in_refill, \* the fctl is in the refilling state
  tpc,       \* transmitter: "run" or "query" (in fd_fctl_cr_query)
  rx_idx,    \* query: the receiver looked at next
  cr_query,  \* query: the minimum so far
  rx_slow,   \* query: rx_idx_slow, RxCnt for none (ULONG_MAX)
  seen,      \* query: receivers looked at that were active
  covered,   \* history: the receivers cr_avail was computed from
  slow,      \* receivers' slow counters
  active,    \* receivers whose seq_laddr is not NULL
  rx_cell,   \* *seq_laddr: how far each receiver says it has got
  rx_seq     \* receivers: the next sequence number to receive

queryVars == <<rx_idx, cr_query, rx_slow, seen>>
rxVars == <<active, rx_cell, rx_seq>>
vars == <<cfg, tx_seq, cr_avail, in_refill, tpc, rx_idx, cr_query, rx_slow,
          seen, covered, slow, active, rx_cell, rx_seq>>

LongMax(a, b) == IF a < b THEN b ELSE a

\* Mutant: the difference to cr_max is taken in ulongs, without the clamp.
RxCreditsUnsigned(cr_max, tx, rx) ==
  (cr_max - LongMax(SeqDiff(tx, rx), 0)) % SeqMod

\* rx_cr_query: the credits a receiver at rx leaves a transmitter at tx.
RxCredits(cr_max, tx, rx) ==
  LongMax(cr_max - LongMax(SeqDiff(tx, rx), 0), 0)

-----------------------------------------------------------------------------
Init ==
  /\ cfg \in Configs
  /\ tx_seq = Tx0
  /\ cr_avail = 0
  /\ in_refill = FALSE
  /\ tpc = "run"
  /\ rx_idx = 0 /\ cr_query = 0 /\ rx_slow = RxCnt /\ seen = {}
  /\ covered = {}
  /\ slow = [r \in Rx |-> 0]
  /\ active = Rx \ Late
  /\ rx_seq \in [Rx -> {Tx0 - l : l \in Lags}]
  /\ rx_cell = rx_seq

-----------------------------------------------------------------------------
(* The transmitter: its run loop and fd_fctl_tx_cr_update *)

\* With credits for a worst case burst, the transmitter sends up to one.
Send ==
  /\ tpc = "run"
  /\ cr_avail >= cfg.cr_burst
  /\ \E n \in 1 .. cfg.cr_burst :
       /\ tx_seq + n <= Tx0 + MaxSend
       /\ tx_seq' = tx_seq + n
       /\ cr_avail' = cr_avail - n
  /\ UNCHANGED <<cfg, in_refill, tpc, queryVars, covered, slow, rxVars>>

\* Housekeeping with few credits left, or refilling: start a query.
\* (Otherwise fd_fctl_tx_cr_update changes nothing.)
StartQuery ==
  /\ tpc = "run"
  /\ cr_avail < cfg.cr_refill \/ in_refill
  /\ tpc' = "query"
  /\ rx_idx' = 0
  /\ cr_query' = cfg.cr_max
  /\ rx_slow' = RxCnt
  /\ seen' = {}
  /\ UNCHANGED <<cfg, tx_seq, cr_avail, in_refill, covered, slow, rxVars>>

\* if( !_rx_seq ) continue
SkipInactive ==
  /\ tpc = "query" /\ rx_idx < RxCnt
  /\ rx_idx \notin active
  /\ rx_idx' = rx_idx + 1
  /\ UNCHANGED <<cfg, tx_seq, cr_avail, in_refill, tpc, cr_query, rx_slow,
                 seen, covered, slow, rxVars>>

\* Mutant: the last receiver decides instead of the slowest one.
QueryRxLast ==
  /\ tpc = "query" /\ rx_idx < RxCnt
  /\ rx_idx \in active
  /\ cr_query' = RxCredits(cfg.rx_cr_max[rx_idx], tx_seq, rx_cell[rx_idx])
  /\ rx_slow' = rx_idx
  /\ seen' = seen \cup {rx_idx}
  /\ rx_idx' = rx_idx + 1
  /\ UNCHANGED <<cfg, tx_seq, cr_avail, in_refill, tpc, covered, slow, rxVars>>

\* One turn of the loop of fd_fctl_cr_query.
QueryRx ==
  /\ tpc = "query" /\ rx_idx < RxCnt
  /\ rx_idx \in active
  /\ LET cr == RxCredits(cfg.rx_cr_max[rx_idx], tx_seq, rx_cell[rx_idx]) IN
       /\ rx_slow' = IF cr < cr_query THEN rx_idx ELSE rx_slow
       /\ cr_query' = IF cr < cr_query THEN cr ELSE cr_query
  /\ seen' = seen \cup {rx_idx}
  /\ rx_idx' = rx_idx + 1
  /\ UNCHANGED <<cfg, tx_seq, cr_avail, in_refill, tpc, covered, slow, rxVars>>

QueryDone == tpc = "query" /\ rx_idx = RxCnt

\* Mutant: the credits found are added to those left.
ResumeAdding ==
  /\ QueryDone
  /\ cr_query >= cfg.cr_resume
  /\ in_refill' = FALSE
  /\ cr_avail' = cr_avail + cr_query
  /\ covered' = seen
  /\ tpc' = "run"
  /\ UNCHANGED <<cfg, tx_seq, queryVars, slow, rxVars>>

\* Mutant: resuming takes more than cr_resume credits.
ResumeAbove ==
  /\ QueryDone
  /\ cr_query > cfg.cr_resume
  /\ in_refill' = FALSE
  /\ cr_avail' = cr_query
  /\ covered' = seen
  /\ tpc' = "run"
  /\ UNCHANGED <<cfg, tx_seq, queryVars, slow, rxVars>>

\* Enough credits to resume.
Resume ==
  /\ QueryDone
  /\ cr_query >= cfg.cr_resume
  /\ in_refill' = FALSE
  /\ cr_avail' = cr_query
  /\ covered' = seen
  /\ tpc' = "run"
  /\ UNCHANGED <<cfg, tx_seq, queryVars, slow, rxVars>>

\* Mutant: the index of the slow receiver is tested as a truth value.
EnterRefillNonZero ==
  /\ QueryDone
  /\ cr_query < cfg.cr_resume /\ ~in_refill
  /\ slow' = IF rx_slow \in Rx \ {0} THEN [slow EXCEPT ![rx_slow] = @ + 1]
                                     ELSE slow
  /\ in_refill' = TRUE
  /\ tpc' = "run"
  /\ UNCHANGED <<cfg, tx_seq, cr_avail, queryVars, covered, rxVars>>

\* Too few credits: the fctl enters the refilling state, charges it to the
\* slowest receiver, and the transmitter keeps the credits it has.
EnterRefill ==
  /\ QueryDone
  /\ cr_query < cfg.cr_resume /\ ~in_refill
  /\ slow' = IF rx_slow \in Rx THEN [slow EXCEPT ![rx_slow] = @ + 1] ELSE slow
  /\ in_refill' = TRUE
  /\ tpc' = "run"
  /\ UNCHANGED <<cfg, tx_seq, cr_avail, queryVars, covered, rxVars>>

\* Too few credits again: nothing to update.
StayInRefill ==
  /\ QueryDone
  /\ cr_query < cfg.cr_resume /\ in_refill
  /\ tpc' = "run"
  /\ UNCHANGED <<cfg, tx_seq, cr_avail, in_refill, queryVars, covered, slow,
                 rxVars>>

Housekeeping ==
  \/ StartQuery \/ SkipInactive \/ QueryRx
  \/ Resume \/ EnterRefill \/ StayInRefill

-----------------------------------------------------------------------------
(* The receivers *)

\* A receiver processes some of what has been sent to it.
Receive(r) ==
  /\ \E n \in rx_seq[r] + 1 .. tx_seq : rx_seq' = [rx_seq EXCEPT ![r] = n]
  /\ UNCHANGED <<cfg, tx_seq, cr_avail, in_refill, tpc, queryVars, covered,
                 slow, active, rx_cell>>

\* fd_fctl_rx_cr_return, from the receiver's housekeeping.
CrReturn(r) ==
  /\ r \in active
  /\ rx_cell' = [rx_cell EXCEPT ![r] = rx_seq[r]]
  /\ UNCHANGED <<cfg, tx_seq, cr_avail, in_refill, tpc, queryVars, covered,
                 slow, active, rx_seq>>

\* The seq_laddr of a receiver is set after the configuration, at any time.
Activate(r) ==
  /\ r \in Late \ active
  /\ active' = active \cup {r}
  /\ rx_cell' = [rx_cell EXCEPT ![r] = rx_seq[r]]
  /\ UNCHANGED <<cfg, tx_seq, cr_avail, in_refill, tpc, queryVars, covered,
                 slow, rx_seq>>

\* A receiver crashes and starts over from the position it last returned.
Crash(r) ==
  /\ r \in Unstable \cap active
  /\ rx_seq' = [rx_seq EXCEPT ![r] = rx_cell[r]]
  /\ UNCHANGED <<cfg, tx_seq, cr_avail, in_refill, tpc, queryVars, covered,
                 slow, active, rx_cell>>

Next ==
  \/ Send \/ Housekeeping
  \/ \E r \in Rx : Receive(r) \/ CrReturn(r) \/ Activate(r) \/ Crash(r)

Spec == Init /\ [][Next]_vars

\* The transmitter does its housekeeping, the receivers keep receiving and
\* returning credits.  Nobody has to send, to activate or to crash.
Fairness ==
  /\ WF_vars(Housekeeping)
  /\ \A r \in Rx : WF_vars(Receive(r)) /\ WF_vars(CrReturn(r))
FairSpec == Spec /\ Fairness

-----------------------------------------------------------------------------
(* Properties *)

\* The type invariant; that cr_avail is a natural number is the comment's
\* "guaranteed not to underflow".
TypeOK ==
  /\ cfg \in Configs
  /\ tx_seq \in Tx0 .. Tx0 + MaxSend
  /\ cr_avail \in 0 .. cfg.cr_max
  /\ in_refill \in BOOLEAN
  /\ tpc \in {"run", "query"}
  /\ rx_idx \in 0 .. RxCnt
  /\ cr_query \in 0 .. cfg.cr_max
  /\ rx_slow \in 0 .. RxCnt
  /\ seen \subseteq Rx /\ covered \subseteq Rx
  /\ slow \in [Rx -> Nat]
  /\ active \subseteq Rx
  /\ rx_cell \in [Rx -> Int] /\ rx_seq \in [Rx -> Int]

\* No reliable receiver is overrun, although the transmitter spends credits
\* it computed from positions it read at different times: it is never more
\* than cr_max ahead of where a receiver configured from the start would
\* start over after a crash.  A receiver that started too far behind holds
\* the transmitter back altogether.
ReliableNotOverrun ==
  \A r \in Rx \ Late :
    tx_seq = Tx0 \/ tx_seq <= rx_cell[r] + cfg.rx_cr_max[r]

\* The credits at hand are good for every receiver they were computed from,
\* those that became active during the run included, down to the last one.
CreditsAreReal ==
  \A r \in covered : tx_seq + cr_avail <= rx_cell[r] + cfg.rx_cr_max[r]

\* fd_fctl_cr_query returns a lower bound: what it has computed so far never
\* exceeds what any receiver it has looked at allows now.
QueryIsLowerBound ==
  tpc = "query" =>
    \A r \in seen :
      cr_query <= RxCredits(cfg.rx_cr_max[r], tx_seq, rx_cell[r])

\* The inductive invariant behind the properties above.  First, positions:
\* a receiver never returns more than it has processed, and no difference the
\* code takes leaves the range in which it means what it says.
Positions ==
  \A r \in Rx :
    /\ rx_cell[r] <= rx_seq[r]
    /\ Tx0 + MaxSend - rx_cell[r] < SeqHalf
    /\ rx_seq[r] - tx_seq <= SeqHalf

\* A query has looked at every receiver up to rx_idx that was active from the
\* start; rx_slow is one that it looked at, or it is unconstrained; there are
\* no credits to use before a query has covered them all.
QueryCovers ==
  /\ Rx \ Late \subseteq active
  /\ seen \subseteq active /\ covered \subseteq active
  /\ tpc = "query" =>
       /\ \A r \in Rx \ Late : r < rx_idx => r \in seen
       /\ rx_slow \in seen \/ (rx_slow = RxCnt /\ cr_query = cfg.cr_max)
  /\ cr_avail > 0 \/ tx_seq # Tx0 => Rx \ Late \subseteq covered

IInv ==
  TypeOK /\ Positions /\ QueryCovers /\ CreditsAreReal /\ QueryIsLowerBound

\* Every time the fctl starts refilling, exactly one receiver's slow counter
\* is charged with it, and the query had looked at that receiver: a query
\* that no receiver constrained never starts a refill, whatever the
\* thresholds.
RefillAttributed ==
  [][~in_refill /\ in_refill' =>
       \E r \in seen : slow' = [slow EXCEPT ![r] = @ + 1]]_vars

\* A transmitter out of credits for a burst gets going again: the receivers
\* catch up, and it learns that they did.
Resumes == cr_avail < cfg.cr_burst ~> cr_avail >= cfg.cr_burst

\* So it does with thresholds that keep the credits flowing, those that
\* fd_fctl_cfg_done picks when it is told to choose - cr_refill covers a burst
\* and no receiver's cr_max is below cr_resume - unless a receiver keeps
\* crashing before it has returned what it received.
Flowing ==
  cfg.cr_refill >= cfg.cr_burst /\ \A r \in Rx : cfg.cr_resume <= cfg.rx_cr_max[r]

ResumesIfFlowing ==
  <>[][\A r \in Rx : ~Crash(r)]_vars =>
    (Flowing /\ cr_avail < cfg.cr_burst ~> cr_avail >= cfg.cr_burst)

=============================================================================
