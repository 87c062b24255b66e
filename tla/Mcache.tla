------------------------------- MODULE Mcache -------------------------------
(***************************************************************************)
(* fd_mcache: the lock-free ring of frag metadata that one producer writes *)
(* and any number of consumers poll (stubs/fd_mcache.h).                   *)
(*                                                                         *)
(* The producer never waits for a consumer and neither takes a lock: the   *)
(* only protocol is the order in which a cache line's seq word and body    *)
(* are written and read.  Every load and store of shared memory that the   *)
(* code issues separately is a step of its own here, so the model has all  *)
(* their interleavings.  Between two compiler fences the compiler may      *)
(* order plain accesses as it likes, so the body is written and copied in  *)
(* any order.  x86 keeps loads in order and stores in order, which is what *)
(* the code relies on; interleaving single accesses models just that.      *)
(*                                                                         *)
(* SEQUENCE NUMBERS are unbounded integers here; the code sees their       *)
(* residues (SeqNum).                                                      *)
(*                                                                         *)
(* METADATA.  The fields of a frag's metadata are abstracted to the number *)
(* of the frag they belong to.                                             *)
(***************************************************************************)
EXTENDS SeqNum, FiniteSets

CONSTANTS
  Depth,       \* entries in the mcache
  Block,       \* FD_MCACHE_BLOCK
  Interleave,  \* 2^FD_MCACHE_LG_INTERLEAVE (1 in this build)
  Seq0,        \* the sequence number the mcache is created with
  MaxPub,      \* BOUND: the producer publishes at most MaxPub frags
  Fields,      \* fields of the metadata other than seq
  SseFields,   \* those that share the first 16 bytes with seq (sig)
  PubKinds,    \* publish variants in use, of {"plain", "sse", "avx"}
  WaitKinds,   \* wait variants in use, of {"plain", "sse", "avx"}
  Recoveries,  \* overrun handling in use, of {"found", "seq0"}
  PollMax,     \* what the run loop reloads poll_max with
  Consumers

ASSUME McacheAssumption ==
  /\ Block \in Nat \ {0} /\ Interleave \in Nat \ {0}
  /\ Block % Interleave = 0
  /\ Depth \in Nat /\ Depth > 1 /\ Depth % Block = 0
  /\ SeqHalf \in Nat /\ (2 * SeqHalf) % Depth = 0
  /\ Seq0 \in Nat /\ MaxPub \in Nat
  /\ MaxPub + Depth + 1 < SeqHalf
  /\ SseFields \subseteq Fields
  /\ PubKinds \subseteq {"plain", "sse", "avx"}
  /\ WaitKinds \subseteq {"plain", "sse", "avx"}
  \* FD_MCACHE_WAIT_AVX is for producers that publish with AVX stores
  /\ "avx" \in WaitKinds => PubKinds = {"avx"}
  /\ Recoveries \subseteq {"found", "seq0"}
  /\ PollMax \in Nat \ {0}

VARIABLES
  line,    \* the cache lines: [seq, body] by line index
  seqCell, \* seq[0], the producer's published lower bound
  tx,      \* producer: the sequence number it publishes next
  pubKind, \* producer: the variant of the publish under way
  pubTodo, \* producer: body fields the publish has yet to store
  ppc,     \* producer: "idle", "body" (in a publish) or "down"
  rx,      \* consumers: the sequence number to receive next
  poll,    \* consumers: poll_max, polls left before housekeeping
  kind,    \* consumers: the variant of the wait under way
  found,   \* consumers: seq_found
  copy,    \* consumers: meta, the local copy of the body
  todo,    \* consumers: body fields not copied yet in this poll
  cpc,     \* consumers: "off", "poll", "copy", "spec" or "recover"
  got      \* consumers: the last metadata accepted after the re-check

producerVars == <<line, seqCell, tx, pubKind, pubTodo, ppc>>
consumerVars == <<rx, poll, kind, found, copy, todo, cpc, got>>
vars == <<line, seqCell, tx, pubKind, pubTodo, ppc,
          rx, poll, kind, found, copy, todo, cpc, got>>

-----------------------------------------------------------------------------
(* Lines and their indices *)

\* page | bank | idx: the low LG_BLOCK bits of the line number are the low
\* LG_BLOCK bits of seq rotated by LG_INTERLEAVE.  With Interleave = 1 this
\* is seq & (depth - 1).
LineIdx(seq) ==
  LET off  == seq % Block
      page == (seq % Depth) - off
      bank == (off * Interleave) % Block
      idx  == off \div (Block \div Interleave)
  IN page + bank + idx

Lines == 0 .. Depth - 1

\* The metadata of frag n.
Meta(n) == [f \in Fields |-> n]

\* fd_mcache_query: the sequence number in the line where seq belongs.
Query(seq) == line[LineIdx(seq)].seq

-----------------------------------------------------------------------------
\* fd_mcache_new: the line of each seq in [seq0 - depth, seq0) says it holds
\* its predecessor, so that every query fails; consumers have not joined.
Init ==
  /\ line = [i \in Lines |->
       [seq  |-> (CHOOSE n \in Seq0 - Depth .. Seq0 - 1 : LineIdx(n) = i) - 1,
        body |-> Meta(Seq0 - 1 - Depth)]]
  /\ seqCell = Seq0
  /\ tx = Seq0
  /\ pubKind = "plain" /\ pubTodo = {} /\ ppc = "idle"
  /\ rx = [c \in Consumers |-> Seq0]
  /\ poll = [c \in Consumers |-> PollMax]
  /\ kind = [c \in Consumers |-> "plain"]
  /\ found = [c \in Consumers |-> Seq0 - 1]
  /\ copy = [c \in Consumers |-> Meta(Seq0 - 1)]
  /\ todo = [c \in Consumers |-> {}]
  /\ cpc = [c \in Consumers |-> "off"]
  /\ got = [c \in Consumers |-> Meta(Seq0 - 1)]

-----------------------------------------------------------------------------
(* The producer *)

\* The sets of fields a single access of the given kind can move.
Accesses(k, fs) == IF k = "plain" THEN {{f} : f \in fs} ELSE {fs}

\* The body once the fields fs of frag n are stored in it.
Stored(body, fs, n) == [f \in Fields |-> IF f \in fs THEN n ELSE body[f]]

\* Mutant: the body is rewritten under the seq of the frag it replaces.
MarkKeepsSeq(k, first) ==
  /\ ppc = "idle" /\ tx < Seq0 + MaxPub
  /\ k \in PubKinds
  /\ line' = [line EXCEPT ![LineIdx(tx)].body = Stored(@, first, tx)]
  /\ pubKind' = k
  /\ pubTodo' = Fields \ first
  /\ ppc' = "body"
  /\ UNCHANGED <<seqCell, tx, consumerVars>>

\* Mutant: the line is marked with the new seq itself.
MarkWithSeq(k, first) ==
  /\ ppc = "idle" /\ tx < Seq0 + MaxPub
  /\ k \in PubKinds
  /\ line' = [line EXCEPT ![LineIdx(tx)] =
       [seq |-> tx, body |-> Stored(@.body, first, tx)]]
  /\ pubKind' = k
  /\ pubTodo' = Fields \ first
  /\ ppc' = "body"
  /\ UNCHANGED <<seqCell, tx, consumerVars>>

\* A publish starts by moving the line's seq back to seq - 1 (it is being
\* rewritten); the fields of first are stored in the same access.
Mark(k, first) ==
  /\ ppc = "idle" /\ tx < Seq0 + MaxPub
  /\ k \in PubKinds
  /\ line' = [line EXCEPT ![LineIdx(tx)] =
       [seq |-> tx - 1, body |-> Stored(@.body, first, tx)]]
  /\ pubKind' = k
  /\ pubTodo' = Fields \ first
  /\ ppc' = "body"
  /\ UNCHANGED <<seqCell, tx, consumerVars>>

\* fd_mcache_publish: meta->seq = fd_seq_dec( seq, 1 )
PublishMark == Mark("plain", {})

\* fd_mcache_publish_sse: one 16-byte store of seq - 1 and sig
PublishSse == Mark("sse", SseFields)

\* The stores between the two writes of seq: one field at a time, in any
\* order, or the second SSE word at once.
PublishBody ==
  /\ ppc = "body" /\ pubTodo # {}
  /\ \E fs \in Accesses(pubKind, pubTodo) :
       /\ line' = [line EXCEPT ![LineIdx(tx)].body = Stored(@, fs, tx)]
       /\ pubTodo' = pubTodo \ fs
  /\ UNCHANGED <<seqCell, tx, pubKind, ppc, consumerVars>>

\* meta->seq = seq: the frag is available; the caller advances its seq.
PublishSeq ==
  /\ ppc = "body" /\ pubTodo = {}
  /\ line' = [line EXCEPT ![LineIdx(tx)].seq = tx]
  /\ tx' = tx + 1
  /\ ppc' = "idle"
  /\ UNCHANGED <<seqCell, pubKind, pubTodo, consumerVars>>

\* Mutant: the line is found without the rotation of the index.
PublishAvxNotRotated ==
  /\ ppc = "idle" /\ tx < Seq0 + MaxPub
  /\ "avx" \in PubKinds
  /\ line' = [line EXCEPT ![tx % Depth] = [seq |-> tx, body |-> Meta(tx)]]
  /\ tx' = tx + 1
  /\ UNCHANGED <<seqCell, pubKind, pubTodo, ppc, consumerVars>>

\* fd_mcache_publish_avx: the whole line in one store.
PublishAvx ==
  /\ ppc = "idle" /\ tx < Seq0 + MaxPub
  /\ "avx" \in PubKinds
  /\ line' = [line EXCEPT ![LineIdx(tx)] = [seq |-> tx, body |-> Meta(tx)]]
  /\ tx' = tx + 1
  /\ UNCHANGED <<seqCell, pubKind, pubTodo, ppc, consumerVars>>

\* Mutant: seq[0] counts the frag that is produced next.
SeqUpdateAhead ==
  /\ ppc = "idle"
  /\ seqCell' = tx + 1
  /\ UNCHANGED <<line, tx, pubKind, pubTodo, ppc, consumerVars>>

\* Mutant: seq[0] is the last frag published.
SeqUpdateBehind ==
  /\ ppc = "idle"
  /\ seqCell' = tx - 1
  /\ UNCHANGED <<line, tx, pubKind, pubTodo, ppc, consumerVars>>

\* Mutant: seq[0] is never written.
SeqUpdateLost == ppc = "idle" /\ UNCHANGED vars

\* fd_mcache_seq_update, from the producer's background housekeeping.
SeqUpdate ==
  /\ ppc = "idle"
  /\ seqCell' = tx
  /\ UNCHANGED <<line, tx, pubKind, pubTodo, ppc, consumerVars>>

\* The producer is shut down cleanly: it updates seq[0] a last time ...
Shutdown ==
  /\ ppc = "idle"
  /\ seqCell' = tx
  /\ ppc' = "down"
  /\ UNCHANGED <<line, tx, pubKind, pubTodo, consumerVars>>

\* ... and another one takes over where seq[0] says the last one stopped.
Restart ==
  /\ ppc = "down"
  /\ tx' = seqCell
  /\ ppc' = "idle"
  /\ UNCHANGED <<line, seqCell, pubKind, pubTodo, consumerVars>>

Producer ==
  \/ PublishMark \/ PublishSse \/ PublishBody
  \/ PublishSeq \/ PublishAvx
  \/ SeqUpdate \/ Shutdown \/ Restart

-----------------------------------------------------------------------------
(* The consumers *)

\* A consumer starts at fd_mcache_seq_query( seq ).
Join(c) ==
  /\ cpc[c] = "off"
  /\ rx' = [rx EXCEPT ![c] = seqCell]
  /\ cpc' = [cpc EXCEPT ![c] = "poll"]
  /\ UNCHANGED <<poll, kind, found, copy, todo, got, producerVars>>

\* A poll of FD_MCACHE_WAIT starts: seq_found = mline->seq; the fields of
\* first are loaded in the same access.
Load(c, k, first) ==
  /\ cpc[c] = "poll"
  /\ k \in WaitKinds
  /\ kind' = [kind EXCEPT ![c] = k]
  /\ found' = [found EXCEPT ![c] = Query(rx[c])]
  /\ copy' = [copy EXCEPT ![c] =
       [f \in Fields |-> IF f \in first
                           THEN line[LineIdx(rx[c])].body[f] ELSE @[f]]]
  /\ todo' = [todo EXCEPT ![c] = Fields \ first]
  /\ cpc' = [cpc EXCEPT ![c] = "copy"]
  /\ UNCHANGED <<rx, poll, got, producerVars>>

WaitSeq(c) == Load(c, "plain", {})        \* FD_MCACHE_WAIT and _WAIT_REG
WaitSse(c) == Load(c, "sse", SseFields)   \* FD_MCACHE_WAIT_SSE
\* Mutant: the AVX wait loads the line in two halves.
WaitAvxInHalves(c) == Load(c, "avx", SseFields)
WaitAvx(c) == Load(c, "avx", Fields)      \* FD_MCACHE_WAIT_AVX

\* *meta = *mline (or the register copies), not atomic.
WaitCopy(c) ==
  /\ cpc[c] = "copy"
  /\ todo[c] # {}
  /\ \E fs \in Accesses(kind[c], todo[c]) :
       /\ copy' = [copy EXCEPT ![c] =
            [f \in Fields |-> IF f \in fs
                                THEN line[LineIdx(rx[c])].body[f] ELSE @[f]]]
       /\ todo' = [todo EXCEPT ![c] = @ \ fs]
  /\ UNCHANGED <<rx, poll, kind, found, cpc, got, producerVars>>

\* Mutant: seq is not loaded again after the copy.
WaitDoneNoTest(c) == SeqDiff(found[c], rx[c]) >= 0

\* The load of seq_test: what was found is still there (the AVX variant
\* has nothing to re-load) and the line is not behind what is expected.
WaitDone(c) ==
  /\ kind[c] = "avx" \/ SeqEq(found[c], Query(rx[c]))
  /\ SeqDiff(found[c], rx[c]) >= 0

Polled(c) == cpc[c] = "copy" /\ todo[c] = {}

\* Mutant: the run loop does not reload poll_max.
WaitTimeoutNoReload(c) ==
  /\ Polled(c)
  /\ poll[c] = 1
  /\ cpc' = [cpc EXCEPT ![c] = "poll"]
  /\ UNCHANGED <<rx, poll, kind, found, copy, todo, got, producerVars>>

\* --poll_max reached 0.  It is decremented by every poll, a successful one
\* included, and the run loop takes 0 for a time out whatever was found: it
\* does its housekeeping, reloads poll_max and waits again.
WaitTimeout(c) ==
  /\ Polled(c)
  /\ poll[c] = 1
  /\ poll' = [poll EXCEPT ![c] = PollMax]
  /\ cpc' = [cpc EXCEPT ![c] = "poll"]
  /\ UNCHANGED <<rx, kind, found, copy, todo, got, producerVars>>

\* Mutant: the poll that makes poll_max 0 does not end the wait.
WaitRetryPastZero(c) ==
  /\ Polled(c)
  /\ ~WaitDone(c)
  /\ poll' = [poll EXCEPT ![c] = @ - 1]
  /\ cpc' = [cpc EXCEPT ![c] = "poll"]
  /\ UNCHANGED <<rx, kind, found, copy, todo, got, producerVars>>

WaitRetry(c) ==
  /\ Polled(c)
  /\ poll[c] > 1
  /\ ~WaitDone(c)
  /\ poll' = [poll EXCEPT ![c] = @ - 1]
  /\ cpc' = [cpc EXCEPT ![c] = "poll"]
  /\ UNCHANGED <<rx, kind, found, copy, todo, got, producerVars>>

\* How a run loop goes on when the producer has overrun it and seq is what
\* it found: from seq, or from a fresh look at seq[0].
Overrun(c, seq) ==
  \/ /\ "found" \in Recoveries
     /\ rx' = [rx EXCEPT ![c] = seq]
     /\ cpc' = [cpc EXCEPT ![c] = "poll"]
  \/ /\ "seq0" \in Recoveries
     /\ rx' = rx
     /\ cpc' = [cpc EXCEPT ![c] = "recover"]

\* seq_diff > 0: the frag is no longer in the mcache.
WaitOverrun(c) ==
  /\ Polled(c)
  /\ poll[c] > 1
  /\ WaitDone(c)
  /\ SeqDiff(found[c], rx[c]) # 0
  /\ poll' = [poll EXCEPT ![c] = @ - 1]
  /\ Overrun(c, found[c])
  /\ UNCHANGED <<kind, found, copy, todo, got, producerVars>>

\* seq_diff = 0: copy is the metadata of frag rx; the consumer processes it
\* speculatively.
WaitMeta(c) ==
  /\ Polled(c)
  /\ poll[c] > 1
  /\ WaitDone(c)
  /\ SeqDiff(found[c], rx[c]) = 0
  /\ poll' = [poll EXCEPT ![c] = @ - 1]
  /\ cpc' = [cpc EXCEPT ![c] = "spec"]
  /\ UNCHANGED <<rx, kind, found, copy, todo, got, producerVars>>

\* After the processing the run loop looks at mline->seq again: the frag was
\* overwritten meanwhile, and what was done with it is thrown away ...
RecheckOverrun(c) ==
  /\ cpc[c] = "spec"
  /\ ~SeqEq(Query(rx[c]), rx[c])
  /\ Overrun(c, Query(rx[c]))
  /\ UNCHANGED <<poll, kind, found, copy, todo, got, producerVars>>

\* ... or it is still there, and the consumer advances.
Accept(c) ==
  /\ cpc[c] = "spec"
  /\ SeqEq(Query(rx[c]), rx[c])
  /\ got' = [got EXCEPT ![c] = copy[c]]
  /\ rx' = [rx EXCEPT ![c] = @ + 1]
  /\ cpc' = [cpc EXCEPT ![c] = "poll"]
  /\ UNCHANGED <<poll, kind, found, copy, todo, producerVars>>

\* Overrun recovery by fd_mcache_seq_query.
Recover(c) ==
  /\ cpc[c] = "recover"
  /\ rx' = [rx EXCEPT ![c] = seqCell]
  /\ cpc' = [cpc EXCEPT ![c] = "poll"]
  /\ UNCHANGED <<poll, kind, found, copy, todo, got, producerVars>>

\* A consumer that has joined goes round its run loop.
RunLoop(c) ==
  /\ cpc[c] # "off"
  /\ \/ WaitSeq(c) \/ WaitSse(c) \/ WaitAvx(c) \/ WaitCopy(c)
     \/ WaitTimeout(c) \/ WaitRetry(c) \/ WaitOverrun(c) \/ WaitMeta(c)
     \/ RecheckOverrun(c) \/ Accept(c) \/ Recover(c)

Next == Producer \/ \E c \in Consumers : Join(c) \/ RunLoop(c)

Spec == Init /\ [][Next]_vars

\* A consumer's run loop never stops; the producer may, at any step.
ConsumerFairness == \A c \in Consumers : WF_vars(RunLoop(c))
FairSpec == Spec /\ ConsumerFairness

\* With recovery from seq[0] the producer must also do its housekeeping: the
\* publish under way goes on, and a producer that is up updates seq[0].
ProducerFairness ==
  /\ WF_vars(PublishBody) /\ WF_vars(PublishSeq) /\ WF_vars(Restart)
  /\ WF_vars(SeqUpdate)

-----------------------------------------------------------------------------
(* Properties *)

\* The type invariant.
TypeOK ==
  /\ line \in [Lines -> [seq : Int, body : [Fields -> Int]]]
  /\ seqCell \in Nat /\ tx \in Nat
  /\ pubKind \in {"plain", "sse", "avx"}
  /\ pubTodo \in SUBSET Fields
  /\ ppc \in {"idle", "body", "down"}
  /\ rx \in [Consumers -> Int]
  /\ poll \in [Consumers -> 1 .. PollMax]
  /\ kind \in [Consumers -> {"plain", "sse", "avx"}]
  /\ found \in [Consumers -> Int]
  /\ copy \in [Consumers -> [Fields -> Int]]
  /\ todo \in [Consumers -> SUBSET Fields]
  /\ cpc \in [Consumers -> {"off", "poll", "copy", "spec", "recover"}]
  /\ got \in [Consumers -> [Fields -> Int]]

\* No torn or stale metadata gets through: whenever a wait hands metadata to
\* the consumer, it is that of the frag it asked for, in every field, and the
\* frag has been published - however the producer rewrote the line while the
\* consumer was copying it (FD_MCACHE_WAIT against fd_mcache_publish).
ReceivedIntact ==
  \A c \in Consumers : cpc[c] = "spec" =>
    /\ rx[c] < tx
    /\ copy[c] = Meta(rx[c])

\* The frags an mcache holds: the last Depth published ones, less the one
\* whose line is being rewritten.
Held == {n \in Seq0 .. tx - 1 :
           IF ppc = "body" THEN tx - n < Depth ELSE tx - n <= Depth}

\* fd_mcache_query is right at any instant, also in the middle of a publish
\* and across the wrap of the sequence numbers: the frag itself while it is
\* held, something before it while it is not yet published, something after
\* it once it is gone.
QueryTellsWhere ==
  \A s \in Seq0 .. Seq0 + MaxPub - 1 :
    LET diff == SeqDiff(Query(s), s) IN
    /\ diff = 0 <=> s \in Held
    /\ diff < 0 <=> s >= tx

\* When a wait does not time out, seq_found is a lower bound of where the
\* producer is, also if it is the mark of a publish under way, and seq_diff
\* a lower bound of how far behind the consumer is.
FoundIsLowerBound ==
  \A c \in Consumers : Polled(c) /\ WaitDone(c) =>
    /\ found[c] < tx
    /\ SeqDiff(found[c], rx[c]) <= tx - rx[c]

\* A consumer never gets ahead of the producer, so it does not wait for a
\* frag further on than the one produced next: not by a recovery, and not
\* across a restart of the producer.
NeverAhead == \A c \in Consumers : rx[c] <= tx

\* Neither the lower bound seq[0] nor the producer's own sequence number ever
\* moves back, across clean restarts included: frags in [seq0, seq[0]) stay
\* published and no sequence number is used twice.
SeqNeverMovesBack == [][seqCell' >= seqCell /\ tx' >= tx /\ seqCell' <= tx']_vars

\* Overrun metadata of FD_MCACHE_WAIT_AVX is that of seq_found: with atomic
\* 32-byte accesses even a consumer that has been overrun holds the metadata
\* of one frag (once the line has been written for the first time).
AvxMetaIsFound ==
  \A c \in Consumers : Polled(c) /\ kind[c] = "avx" /\ WaitDone(c) =>
    copy[c] = Meta(found[c])

\* The inductive invariant behind ReceivedIntact, NeverAhead and
\* FoundIsLowerBound.  First, where everybody is.
Bounds ==
  /\ seqCell \in Seq0 .. tx /\ tx <= Seq0 + MaxPub
  /\ ppc = "down" => seqCell = tx
  /\ ppc = "body" => tx < Seq0 + MaxPub
  /\ \A i \in Lines : line[i].seq \in Seq0 - Depth - 1 .. tx - 1
  /\ \A c \in Consumers :
       /\ rx[c] \in Seq0 .. tx
       /\ found[c] \in Seq0 - Depth - 1 .. tx - 1

\* The line under way holds the new frag in the fields stored so far, and a
\* line that says it holds a frag of its own does, in every field.
LinesIntact ==
  /\ ppc = "body" =>
       /\ line[LineIdx(tx)].seq = tx - 1
       /\ \A f \in Fields \ pubTodo : line[LineIdx(tx)].body[f] = tx
  /\ \A i \in Lines :
       LineIdx(line[i].seq) = i => line[i].body = Meta(line[i].seq)

\* What a consumer has copied so far is the frag it found, unless the line
\* has changed since (the load of seq_test will tell); what it processes is
\* the frag it expected, and the line has only moved on from there.
CopiesIntact ==
  \A c \in Consumers :
    /\ cpc[c] = "copy" /\ found[c] = rx[c] =>
         IF kind[c] = "avx"
           THEN copy[c] = Meta(rx[c])
           ELSE Query(rx[c]) = rx[c] =>
                  \A f \in Fields \ todo[c] : copy[c][f] = rx[c]
    /\ cpc[c] = "copy" /\ found[c] = rx[c] => Query(rx[c]) >= rx[c]
    /\ cpc[c] = "copy" /\ kind[c] = "avx" => todo[c] = {}
    /\ cpc[c] = "spec" =>
         rx[c] < tx /\ copy[c] = Meta(rx[c]) /\ Query(rx[c]) >= rx[c]

IInv == TypeOK /\ Bounds /\ LinesIntact /\ CopiesIntact

\* A consumer that keeps polling catches up with the producer, wherever the
\* producer stops - in the middle of a publish included.  One that starts over
\* from seq[0] again and again needs a producer that does its housekeeping.
CatchUp ==
  \A c \in Consumers :
    /\ <>[](cpc[c] # "off")
    /\ <>[](cpc[c] # "recover") \/ ProducerFairness
    => <>[](rx[c] = tx)

\* The cache lines, the polls and the overruns implement the stream of frags
\* that the comments promise.
Abstract == INSTANCE FragStream WITH
  First <- Seq0, pub <- tx, pos <- rx, delivered <- got,
  joined <- {c \in Consumers : cpc[c] # "off"}

ImplementsFragStream == Abstract!Spec
=============================================================================
