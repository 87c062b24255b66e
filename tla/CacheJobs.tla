------------------------------- MODULE CacheJobs -------------------------------
(***************************************************************************)
(* The life of mcaches, dcaches and tcaches in the verification build, as  *)
(* the tango harnesses lead it.  A harness is a program: the operations it *)
(* calls, in order.  In this build the regions of a cache are blocks of    *)
(* their own, and the way back from the join of an mcache or a dcache to   *)
(* its header is a global variable that the last join has set: with two of *)
(* a kind joined at once, one of them finds the other's header.            *)
(*                                                                         *)
(* fd_*cache_new, _join, _leave, _delete and the accessors are not in the  *)
(* repository; they are modelled from their comments and from the private  *)
(* functions that they go through.  Sizes are those of the two regions:    *)
(* depth and app_sz, data_sz and app_sz, depth and map_cnt.                *)
(***************************************************************************)
EXTENDS Integers, Sequences

CONSTANTS Caches,     \* the caches a program makes, as one harness each does
          Sizes1, Sizes2,
          MaxSize,    \* what the footprint functions assume of each size
          NoCache,
          BitAnd(_, _)   \* & of C

CacheJobsAssumption ==
  /\ Sizes1 \subseteq Nat /\ Sizes2 \subseteq Nat
  /\ MaxSize \in Nat /\ NoCache \notin Caches
  /\ \A a, b \in 0 .. 2 * MaxSize + 1 : BitAnd(a, b) \in 0 .. b

McacheInitDelete ==
  [kind |-> "mcache", ops |-> <<"new", "join", "seq0", "size1", "seq_laddr", "size2",
                                "app_laddr", "delete">>]
McachePublish ==
  [kind |-> "mcache", ops |-> <<"new", "join", "publish", "seq0", "size1", "size2", "delete">>]
McacheQuery ==
  [kind |-> "mcache", ops |-> <<"new", "join", "query", "seq_laddr", "seq_update",
                                "seq0", "size1", "size2", "delete">>]
DcacheInitDelete ==
  [kind |-> "dcache", ops |-> <<"new", "join", "size1", "size2", "app_laddr", "delete">>]
DcacheCompact ==
  [kind |-> "dcache", ops |-> <<"new", "join", "compact", "delete">>]
TcacheInitDelete ==
  [kind |-> "tcache", ops |-> <<"new", "join", "size1", "size2", "delete">>]
TcacheInsert ==
  [kind |-> "tcache", ops |-> <<"new", "join", "insert", "delete">>]
TcacheQuery ==
  [kind |-> "tcache", ops |-> <<"new", "join", "map_query", "delete">>]

Programs ==
  {McacheInitDelete, McachePublish, McacheQuery, DcacheInitDelete, DcacheCompact,
   TcacheInitDelete, TcacheInsert, TcacheQuery}

VARIABLES
  hdr,      \* what new has put into each header
  block,    \* how big the blocks are that the program has allocated
  job,      \* the harness of each cache
  pc,       \* where it is; 0 when it has ended, -1 when it is cut off
  glb,      \* the header of the last join (glb_mcahe_ptr, glb_dcahe_ptr)
  failed,   \* assertions that did not hold, by cache and operation
  overlaps  \* <<d, c>>: c was joined while d was, and both are of one kind

vars == <<hdr, block, job, pc, glb, failed, overlaps>>

Blank == [magic |-> FALSE, size1 |-> 0, size2 |-> 0, seq0 |-> 0]

Init ==
  /\ hdr = [c \in Caches |-> Blank]
  /\ block = [c \in Caches |-> <<0, 0>>]
  /\ job \in [Caches -> Programs]
  /\ pc = [c \in Caches |-> 1]
  /\ glb = [k \in {"mcache", "dcache"} |-> NoCache]
  /\ failed = {} /\ overlaps = {}

\* What comes after an assume( 0 ) is not looked at, whosever it is.
At(c, op) ==
  /\ pc[c] > 0 /\ job[c].ops[pc[c]] = op
  /\ \A d \in Caches : pc[d] # -1

Step(c) == pc' = [pc EXCEPT ![c] = IF @ = Len(job[c].ops) THEN 0 ELSE @ + 1]
Exit(c) == pc' = [pc EXCEPT ![c] = 0]
Cut(c) == pc' = [pc EXCEPT ![c] = -1]
Check(c, op, holds) == failed' = IF holds THEN failed ELSE failed \cup {<<c, op>>}

\* fd_*cache_private_hdr: the header that is found from a join.
HdrOf(c) == IF job[c].kind = "tcache" THEN c ELSE glb[job[c].kind]
Found(c) == hdr[HdrOf(c)]

-----------------------------------------------------------------------------
\* The overrides of the footprint functions: what they assume of the sizes.
\* What they return is never 0, and below what the harness gives up at.
McacheFootprint(s1, s2) == s1 <= MaxSize /\ s2 <= MaxSize
DcacheFootprint(s1, s2) == s1 <= MaxSize /\ s2 <= MaxSize
TcacheFootprint(s1, s2) == s1 <= MaxSize /\ s2 <= MaxSize
Footprint(kind, s1, s2) ==
  CASE kind = "mcache" -> McacheFootprint(s1, s2)
    [] kind = "dcache" -> DcacheFootprint(s1, s2)
    [] kind = "tcache" -> TcacheFootprint(s1, s2)

\* 2^(find_msb(depth+1)+FD_TCACHE_SPARSE_DEFAULT)
MapCntDefault(depth) ==
  IF depth = 0 THEN 0
  ELSE 2 ^ (2 + CHOOSE b \in 0 .. depth : 2 ^ b <= depth + 1 /\ depth + 1 < 2 ^ (b + 1))

\* The program picks sizes, allocates the regions and makes a cache, which may
\* fail.  A tcache of map_cnt 0 gets the default map_cnt, but no block for it.
New(c) ==
  /\ At(c, "new")
  /\ \E s1 \in Sizes1, s2 \in Sizes2, s0 \in Sizes1 \cup {0} :
       /\ Footprint(job[c].kind, s1, s2)
       /\ IF job[c].kind = "mcache" THEN s0 < s1 ELSE s0 = 0
       /\ block' = [block EXCEPT ![c] = <<s1, s2>>]
       /\ \/ /\ hdr' = [hdr EXCEPT ![c] =
                  [magic |-> TRUE, size1 |-> s1, seq0 |-> s0,
                   size2 |-> IF job[c].kind = "tcache" /\ s2 = 0
                               THEN MapCntDefault(s1) ELSE s2]]
             /\ Step(c)
          \/ UNCHANGED hdr /\ Exit(c)
  /\ UNCHANGED <<job, glb, failed, overlaps>>

\* The caches of a kind that are joined: between their join and their delete.
Joined(kind) == {d \in Caches : job[d].kind = kind /\ pc[d] > 2}

\* Mutant: the global keeps the first header.
JoinMcacheOnce(c) ==
  /\ At(c, "join") /\ job[c].kind = "mcache"
  /\ glb' = [glb EXCEPT !["mcache"] = IF @ = NoCache THEN c ELSE @]
  /\ overlaps' = overlaps \cup Joined("mcache") \X {c}
  /\ Step(c) /\ UNCHANGED <<hdr, block, job, failed>>

\* fd_*cache_private_*cache: the join of a header.
JoinMcache(c) ==
  /\ At(c, "join") /\ job[c].kind = "mcache"
  /\ glb' = [glb EXCEPT !["mcache"] = c]
  /\ overlaps' = overlaps \cup Joined("mcache") \X {c}
  /\ Step(c) /\ UNCHANGED <<hdr, block, job, failed>>

JoinDcache(c) ==
  /\ At(c, "join") /\ job[c].kind = "dcache"
  /\ glb' = [glb EXCEPT !["dcache"] = c]
  /\ overlaps' = overlaps \cup Joined("dcache") \X {c}
  /\ Step(c) /\ UNCHANGED <<hdr, block, job, failed>>

JoinTcache(c) ==
  /\ At(c, "join") /\ job[c].kind = "tcache"
  /\ Step(c) /\ UNCHANGED <<hdr, block, job, glb, failed, overlaps>>

\* The accessors, each with the harness' assertion about it; the two regions
\* of which it asserts only that they are there are told apart by their owner.
Ask(c) ==
  /\ \/ /\ At(c, "size1")
        /\ Check(c, "size1", Found(c).size1 = block[c][1])
     \/ /\ At(c, "size2")
        /\ Check(c, "size2", Found(c).size2 = block[c][2])
     \/ /\ At(c, "seq0")
        /\ Check(c, "seq0", Found(c).seq0 = hdr[c].seq0)
     \/ /\ At(c, "seq_laddr")
        /\ Check(c, "seq_laddr", HdrOf(c) = c)
     \/ /\ At(c, "app_laddr")
        /\ Check(c, "app_laddr", HdrOf(c) = c)
  /\ Step(c) /\ UNCHANGED <<hdr, block, job, glb, overlaps>>

\* Mutant: the mask is the depth itself.
LineIdxPast(seq, depth) == BitAnd(seq, depth)

\* fd_mcache_line_idx (module Mcache has it for depths that it is meant for)
LineIdx(seq, depth) == BitAnd(seq, depth - 1)

\* fd_mcache_publish and fd_mcache_query of any seq, with the program's depth:
\* a line of the block is written or read; the sequence array is on its own.
UseLine(c) ==
  /\ \/ At(c, "publish") \/ At(c, "query")
  /\ \E seq \in 0 .. 2 * MaxSize + 1 :
       Check(c, "line", LineIdx(seq, block[c][1]) < block[c][1])
  /\ Step(c) /\ UNCHANGED <<hdr, block, job, glb, overlaps>>

\* Nothing that a header holds is changed: seq[0], or only chunks computed.
UseOther(c) ==
  /\ \/ At(c, "seq_update") \/ At(c, "compact")
  /\ Step(c) /\ UNCHANGED <<hdr, block, job, glb, failed, overlaps>>

\* fd_tcache_map_start
MapStart(tag, map_cnt) == BitAnd(tag, map_cnt - 1)

\* FD_TCACHE_QUERY of some tag in an empty map: it ends where it starts.  The
\* assumption of a tag below depth needs a depth that is not 0.
MapQuery(c) ==
  /\ At(c, "map_query")
  /\ IF hdr[c].size1 = 0 THEN Cut(c) /\ UNCHANGED failed
     ELSE /\ \E tag \in 0 .. 2 * MaxSize + 1 :
               Check(c, "map_query", MapStart(tag, hdr[c].size2) < block[c][2])
          /\ Step(c)
  /\ UNCHANGED <<hdr, block, job, glb, overlaps>>

\* FD_TCACHE_INSERT into an empty tcache: a map slot and the ring's first one
\* are written, and oldest, a copy, moves on.
Insert(c) ==
  /\ At(c, "insert")
  /\ IF hdr[c].size1 = 0 THEN Cut(c) /\ UNCHANGED failed
     ELSE LET oldest == IF 1 >= hdr[c].size1 THEN 0 ELSE 1 IN
          /\ \E tag \in 0 .. 2 * MaxSize + 1 :
               Check(c, "insert", /\ MapStart(tag, hdr[c].size2) < block[c][2]
                                  /\ oldest < block[c][1])
          /\ Step(c)
  /\ UNCHANGED <<hdr, block, job, glb, overlaps>>

\* fd_*cache_leave gives the header that is found, and that is deleted.
Delete(c) ==
  /\ At(c, "delete")
  /\ hdr' = [hdr EXCEPT ![HdrOf(c)].magic = FALSE]
  /\ Step(c) /\ UNCHANGED <<block, job, glb, failed, overlaps>>

Next ==
  \/ \E c \in Caches :
       \/ New(c) \/ JoinMcache(c) \/ JoinDcache(c) \/ JoinTcache(c)
       \/ Ask(c) \/ UseLine(c) \/ UseOther(c)
       \/ MapQuery(c) \/ Insert(c) \/ Delete(c)
  \/ /\ (\E c \in Caches : pc[c] = -1) \/ \A c \in Caches : pc[c] = 0
     /\ UNCHANGED vars

Spec == Init /\ [][Next]_vars

-----------------------------------------------------------------------------
(* Properties *)

\* A cache that another of its kind was joined after, while it was joined.
Overtaken(c) == \E e \in Caches : <<c, e>> \in overlaps

\* No other cache of its kind was joined at once with it.
Alone(c) == \A e \in Caches : <<c, e>> \notin overlaps /\ <<e, c>> \notin overlaps

\* A tcache that was asked for without a map.
NoMap(c) == job[c].kind = "tcache" /\ block[c][2] = 0

\* Every accessor answers for the cache it is asked about, with others joined
\* before and other kinds at once, although the header is found through a
\* global: until another of its kind is joined, the last one has its answers.
\* Only a tcache without a map is told a map_cnt that it did not ask for.
AnswersAreOwn ==
  \A c \in Caches :
    /\ \A op \in {"size1", "seq0", "seq_laddr", "app_laddr"} :
         <<c, op>> \in failed => Overtaken(c)
    /\ <<c, "size2">> \in failed => Overtaken(c) \/ NoMap(c)

\* A cache is deleted when its own harness is done with it and not before, and
\* no header is left made, unless two of a kind were joined at once.
DeletedWhenDone ==
  \A c \in Caches : Alone(c) =>
    /\ hdr[c].magic => pc[c] # 0
    /\ pc[c] > 1 => hdr[c].magic

\* Lines, map slots and ring slots are in the blocks that were allocated for
\* all sizes that the footprint functions let pass, those that are no powers
\* of two as well and whatever else is joined; not so in a map of no slots.
SlotsInBounds ==
  \A c \in Caches :
    /\ <<c, "line">> \notin failed
    /\ \A op \in {"map_query", "insert"} : <<c, op>> \in failed => NoMap(c)
=============================================================================
