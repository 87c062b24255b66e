------------------------------- MODULE Tcache -------------------------------
(***************************************************************************)
(* fd_tcache: the deduplication cache (stubs/fd_tcache.h), a ring of the   *)
(* most recent tags and a linear probed map of the same tags.              *)
(*                                                                         *)
(* A tcache has one user.  What is hard about it is not concurrency but    *)
(* that two structures have to agree after any sequence of calls: each     *)
(* look at the map is a step here, so a probe that does not end and a      *)
(* chain of entries that is cut show.                                      *)
(*                                                                         *)
(* TAGS are small naturals; only the low bits, where their probe starts,   *)
(* and their identity matter.                                              *)
(***************************************************************************)
EXTENDS Integers, Sequences, FiniteSets

CONSTANTS
  Depth,      \* how many tags are remembered
  MapCntArg,  \* map_cnt as given by the user, 0 for the default
  Tags,       \* the tags in use
  Removable,  \* those the user calls fd_tcache_remove for
  UlongBits   \* the width of a ulong, 64

NullTag == 0  \* FD_TCACHE_TAG_NULL

\* fd_tcache_map_cnt_default: the log of the size is find_msb(depth + 1) +
\* FD_TCACHE_SPARSE_DEFAULT; 0 for no depth and for those that are too large.
MapCntDefault(depth) ==
  LET msb == CHOOSE n \in 0 .. UlongBits - 1 : 2 ^ n <= depth + 1 /\ depth + 1 < 2 ^ (n + 1)
      lg_map_cnt == msb + 2
  IN IF \/ depth = 0
        \/ depth = 2 ^ UlongBits - 1
        \/ lg_map_cnt > UlongBits - 1
       THEN 0 ELSE 2 ^ lg_map_cnt

\* What fd_tcache_new takes: a depth, and a power of two with room for it.
ASSUME TcacheAssumption ==
  /\ UlongBits \in Nat \ {0, 1} /\ \A k \in 0 .. UlongBits - 1 : 2 ^ (k + 1) = 2 * 2 ^ k
  /\ Depth \in 1 .. 2 ^ UlongBits - 1
  /\ \/ MapCntArg = 0 /\ MapCntDefault(Depth) # 0
     \/ /\ \E n \in 0 .. UlongBits - 1 : MapCntArg = 2 ^ n
        /\ MapCntArg >= Depth + 2
  /\ Tags \subseteq Nat \ {NullTag} /\ Removable \subseteq Tags

VARIABLES
  ring,       \* the tags by age, cyclic
  map,        \* the tags by probe position
  oldest,     \* the user's register: where the oldest tag is in the ring
  oldestCell, \* the word at oldest_laddr
  op,         \* the call under way (or the last one): "query", "insert",
              \* "evict" (the remove within an insert), "remove", "reset"
  tag,        \* its tag
  slot,       \* where its loop stands in the map
  hole,       \* fd_tcache_remove: the slot to be filled
  pc,         \* "idle", "probe", "shift" (closing a hole) or "left"
  answer      \* the tag and the found / dup flag last returned

callVars == <<op, tag, slot, hole>>
vars == <<ring, map, oldest, oldestCell, op, tag, slot, hole, pc, answer>>

-----------------------------------------------------------------------------
MapCnt == IF MapCntArg = 0 THEN MapCntDefault(Depth) ELSE MapCntArg

Slots == 0 .. MapCnt - 1

\* fd_tcache_map_start, fd_tcache_map_next: & (map_cnt - 1), a power of two.
Start(t) == t % MapCnt
NextSlot(i) == (i + 1) % MapCnt

Empty(S) == [i \in S |-> NullTag]

\* fd_tcache_new and the first join.
Init ==
  /\ ring = Empty(0 .. Depth - 1) /\ map = Empty(Slots)
  /\ oldest = 0 /\ oldestCell = 0
  /\ op = "reset" /\ tag = NullTag /\ slot = 0 /\ hole = 0
  /\ pc = "idle" /\ answer = <<>>

-----------------------------------------------------------------------------
(* FD_TCACHE_QUERY: the loop that all calls begin with *)

Call(o, t) ==
  /\ pc = "idle"
  /\ op' = o /\ tag' = t /\ slot' = Start(t) /\ pc' = "probe"
  /\ UNCHANGED <<ring, map, oldest, oldestCell, hole, answer>>

StartQuery == \E t \in Tags : Call("query", t)
StartInsert == \E t \in Tags : Call("insert", t)
StartRemove == \E t \in Removable : Call("remove", t)

\* Mutant: a probe stops at the end of the map.
ProbeNextNoWrap ==
  /\ pc = "probe" /\ map[slot] \notin {tag, NullTag}
  /\ slot' = IF slot = MapCnt - 1 THEN slot ELSE slot + 1
  /\ UNCHANGED <<ring, map, oldest, oldestCell, op, tag, hole, pc, answer>>

ProbeNext ==
  /\ pc = "probe" /\ map[slot] \notin {tag, NullTag}
  /\ slot' = NextSlot(slot)
  /\ UNCHANGED <<ring, map, oldest, oldestCell, op, tag, hole, pc, answer>>

Found(ops) == pc = "probe" /\ op \in ops /\ map[slot] = tag
NotFound(ops) == pc = "probe" /\ op \in ops /\ map[slot] = NullTag

QueryDone ==
  /\ Found({"query"}) \/ NotFound({"query"})
  /\ answer' = <<tag, map[slot] = tag>>
  /\ pc' = "idle"
  /\ UNCHANGED <<ring, map, oldest, oldestCell, callVars>>

-----------------------------------------------------------------------------
(* FD_TCACHE_INSERT *)

InsertDup ==
  /\ Found({"insert"})
  /\ answer' = <<tag, TRUE>>
  /\ pc' = "idle"
  /\ UNCHANGED <<ring, map, oldest, oldestCell, callVars>>

\* Mutant: the tag that leaves the ring stays in the map.
InsertNoEvict ==
  /\ NotFound({"insert"})
  /\ map' = [map EXCEPT ![slot] = tag]
  /\ ring' = [ring EXCEPT ![oldest] = tag]
  /\ oldest' = IF oldest + 1 >= Depth THEN 0 ELSE oldest + 1
  /\ answer' = <<tag, FALSE>>
  /\ pc' = "idle"
  /\ UNCHANGED <<oldestCell, op, tag, slot, hole>>

\* The new tag goes where the probe ended and takes the place of the oldest
\* in the ring, which, unless it is null, is then removed from the map.
InsertNew ==
  /\ NotFound({"insert"})
  /\ map' = [map EXCEPT ![slot] = tag]
  /\ ring' = [ring EXCEPT ![oldest] = tag]
  /\ oldest' = IF oldest + 1 >= Depth THEN 0 ELSE oldest + 1
  /\ answer' = <<tag, FALSE>>
  /\ IF ring[oldest] = NullTag
       THEN pc' = "idle" /\ UNCHANGED callVars
       ELSE /\ op' = "evict" /\ tag' = ring[oldest]
            /\ slot' = Start(ring[oldest])
            /\ pc' = "probe" /\ UNCHANGED hole
  /\ UNCHANGED oldestCell

-----------------------------------------------------------------------------
(* fd_tcache_remove *)

RemoveMiss ==
  /\ NotFound({"evict", "remove"})
  /\ pc' = "idle"
  /\ UNCHANGED <<ring, map, oldest, oldestCell, callVars, answer>>

RemoveHit ==
  /\ Found({"evict", "remove"})
  /\ map' = [map EXCEPT ![slot] = NullTag]
  /\ hole' = slot
  /\ pc' = "shift"
  /\ UNCHANGED <<ring, oldest, oldestCell, op, tag, slot, answer>>

\* Mutant: the comparison that is right when the chain does not wrap.
StaysNoWrap(start, at) == hole < start /\ start <= at

\* The entry at slot at may stay: its probe starts after the hole.
Stays(start, at) ==
  \/ hole < start /\ start <= at
  \/ hole > at /\ (hole < start \/ start <= at)

ShiftDone ==
  /\ pc = "shift"
  /\ map[NextSlot(slot)] = NullTag
  /\ slot' = NextSlot(slot) /\ tag' = NullTag
  /\ pc' = "idle"
  /\ UNCHANGED <<ring, map, oldest, oldestCell, op, hole, answer>>

ShiftOver ==
  /\ pc = "shift"
  /\ map[NextSlot(slot)] # NullTag
  /\ Stays(Start(map[NextSlot(slot)]), NextSlot(slot))
  /\ slot' = NextSlot(slot) /\ tag' = map[NextSlot(slot)]
  /\ UNCHANGED <<ring, map, oldest, oldestCell, op, hole, pc, answer>>

\* The entry fills the hole and leaves one behind.
ShiftBack ==
  /\ pc = "shift"
  /\ map[NextSlot(slot)] # NullTag
  /\ ~Stays(Start(map[NextSlot(slot)]), NextSlot(slot))
  /\ map' = [map EXCEPT ![hole] = map[NextSlot(slot)],
                        ![NextSlot(slot)] = NullTag]
  /\ slot' = NextSlot(slot) /\ tag' = map[NextSlot(slot)]
  /\ hole' = NextSlot(slot)
  /\ UNCHANGED <<ring, oldest, oldestCell, op, pc, answer>>

-----------------------------------------------------------------------------
(* Reset, termination and restart *)

\* fd_tcache_reset; the user takes 0 for oldest.
Reset ==
  /\ pc = "idle"
  /\ ring' = Empty(DOMAIN ring) /\ map' = Empty(Slots) /\ oldest' = 0
  /\ op' = "reset"
  /\ UNCHANGED <<oldestCell, tag, slot, hole, pc, answer>>

\* Mutant: the user keeps oldest to itself.
LeaveUnsaved ==
  /\ pc = "idle" /\ pc' = "left"
  /\ UNCHANGED <<ring, map, oldest, oldestCell, callVars, answer>>

\* A clean shutdown: the register goes back to memory ...
Leave ==
  /\ pc = "idle" /\ pc' = "left"
  /\ oldestCell' = oldest
  /\ UNCHANGED <<ring, map, oldest, callVars, answer>>

\* ... where the next user takes it from.
Rejoin ==
  /\ pc = "left" /\ pc' = "idle"
  /\ oldest' = oldestCell
  /\ UNCHANGED <<ring, map, oldestCell, callVars, answer>>

Calls ==
  \/ ProbeNext \/ QueryDone \/ InsertDup \/ InsertNew
  \/ RemoveMiss \/ RemoveHit \/ ShiftDone \/ ShiftOver \/ ShiftBack

Next ==
  \/ StartQuery \/ StartInsert \/ StartRemove \/ Calls
  \/ Reset \/ Leave \/ Rejoin

Spec == Init /\ [][Next]_vars

\* The user's thread runs.
FairSpec == Spec /\ WF_vars(Calls)

-----------------------------------------------------------------------------
(* Properties *)

InMap == {map[i] : i \in Slots} \ {NullTag}
InRing == {ring[i] : i \in DOMAIN ring} \ {NullTag}
Entries == Cardinality({i \in Slots : map[i] # NullTag})

\* The type invariant.
TypeOK ==
  /\ ring \in [0 .. Depth - 1 -> Tags \cup {NullTag}]
  /\ map \in [Slots -> Tags \cup {NullTag}]
  /\ oldest \in 0 .. Depth - 1 /\ oldestCell \in 0 .. Depth - 1
  /\ op \in {"query", "insert", "evict", "remove", "reset"}
  /\ tag \in Tags \cup {NullTag}
  /\ slot \in Slots /\ hole \in Slots
  /\ pc \in {"idle", "probe", "shift", "left"}

\* What an insert or a query is about to conclude from an empty slot is
\* true: the tag is nowhere in the map, whatever was removed and moved before,
\* so no tag is ever in the map twice and none becomes invisible.
ProbeIsRight ==
  pc = "probe" /\ map[slot] = NullTag => tag \notin InMap

\* The map never has a tag that the ring has not, and never so many that a
\* probe could go around for ever: two free slots between calls, one within an
\* insert - removes at any time included.
RoomLeft ==
  /\ pc \in {"idle", "left"} =>
       InMap \subseteq InRing /\ Entries <= MapCnt - 2
  /\ Entries <= MapCnt - 1

\* Every call returns.
CallsReturn == pc \in {"probe", "shift"} ~> pc = "idle"

\* Ring and map together remember the Depth most recent unique tags, less
\* those that were removed.  An insert takes effect when it puts its tag in the
\* map: the tag it evicts is gone then, although it is still to be taken out.
\*
\* The ring by age, the oldest place first; the places that no insert has
\* reached since the last reset are the oldest.
Aged(i) == ring[(oldest + i - 1) % Depth]
Filled == Cardinality({i \in 1 .. Depth : Aged(i) # NullTag})
RingInOrder == [i \in 1 .. Filled |-> Aged(Depth - Filled + i)]
Present == InMap \ (IF pc = "probe" /\ op = "evict" THEN {tag} ELSE {})

Abstract == INSTANCE DedupCache WITH recent <- RingInOrder, present <- Present

ImplementsDedupCache == Abstract!Spec
=============================================================================
