---------------------------- MODULE Tcache_proofs ----------------------------
(***************************************************************************)
(* Proofs about Tcache, for every depth, map size and set of tags.         *)
(*                                                                         *)
(* The map is a linear probed one whose remove closes the hole that it     *)
(* makes.  What holds it together is that a probe that starts where a tag  *)
(* starts finds no empty slot before the tag (Unbroken); while a hole is   *)
(* being closed the hole may be in the way, but only of the tags that are  *)
(* still to be looked at.                                                  *)
(***************************************************************************)
EXTENDS Tcache, ModularLemmas, FiniteSetTheorems, TLAPS

\* How many steps a probe takes from slot i to slot j.
Dist(i, j) == IF i <= j THEN j - i ELSE j + MapCnt - i

\* A probe from start passes slot j before it comes to slot i.
Passes(start, j, i) == Dist(start, j) < Dist(start, i)

\* The hole is not closed yet, and the loop has not come to slot i.
StillToClose(i) == pc = "shift" /\ Dist(hole, slot) < Dist(hole, i)

Unbroken ==
  \A i, j \in Slots :
    map[i] # NullTag /\ Passes(Start(map[i]), j, i) =>
      map[j] # NullTag \/ (j = hole /\ StillToClose(i))

Distinct ==
  \A i, j \in Slots : map[i] # NullTag /\ map[i] = map[j] => i = j

\* A probe has passed neither an empty slot nor its tag.
Probing ==
  pc = "probe" =>
    /\ op # "reset" /\ tag \in Tags
    /\ \A j \in Slots : Passes(Start(tag), j, slot) => map[j] \notin {NullTag, tag}

Shifting == pc = "shift" => map[hole] = NullTag

\* What the map has is in the ring, but for the tag that is being evicted.
Evicted == IF pc = "probe" /\ op = "evict" THEN {tag} ELSE {}
InStep == InMap \subseteq InRing \cup Evicted

\* The empty places of the ring are the oldest.
FilledBy(n) == \A i \in 1 .. Depth : Aged(i) = NullTag <=> i <= Depth - n
FilledInOrder == \E n \in 0 .. Depth : FilledBy(n)

Saved == pc = "left" => oldestCell = oldest

IInv ==
  /\ TypeOK /\ Unbroken /\ Distinct /\ Probing /\ Shifting /\ InStep
  /\ FilledInOrder /\ Saved

-----------------------------------------------------------------------------
(* The size of the map, and its slots                                      *)

LEMMA WidthFacts ==
  /\ UlongBits \in Nat \ {0, 1} /\ Doubling(UlongBits)
  /\ \A k \in 0 .. UlongBits : 2 ^ k \in Nat \ {0}
<1>1. UlongBits \in Nat \ {0, 1} /\ UlongBits \in Nat /\ Doubling(UlongBits)
  BY TcacheAssumption, Zenon DEF TcacheAssumption, Doubling
<1> QED BY <1>1, PowNat, Zenon

\* find_msb of a word that is not 0.
LEMMA MsbIs ==
  ASSUME NEW x \in Nat \ {0}, x < 2 ^ UlongBits
  PROVE  \E n \in 0 .. UlongBits - 1 : 2 ^ n <= x /\ x < 2 ^ (n + 1)
<1> DEFINE Above == {k \in 0 .. UlongBits : x < 2 ^ k}
<1>1. UlongBits \in Above /\ Above \in SUBSET Nat
  BY WidthFacts
<1>2. PICK k \in Above : \A j \in Above : k <= j
  BY <1>1, HasLeast
<1>3. k # 0
  <2>1. 2 ^ 0 = 1 /\ ~(x < 1)
    BY SMT
  <2> QED BY <2>1, Zenon
<1>4. /\ k - 1 \in 0 .. UlongBits - 1 /\ k - 1 \in 0 .. UlongBits
      /\ ~(k <= k - 1) /\ (k - 1) + 1 = k
  BY <1>3, WidthFacts
<1>5. ~(x < 2 ^ (k - 1)) /\ 2 ^ (k - 1) \in Nat
  BY <1>2, <1>4, WidthFacts, Zenon
<1>6. \A p \in Nat : ~(x < p) => p <= x
  OBVIOUS
<1>7. 2 ^ (k - 1) <= x
  BY <1>5, <1>6, Zenon
<1> QED BY <1>4, <1>7, Zenon

\* fd_tcache_map_cnt_default, for every depth that a ulong can be: it leaves two
\* slots free at least, in a map no more than four times as large as needed
\* (the comment's bounds, lines 132-147), or returns 0, and it does that for no
\* depth and for those of a quarter of the range or more only.
LEMMA DefaultLeavesRoom ==
  ASSUME NEW depth \in 0 .. 2 ^ UlongBits - 1
  PROVE  /\ MapCntDefault(depth) = 0 <=> depth = 0 \/ depth + 1 >= 2 ^ (UlongBits - 2)
         /\ MapCntDefault(depth) # 0 =>
              /\ \E n \in 0 .. UlongBits - 1 : MapCntDefault(depth) = 2 ^ n
              /\ MapCntDefault(depth) >= depth + 2
              /\ 2 * (depth + 1) < MapCntDefault(depth)
              /\ MapCntDefault(depth) <= 4 * (depth + 1)
<1> DEFINE IsMsb(n) == 2 ^ n <= depth + 1 /\ depth + 1 < 2 ^ (n + 1)
           msb == CHOOSE n \in 0 .. UlongBits - 1 : IsMsb(n)
           most == 2 ^ UlongBits
           limit == 2 ^ (UlongBits - 2)
<1>1. /\ UlongBits \in Nat /\ UlongBits - 2 \in 0 .. UlongBits - 1
      /\ UlongBits - 1 \in 0 .. UlongBits - 1
      /\ (UlongBits - 2) + 1 = UlongBits - 1 /\ (UlongBits - 1) + 1 = UlongBits
      /\ UlongBits - 2 \in 0 .. UlongBits
  BY WidthFacts
<1>2. limit \in Nat \ {0} /\ most = 4 * limit
  <2>1. limit \in Nat \ {0} /\ 2 ^ (UlongBits - 1) = 2 * limit /\ most = 2 * 2 ^ (UlongBits - 1)
    BY <1>1, WidthFacts, Zenon DEF Doubling
  <2> HIDE DEF limit, most
  <2>2. \A a, b, c : a \in Nat /\ b = 2 * a /\ c = 2 * b => c = 4 * a
    BY SMT
  <2> QED BY <2>1, <2>2, Zenon
<1>3. depth \in Nat /\ depth < most
  <2> HIDE DEF limit
  <2>1. most \in Nat
    BY <1>2
  <2> HIDE DEF most
  <2>2. depth \in 0 .. most - 1
    BY Zenon DEF most
  <2> QED BY <2>1, <2>2
<1> HIDE DEF most, limit
<1>4. CASE depth = 0
  <2>1. MapCntDefault(depth) = 0
    BY <1>4, Zenon DEF MapCntDefault
  <2> QED BY <1>4, <2>1, Zenon
<1>5. CASE depth = most - 1
  <2>1. MapCntDefault(depth) = 0
    BY <1>5, Zenon DEF MapCntDefault, most
  <2>2. depth + 1 >= limit
    BY <1>2, <1>5
  <2> QED BY <2>1, <2>2, Zenon DEF limit
<1>6. CASE depth # 0 /\ depth # most - 1
  <2>1. depth + 1 \in Nat \ {0} /\ depth + 1 < most
    BY <1>2, <1>3, <1>6
  <2>2. msb \in 0 .. UlongBits - 1 /\ IsMsb(msb)
    BY <2>1, MsbIs, Zenon DEF most
  <2>3. MapCntDefault(depth) = IF msb + 2 > UlongBits - 1 THEN 0 ELSE 2 ^ (msb + 2)
    <3>1. MapCntDefault(depth) =
            IF \/ depth = 0
               \/ depth = most - 1
               \/ msb + 2 > UlongBits - 1
              THEN 0 ELSE 2 ^ (msb + 2)
      BY Zenon DEF MapCntDefault, most
    <3> HIDE DEF msb
    <3> QED BY <1>6, <3>1, Zenon
  <2> HIDE DEF msb
  <2> DEFINE p == 2 ^ msb
  <2>4. p \in Nat \ {0} /\ 2 ^ (msb + 1) = 2 * p
    BY <1>1, <2>2, WidthFacts DEF Doubling
  <2> HIDE DEF p
  <2>5. p <= depth + 1 /\ depth + 1 < 2 * p
    BY <2>2, <2>4, Zenon DEF p
  <2>6. CASE msb + 2 > UlongBits - 1
    <3>1. UlongBits - 2 <= msb /\ msb \in 0 .. UlongBits
      BY <1>1, <2>2, <2>6
    <3>2. limit <= p
      BY <1>1, <3>1, WidthFacts, PowDivides, Zenon DEF limit, p
    <3>3. depth + 1 >= limit
      BY <1>2, <1>3, <2>4, <2>5, <3>2
    <3> QED BY <2>3, <2>6, <3>3, Zenon DEF limit
  <2>7. CASE ~(msb + 2 > UlongBits - 1)
    <3>1. /\ msb + 2 \in 0 .. UlongBits - 1 /\ msb + 1 \in 0 .. UlongBits - 1
          /\ (msb + 1) + 1 = msb + 2 /\ msb + 1 \in 0 .. UlongBits
          /\ msb + 1 <= UlongBits - 2
      BY <1>1, <2>2, <2>7
    <3>2. 2 ^ (msb + 2) = 2 * (2 * p)
      BY <2>4, <3>1, WidthFacts, Zenon DEF Doubling
    <3>3. 2 * p <= limit
      <4>1. 2 ^ (msb + 1) <= limit
        BY <1>1, <3>1, WidthFacts, PowDivides, Zenon DEF limit
      <4> QED BY <2>4, <4>1, Zenon
    <3>4. MapCntDefault(depth) = 2 ^ (msb + 2) /\ MapCntDefault(depth) = 4 * p
      <4>1. 2 * (2 * p) = 4 * p
        BY <2>4
      <4> QED BY <2>3, <2>7, <3>2, <4>1, Zenon
    <3>5. ~(depth + 1 >= limit)
      BY <1>2, <1>3, <2>4, <2>5, <3>3
    <3>6. PICK size : size = MapCntDefault(depth)
      OBVIOUS
    <3>7. size # 0 /\ size >= depth + 2 /\ 2 * (depth + 1) < size /\ size <= 4 * (depth + 1)
      <4>1. size = 4 * p
        BY <3>4, <3>6, Zenon
      <4> QED BY <1>3, <2>4, <2>5, <4>1
    <3>8. \E n \in 0 .. UlongBits - 1 : MapCntDefault(depth) = 2 ^ n
      BY <3>1, <3>4, Zenon
    <3> QED BY <1>6, <3>5, <3>6, <3>7, <3>8, Zenon DEF limit
  <2> QED BY <2>6, <2>7
<1> QED BY <1>4, <1>5, <1>6

LEMMA MapSize ==
  /\ Depth \in Nat \ {0} /\ MapCnt \in Nat /\ MapCnt >= Depth + 2
  /\ Tags \subseteq Nat \ {NullTag} /\ Removable \subseteq Tags
<1>1. /\ Depth \in 1 .. 2 ^ UlongBits - 1
      /\ Tags \subseteq Nat \ {NullTag} /\ Removable \subseteq Tags
      /\ \/ MapCntArg = 0 /\ MapCntDefault(Depth) # 0
         \/ /\ \E n \in 0 .. UlongBits - 1 : MapCntArg = 2 ^ n
            /\ MapCntArg >= Depth + 2
  BY TcacheAssumption, Zenon DEF TcacheAssumption
<1>2. PICK most \in Nat : most = 2 ^ UlongBits
  BY WidthFacts
<1>3. Depth \in Nat \ {0} /\ Depth \in 0 .. 2 ^ UlongBits - 1
  <2>1. Depth \in 1 .. most - 1
    BY <1>1, <1>2, Zenon
  <2>2. Depth \in Nat \ {0} /\ Depth \in 0 .. most - 1
    BY <1>2, <2>1
  <2> QED BY <1>2, <2>2, Zenon
<1>4. \A n \in 0 .. UlongBits - 1 : 2 ^ n \in Nat \ {0}
  BY WidthFacts
<1>5. CASE MapCntArg = 0
  <2>1. MapCnt = MapCntDefault(Depth)
    BY <1>5, Zenon DEF MapCnt
  <2>2. MapCntDefault(Depth) # 0
    BY <1>1, <1>4, <1>5, Zenon
  <2>4. MapCnt >= Depth + 2 /\ \E n \in 0 .. UlongBits - 1 : MapCnt = 2 ^ n
    BY <1>3, <2>1, <2>2, DefaultLeavesRoom, Zenon
  <2>5. MapCnt \in Nat
    BY <1>4, <2>4, Zenon
  <2> QED BY <1>1, <1>3, <2>4, <2>5, Zenon
<1>6. CASE MapCntArg # 0
  <2>1. MapCnt = MapCntArg
    BY <1>6, Zenon DEF MapCnt
  <2>2. MapCnt >= Depth + 2 /\ MapCnt \in Nat
    BY <1>1, <1>4, <1>6, <2>1, Zenon
  <2> QED BY <1>1, <1>3, <2>2, Zenon
<1> QED BY <1>5, <1>6

LEMMA NextSlotIs ==
  ASSUME NEW i \in Slots
  PROVE  /\ NextSlot(i) \in Slots
         /\ NextSlot(i) = IF i = MapCnt - 1 THEN 0 ELSE i + 1
BY MapSize DEF Slots, NextSlot

LEMMA StartIs == ASSUME NEW t \in Tags PROVE Start(t) \in Slots
<1>1. t \in Nat /\ MapCnt \in Nat \ {0}
  BY MapSize
<1>2. t % MapCnt \in 0 .. MapCnt - 1
  BY <1>1
<1> QED BY <1>2 DEF Start, Slots

\* Walking around the map.
LEMMA PassedNext ==
  ASSUME NEW start \in Slots, NEW i \in Slots, NEW j \in Slots,
         Passes(start, j, NextSlot(i))
  PROVE  j = i \/ Passes(start, j, i)
BY NextSlotIs, MapSize DEF Slots, Passes, Dist

LEMMA PassedAll ==
  ASSUME NEW start \in Slots, NEW i \in Slots, NEW j \in Slots, i # j
  PROVE  Passes(start, j, i) \/ Passes(start, i, j)
BY MapSize DEF Slots, Passes, Dist

LEMMA PassedThrough ==
  ASSUME NEW start \in Slots, NEW i \in Slots, NEW j \in Slots, NEW k \in Slots,
         Passes(start, j, i), Passes(start, k, j)
  PROVE  Passes(start, k, i) /\ k # j /\ j # i /\ ~Passes(start, i, j)
BY MapSize DEF Slots, Passes, Dist

\* The hole h, the slot s where the loop stands and the next one.
LEMMA LoopGoesOn ==
  ASSUME NEW h \in Slots, NEW s \in Slots, NEW i \in Slots,
         i # NextSlot(s), Dist(h, s) < Dist(h, i)
  PROVE  /\ NextSlot(s) # h
         /\ Dist(h, NextSlot(s)) < Dist(h, i)
BY NextSlotIs, MapSize DEF Slots, Dist

LEMMA LoopHasPassed ==
  ASSUME NEW h \in Slots, NEW s \in Slots, NEW i \in Slots, NEW start \in Slots,
         i # NextSlot(s), Dist(h, s) < Dist(h, i), Passes(start, h, i)
  PROVE  Passes(start, NextSlot(s), i)
BY NextSlotIs, MapSize DEF Slots, Dist, Passes

LEMMA FirstAfter ==
  ASSUME NEW h \in Slots, NEW i \in Slots, i # h
  PROVE  Dist(h, h) < Dist(h, i)
BY MapSize DEF Slots, Dist

\* The comparison of fd_tcache_remove: an entry stays when its probe does not
\* pass the hole, wherever the map wraps around.
LEMMA StaysIs ==
  ASSUME NEW start \in Slots, NEW at \in Slots, hole \in Slots, hole # at
  PROVE  Stays(start, at) <=> ~Passes(start, hole, at)
BY MapSize DEF Slots, Stays, Passes, Dist

-----------------------------------------------------------------------------
(* What follows from the invariant                                         *)

\* The end of a probe tells whether its tag is in the map.
LEMMA ProbeTells ==
  ASSUME IInv, pc = "probe", map[slot] = NullTag
  PROVE  tag \notin InMap
<1>1. /\ slot \in Slots /\ tag \in Tags /\ Start(tag) \in Slots /\ tag # NullTag
      /\ \A j \in Slots : Passes(Start(tag), j, slot) => map[j] # tag
  BY StartIs, MapSize DEF IInv, TypeOK, Probing
<1>2. ASSUME NEW i \in Slots, map[i] = tag
      PROVE  FALSE
  <2>1. i # slot
    BY <1>1, <1>2
  <2>2. ~Passes(Start(tag), slot, i)
    BY <1>1, <1>2 DEF IInv, Unbroken, StillToClose
  <2> QED BY <1>1, <1>2, <2>1, <2>2, PassedAll
<1> QED BY <1>2 DEF InMap

LEMMA InMapIs ==
  \A t : t \in InMap <=> t # NullTag /\ \E i \in Slots : map[i] = t
BY DEF InMap

LEMMA InRingIs ==
  ASSUME TypeOK
  PROVE  \A t : t \in InRing <=> t # NullTag /\ \E i \in 0 .. Depth - 1 : ring[i] = t
<1>1. DOMAIN ring = 0 .. Depth - 1
  BY DEF TypeOK
<1> QED BY <1>1 DEF InRing

\* Places of the ring by age.
LEMMA PlaceIs ==
  ASSUME NEW o \in 0 .. Depth - 1, NEW i \in 1 .. Depth
  PROVE  /\ (o + i - 1) % Depth =
              IF o + i - 1 < Depth THEN o + i - 1 ELSE o + i - 1 - Depth
         /\ (o + i - 1) % Depth \in 0 .. Depth - 1
<1>1. o + i - 1 \in Nat /\ Depth \in Nat \ {0} /\ o + i - 1 < 2 * Depth
  BY MapSize
<1>2. CASE o + i - 1 < Depth
  BY <1>1, <1>2
<1>3. CASE o + i - 1 >= Depth
  <2>1. o + i - 1 - Depth \in 0 .. Depth - 1 /\ 1 \in Int
    BY <1>1, <1>3
  <2>2. (Depth * 1 + (o + i - 1 - Depth)) % Depth = o + i - 1 - Depth
    BY <1>1, <2>1, DivModOf
  <2>3. Depth * 1 + (o + i - 1 - Depth) = o + i - 1
    BY <1>1
  <2> QED BY <1>1, <1>3, <2>1, <2>2, <2>3
<1> QED BY <1>1, <1>2, <1>3

LEMMA FilledIs ==
  \A n \in 0 .. Depth : /\ FilledBy(n) => Filled = n
                        /\ FilledBy(n)' => Filled' = n
<1> TAKE n \in 0 .. Depth
<1>1. Depth \in Nat \ {0} /\ Depth - n + 1 \in Int
  BY MapSize
<1>2. Cardinality((Depth - n + 1) .. Depth) = n
  BY <1>1, FS_Interval
<1>3. ASSUME FilledBy(n) PROVE Filled = n
  <2>1. {i \in 1 .. Depth : Aged(i) # NullTag} = (Depth - n + 1) .. Depth
    BY <1>1, <1>3 DEF FilledBy
  <2> QED BY <1>2, <2>1 DEF Filled
<1>4. ASSUME FilledBy(n)' PROVE Filled' = n
  <2>1. {i \in 1 .. Depth : Aged(i)' # NullTag} = (Depth - n + 1) .. Depth
    BY <1>1, <1>4 DEF FilledBy
  <2> QED BY <1>2, <2>1 DEF Filled
<1> QED BY <1>3, <1>4

\* A new tag takes the place of the oldest, and all others get older.
LEMMA AgedNext ==
  ASSUME TypeOK, tag \in Tags, ring' = [ring EXCEPT ![oldest] = tag],
         oldest' = IF oldest + 1 >= Depth THEN 0 ELSE oldest + 1
  PROVE  /\ Aged(1) = ring[oldest]
         /\ \A i \in 1 .. Depth - 1 : Aged(i)' = Aged(i + 1)
         /\ Aged(Depth)' = tag
         /\ oldest' \in 0 .. Depth - 1
         /\ ring' \in [0 .. Depth - 1 -> Tags \cup {NullTag}]
<1>1. /\ Depth \in Nat \ {0} /\ oldest \in 0 .. Depth - 1
      /\ ring \in [0 .. Depth - 1 -> Tags \cup {NullTag}]
  BY MapSize DEF TypeOK
<1>2. oldest' \in 0 .. Depth - 1
  BY <1>1
<1>3. Aged(1) = ring[oldest]
  <2>1. (oldest + 1 - 1) % Depth = oldest
    BY <1>1, PlaceIs
  <2> QED BY <2>1 DEF Aged
<1>4. ASSUME NEW i \in 1 .. Depth - 1
      PROVE  Aged(i)' = Aged(i + 1)
  <2>1. i \in 1 .. Depth /\ i + 1 \in 1 .. Depth
    BY <1>1
  <2> DEFINE p == (oldest' + i - 1) % Depth
             q == (oldest + (i + 1) - 1) % Depth
  <2>2. /\ p = IF oldest' + i - 1 < Depth THEN oldest' + i - 1
                                          ELSE oldest' + i - 1 - Depth
        /\ p \in 0 .. Depth - 1
    BY <1>2, <2>1, PlaceIs
  <2>3. q = IF oldest + (i + 1) - 1 < Depth THEN oldest + (i + 1) - 1
                                            ELSE oldest + (i + 1) - 1 - Depth
    BY <1>1, <2>1, PlaceIs
  <2>4. Aged(i)' = ring'[p] /\ Aged(i + 1) = ring[q]
    BY DEF Aged
  <2> HIDE DEF p, q
  <2>5. p = q /\ p # oldest
    BY <1>1, <2>2, <2>3
  <2> QED BY <1>1, <2>2, <2>4, <2>5
<1>5. Aged(Depth)' = tag
  <2>1. Depth \in 1 .. Depth
    BY <1>1
  <2>2. (oldest' + Depth - 1) % Depth =
          IF oldest' + Depth - 1 < Depth THEN oldest' + Depth - 1
                                         ELSE oldest' + Depth - 1 - Depth
    BY <1>2, <2>1, PlaceIs
  <2>3. (oldest' + Depth - 1) % Depth = oldest
    BY <1>1, <1>2, <2>2
  <2> QED BY <1>1, <2>3 DEF Aged
<1>6. ring' \in [0 .. Depth - 1 -> Tags \cup {NullTag}]
  BY <1>1
<1> QED BY <1>2, <1>3, <1>4, <1>5, <1>6

LEMMA FilledNext ==
  ASSUME NEW n \in 0 .. Depth, FilledBy(n), tag \in Tags,
         \A i \in 1 .. Depth - 1 : Aged(i)' = Aged(i + 1), Aged(Depth)' = tag
  PROVE  LET m == IF n = Depth THEN Depth ELSE n + 1 IN
         m \in 0 .. Depth /\ FilledBy(m)'
<1> DEFINE m == IF n = Depth THEN Depth ELSE n + 1
<1>1. Depth \in Nat \ {0} /\ tag # NullTag /\ m \in 0 .. Depth
  BY MapSize
<1>2. ASSUME NEW i \in 1 .. Depth
      PROVE  Aged(i)' = NullTag <=> i <= Depth - m
  <2>1. CASE i = Depth
    BY <1>1, <2>1
  <2>2. CASE i < Depth
    <3>1. i \in 1 .. Depth - 1 /\ i + 1 \in 1 .. Depth
      BY <1>1, <2>2
    <3>2. Aged(i)' = NullTag <=> i + 1 <= Depth - n
      BY <3>1 DEF FilledBy
    <3> QED BY <1>1, <2>2, <3>2
  <2> QED BY <1>1, <2>1, <2>2
<1> QED BY <1>1, <1>2 DEF FilledBy

-----------------------------------------------------------------------------
(* Every step keeps the invariant                                          *)

\* A step that leaves ring and map alone keeps what is said of them only.
LEMMA RingAndMapKept ==
  ASSUME IInv, UNCHANGED <<ring, map, oldest>>
  PROVE  /\ FilledInOrder' /\ Distinct'
         /\ InMap' = InMap /\ InRing' = InRing
         /\ (pc # "shift" => Unbroken')
BY DEF IInv, FilledInOrder, FilledBy, Aged, Distinct, InMap, InRing, Unbroken,
       StillToClose

LEMMA CallStep ==
  ASSUME IInv, NEW o \in {"query", "insert", "remove"}, NEW t \in Tags, Call(o, t)
  PROVE  IInv'
<1>1. /\ pc = "idle" /\ op' = o /\ tag' = t /\ slot' = Start(t) /\ pc' = "probe"
      /\ UNCHANGED <<ring, map, oldest, oldestCell, hole, answer>>
      /\ Start(t) \in Slots
  BY StartIs DEF Call
<1>2. TypeOK'
  BY <1>1 DEF IInv, TypeOK
<1>3. Probing'
  <2>1. \A j \in Slots : ~Passes(Start(t), j, Start(t))
    BY <1>1, MapSize DEF Passes, Dist, Slots
  <2> QED BY <1>1, <2>1 DEF Probing
<1>4. InStep'
  BY <1>1, RingAndMapKept DEF IInv, InStep, Evicted
<1> QED BY <1>1, <1>2, <1>3, <1>4, RingAndMapKept DEF IInv, Shifting, Saved

LEMMA ProbeNextStep ==
  ASSUME IInv, ProbeNext
  PROVE  IInv'
<1>1. /\ pc = "probe" /\ map[slot] \notin {tag, NullTag} /\ slot' = NextSlot(slot)
      /\ UNCHANGED <<ring, map, oldest, oldestCell, op, tag, hole, pc, answer>>
      /\ slot \in Slots /\ NextSlot(slot) \in Slots
      /\ tag \in Tags /\ Start(tag) \in Slots
  BY NextSlotIs, StartIs DEF ProbeNext, IInv, TypeOK, Probing
<1>2. TypeOK'
  BY <1>1 DEF IInv, TypeOK
<1>3. Probing'
  <2>1. ASSUME NEW j \in Slots, Passes(Start(tag), j, NextSlot(slot))
        PROVE  map[j] \notin {NullTag, tag}
    <3>1. j = slot \/ Passes(Start(tag), j, slot)
      BY <1>1, <2>1, PassedNext
    <3> QED BY <1>1, <3>1 DEF IInv, Probing
  <2> QED BY <1>1, <2>1 DEF IInv, Probing
<1>4. InStep'
  BY <1>1, RingAndMapKept DEF IInv, InStep, Evicted
<1> QED BY <1>1, <1>2, <1>3, <1>4, RingAndMapKept DEF IInv, Shifting, Saved

\* A call that changes nothing returns.
LEMMA ReturnStep ==
  ASSUME IInv, pc = "probe", pc' = "idle",
         UNCHANGED <<ring, map, oldest, oldestCell, callVars>>,
         op = "evict" => tag \notin InMap
  PROVE  IInv'
<1>1. UNCHANGED <<ring, map, oldest, oldestCell, op, tag, slot, hole>>
  BY DEF callVars
<1>2. TypeOK'
  BY <1>1 DEF IInv, TypeOK
<1>3. InStep'
  <2>1. InMap \subseteq InRing
    BY DEF IInv, InStep, Evicted
  <2> QED BY <1>1, <2>1, RingAndMapKept DEF InStep
<1> QED BY <1>1, <1>2, <1>3, RingAndMapKept DEF IInv, Probing, Shifting, Saved

\* The new tag is not in the map yet; the one that leaves the ring is still to
\* be taken out of the map.
LEMMA InsertNewStep ==
  ASSUME IInv, InsertNew
  PROVE  IInv'
<1>1. /\ pc = "probe" /\ op = "insert" /\ map[slot] = NullTag
      /\ map' = [map EXCEPT ![slot] = tag]
      /\ ring' = [ring EXCEPT ![oldest] = tag]
      /\ oldest' = IF oldest + 1 >= Depth THEN 0 ELSE oldest + 1
      /\ UNCHANGED <<oldestCell, hole>>
  BY DEF InsertNew, NotFound, callVars
<1>2. \/ /\ ring[oldest] = NullTag /\ pc' = "idle" /\ UNCHANGED <<op, tag, slot>>
      \/ /\ ring[oldest] # NullTag /\ pc' = "probe" /\ op' = "evict"
         /\ tag' = ring[oldest] /\ slot' = Start(ring[oldest])
  BY DEF InsertNew, callVars
<1>3. /\ TypeOK /\ slot \in Slots /\ tag \in Tags /\ tag # NullTag
      /\ ring \in [0 .. Depth - 1 -> Tags \cup {NullTag}]
      /\ map \in [Slots -> Tags \cup {NullTag}]
      /\ oldest \in 0 .. Depth - 1
      /\ ring[oldest] # NullTag => ring[oldest] \in Tags
  BY <1>1, MapSize DEF IInv, TypeOK, Probing
<1>4. tag \notin InMap
  BY <1>1, ProbeTells
<1>5. /\ Aged(1) = ring[oldest] /\ Aged(Depth)' = tag
      /\ \A i \in 1 .. Depth - 1 : Aged(i)' = Aged(i + 1)
      /\ oldest' \in 0 .. Depth - 1
      /\ ring' \in [0 .. Depth - 1 -> Tags \cup {NullTag}]
  BY <1>1, <1>3, AgedNext
<1>6. FilledInOrder'
  <2>1. PICK n \in 0 .. Depth : FilledBy(n)
    BY DEF IInv, FilledInOrder
  <2> DEFINE m == IF n = Depth THEN Depth ELSE n + 1
  <2>2. m \in 0 .. Depth /\ FilledBy(m)'
    BY <1>3, <1>5, <2>1, FilledNext
  <2> HIDE DEF m
  <2> QED BY <2>2 DEF FilledInOrder
<1>7. map' \in [Slots -> Tags \cup {NullTag}]
      /\ \A i \in Slots : map'[i] = IF i = slot THEN tag ELSE map[i]
  BY <1>1, <1>3
<1>8. TypeOK'
  <2>1. CASE ring[oldest] = NullTag
    BY <1>1, <1>2, <1>3, <1>5, <1>7, <2>1 DEF TypeOK
  <2>2. CASE ring[oldest] # NullTag
    <3>1. ring[oldest] \in Tags /\ Start(ring[oldest]) \in Slots
      BY <1>3, <2>2, StartIs
    <3> QED BY <1>1, <1>2, <1>3, <1>5, <1>7, <2>2, <3>1 DEF TypeOK
  <2> QED BY <2>1, <2>2
<1>9. Distinct'
  <2>1. \A i \in Slots : map[i] # tag
    BY <1>3, <1>4, InMapIs
  <2> QED BY <1>7, <2>1 DEF IInv, Distinct
<1>10. Unbroken'
  <2>1. ASSUME NEW i \in Slots, NEW j \in Slots, map'[i] # NullTag,
               Passes(Start(map'[i]), j, i)
        PROVE  map'[j] # NullTag
    <3>1. CASE j = slot
      BY <1>3, <1>7, <3>1
    <3>2. CASE i = slot /\ j # slot
      BY <1>1, <1>7, <2>1, <3>2 DEF IInv, Probing
    <3>3. CASE i # slot /\ j # slot
      BY <1>1, <1>7, <2>1, <3>3 DEF IInv, Unbroken, StillToClose
    <3> QED BY <3>1, <3>2, <3>3
  <2> QED BY <2>1 DEF Unbroken
<1>11. Probing'
  <2>1. CASE ring[oldest] = NullTag
    BY <1>2, <2>1 DEF Probing
  <2>2. CASE ring[oldest] # NullTag
    <3>1. ring[oldest] \in Tags /\ Start(ring[oldest]) \in Slots
      BY <1>3, <2>2, StartIs
    <3>2. \A j \in Slots : ~Passes(Start(ring[oldest]), j, Start(ring[oldest]))
      BY <3>1, MapSize DEF Passes, Dist, Slots
    <3> QED BY <1>2, <2>2, <3>1, <3>2 DEF Probing
  <2> QED BY <2>1, <2>2
<1>12. InStep'
  <2>1. InMap \subseteq InRing
    BY <1>1 DEF IInv, InStep, Evicted
  <2>2. \A i \in 0 .. Depth - 1 : ring'[i] = IF i = oldest THEN tag ELSE ring[i]
    BY <1>1, <1>3
  <2>3. \A t : t \in InRing' <=> t # NullTag /\ \E i \in 0 .. Depth - 1 : ring'[i] = t
    <3>1. DOMAIN ring' = 0 .. Depth - 1
      BY <1>5
    <3> QED BY <3>1 DEF InRing
  <2>4. ASSUME NEW t \in InMap'
        PROVE  t \in InRing' \cup Evicted'
    <3>1. PICK i \in Slots : map'[i] = t /\ t # NullTag
      BY <2>4 DEF InMap
    <3>2. CASE i = slot
      BY <1>3, <1>7, <2>2, <2>3, <3>1, <3>2
    <3>3. CASE i # slot
      <4>1. t \in InRing
        BY <1>7, <2>1, <3>1, <3>3, InMapIs
      <4>2. PICK k \in 0 .. Depth - 1 : ring[k] = t
        BY <1>3, <4>1, InRingIs
      <4>3. CASE k # oldest
        BY <2>2, <2>3, <3>1, <4>2, <4>3
      <4>4. CASE k = oldest
        BY <1>2, <3>1, <4>2, <4>4 DEF Evicted
      <4> QED BY <4>3, <4>4
    <3> QED BY <3>2, <3>3
  <2> QED BY <2>4 DEF InStep
<1>13. Shifting' /\ Saved'
  BY <1>2 DEF Shifting, Saved
<1> QED BY <1>6, <1>8, <1>9, <1>10, <1>11, <1>12, <1>13 DEF IInv

\* The tag is taken out, which may leave a hole in the way of others: the loop
\* has yet to come to all of them.
LEMMA RemoveHitStep ==
  ASSUME IInv, RemoveHit
  PROVE  IInv' /\ InMap' = InMap \ {tag}
<1>1. /\ pc = "probe" /\ op \in {"evict", "remove"} /\ map[slot] = tag
      /\ map' = [map EXCEPT ![slot] = NullTag] /\ hole' = slot /\ pc' = "shift"
      /\ UNCHANGED <<ring, oldest, oldestCell, op, tag, slot, answer>>
  BY DEF RemoveHit, Found
<1>2. /\ slot \in Slots /\ map \in [Slots -> Tags \cup {NullTag}]
      /\ tag \in Tags /\ tag # NullTag
  BY <1>1, MapSize DEF IInv, TypeOK, Probing
<1>3. /\ map' \in [Slots -> Tags \cup {NullTag}]
      /\ \A i \in Slots : map'[i] = IF i = slot THEN NullTag ELSE map[i]
  BY <1>1, <1>2
<1>4. TypeOK'
  BY <1>1, <1>2, <1>3 DEF IInv, TypeOK
<1>5. Distinct'
  BY <1>3 DEF IInv, Distinct
<1>6. Unbroken'
  <2>1. ASSUME NEW i \in Slots, NEW j \in Slots, map'[i] # NullTag,
               Passes(Start(map'[i]), j, i), map'[j] = NullTag
        PROVE  j = hole' /\ StillToClose(i)'
    <3>1. i # slot /\ map'[i] = map[i]
      BY <1>3, <2>1
    <3>2. j = slot
      BY <1>1, <1>3, <2>1, <3>1 DEF IInv, Unbroken, StillToClose
    <3>3. Dist(slot, slot) < Dist(slot, i)
      BY <1>2, <3>1, FirstAfter
    <3> QED BY <1>1, <3>2, <3>3 DEF StillToClose
  <2> QED BY <2>1 DEF Unbroken
<1>7. InMap' = InMap \ {tag}
  <2>1. \A i \in Slots : map[i] = tag => i = slot
    BY <1>1, <1>2 DEF IInv, Distinct
  <2>2. \A t : t \in InMap' <=> t # NullTag /\ \E i \in Slots : map'[i] = t
    BY DEF InMap
  <2>3. ASSUME NEW t
        PROVE  t \in InMap' <=> t \in InMap \ {tag}
    BY <1>1, <1>2, <1>3, <2>1, <2>2, InMapIs
  <2> QED BY <2>3
<1>8. InRing' = InRing
  BY <1>1 DEF InRing
<1>9. InStep'
  BY <1>1, <1>7, <1>8 DEF IInv, InStep, Evicted
<1>10. FilledInOrder'
  BY <1>1 DEF IInv, FilledInOrder, FilledBy, Aged
<1>11. Probing' /\ Shifting' /\ Saved'
  BY <1>1, <1>2, <1>3 DEF Probing, Shifting, Saved
<1> QED BY <1>4, <1>5, <1>6, <1>7, <1>9, <1>10, <1>11 DEF IInv

\* An empty slot follows: nothing after it was behind the hole.
LEMMA ShiftDoneStep ==
  ASSUME IInv, ShiftDone
  PROVE  IInv'
<1>1. /\ pc = "shift" /\ map[NextSlot(slot)] = NullTag
      /\ slot' = NextSlot(slot) /\ tag' = NullTag /\ pc' = "idle"
      /\ UNCHANGED <<ring, map, oldest, oldestCell, op, hole, answer>>
  BY DEF ShiftDone
<1>2. /\ slot \in Slots /\ hole \in Slots /\ NextSlot(slot) \in Slots
      /\ map \in [Slots -> Tags \cup {NullTag}]
  BY NextSlotIs DEF IInv, TypeOK
<1>3. TypeOK'
  BY <1>1, <1>2 DEF IInv, TypeOK
<1>4. Unbroken'
  <2>1. ASSUME NEW i \in Slots, NEW j \in Slots, map[i] # NullTag,
               Passes(Start(map[i]), j, i), map[j] = NullTag
        PROVE  FALSE
    <3>1. j = hole /\ Dist(hole, slot) < Dist(hole, i)
      BY <2>1 DEF IInv, Unbroken, StillToClose
    <3>2. Start(map[i]) \in Slots /\ i # NextSlot(slot)
      BY <1>1, <1>2, <2>1, StartIs
    <3>3. Passes(Start(map[i]), NextSlot(slot), i)
      BY <1>2, <2>1, <3>1, <3>2, LoopHasPassed
    <3>4. NextSlot(slot) # hole
      BY <1>2, <3>1, <3>2, LoopGoesOn
    <3> QED BY <1>1, <1>2, <2>1, <3>3, <3>4 DEF IInv, Unbroken
  <2> QED BY <1>1, <2>1 DEF Unbroken
<1>5. InStep'
  BY <1>1, RingAndMapKept DEF IInv, InStep, Evicted
<1> QED BY <1>1, <1>3, <1>4, <1>5, RingAndMapKept DEF IInv, Probing, Shifting, Saved

\* The entry that follows is not behind the hole.
LEMMA ShiftOverStep ==
  ASSUME IInv, ShiftOver
  PROVE  IInv'
<1> DEFINE n == NextSlot(slot)
<1>1. /\ pc = "shift" /\ map[n] # NullTag /\ Stays(Start(map[n]), n)
      /\ slot' = n /\ tag' = map[n]
      /\ UNCHANGED <<ring, map, oldest, oldestCell, op, hole, pc, answer>>
  BY DEF ShiftOver
<1>2. /\ slot \in Slots /\ hole \in Slots /\ n \in Slots
      /\ map \in [Slots -> Tags \cup {NullTag}] /\ map[hole] = NullTag
  BY <1>1, NextSlotIs DEF IInv, TypeOK, Shifting
<1>3. TypeOK'
  BY <1>1, <1>2 DEF IInv, TypeOK
<1>4. ~Passes(Start(map[n]), hole, n)
  <2>1. Start(map[n]) \in Slots /\ hole # n
    BY <1>1, <1>2, StartIs
  <2> QED BY <1>1, <1>2, <2>1, StaysIs
<1>5. Unbroken'
  <2>1. ASSUME NEW i \in Slots, NEW j \in Slots, map[i] # NullTag,
               Passes(Start(map[i]), j, i), map[j] = NullTag
        PROVE  j = hole /\ Dist(hole, n) < Dist(hole, i)
    <3>1. j = hole /\ Dist(hole, slot) < Dist(hole, i)
      BY <2>1 DEF IInv, Unbroken, StillToClose
    <3>2. i # n
      BY <1>4, <2>1, <3>1
    <3> QED BY <1>2, <3>1, <3>2, LoopGoesOn
  <2> QED BY <1>1, <2>1 DEF Unbroken, StillToClose
<1>6. InStep'
  BY <1>1, RingAndMapKept DEF IInv, InStep, Evicted
<1> QED BY <1>1, <1>2, <1>3, <1>5, <1>6, RingAndMapKept DEF IInv, Probing, Shifting, Saved

\* It is: it fills the hole and leaves one for those after it.
LEMMA ShiftBackStep ==
  ASSUME IInv, ShiftBack
  PROVE  IInv' /\ InMap' = InMap
<1> DEFINE n == NextSlot(slot)
<1>1. /\ pc = "shift" /\ map[n] # NullTag /\ ~Stays(Start(map[n]), n)
      /\ map' = [map EXCEPT ![hole] = map[n], ![n] = NullTag]
      /\ slot' = n /\ tag' = map[n] /\ hole' = n
      /\ UNCHANGED <<ring, oldest, oldestCell, op, pc, answer>>
  BY DEF ShiftBack
<1>2. /\ slot \in Slots /\ hole \in Slots /\ n \in Slots
      /\ map \in [Slots -> Tags \cup {NullTag}] /\ map[hole] = NullTag
  BY <1>1, NextSlotIs DEF IInv, TypeOK, Shifting
<1> HIDE DEF n
<1>3. /\ hole # n
      /\ map' \in [Slots -> Tags \cup {NullTag}]
      /\ \A i \in Slots : map'[i] = IF i = n THEN NullTag
                                    ELSE IF i = hole THEN map[n] ELSE map[i]
  BY <1>1, <1>2
<1>4. Start(map[n]) \in Slots /\ Passes(Start(map[n]), hole, n)
  <2>1. Start(map[n]) \in Slots
    BY <1>1, <1>2, StartIs
  <2> QED BY <1>1, <1>2, <1>3, <2>1, StaysIs
<1>5. TypeOK'
  BY <1>1, <1>2, <1>3 DEF IInv, TypeOK
<1>6. Distinct'
  <2>1. \A i \in Slots : map[i] = map[n] => i = n
    BY <1>1, <1>2 DEF IInv, Distinct
  <2>2. ASSUME NEW i \in Slots, NEW j \in Slots, map'[i] # NullTag, map'[i] = map'[j]
        PROVE  i = j
    <3>1. i # n /\ j # n
      BY <1>3, <2>2
    <3>2. CASE i = hole
      BY <1>1, <1>3, <2>1, <2>2, <3>1, <3>2
    <3>3. CASE j = hole
      BY <1>1, <1>3, <2>1, <2>2, <3>1, <3>3
    <3>4. CASE i # hole /\ j # hole
      BY <1>3, <2>2, <3>1, <3>4 DEF IInv, Distinct
    <3> QED BY <3>2, <3>3, <3>4
  <2> QED BY <2>2 DEF Distinct
<1>7. Unbroken'
  <2>1. ASSUME NEW i \in Slots, NEW j \in Slots, map'[i] # NullTag,
               Passes(Start(map'[i]), j, i), map'[j] = NullTag
        PROVE  j = n /\ Dist(n, n) < Dist(n, i)
    <3>1. i # n
      BY <1>3, <2>1
    <3>2. Dist(n, n) < Dist(n, i)
      BY <1>2, <3>1, FirstAfter
    <3>3. CASE i = hole
      <4>1. map'[i] = map[n]
        BY <1>2, <1>3, <3>1, <3>3
      <4>2. Passes(Start(map[n]), j, n) /\ j # hole /\ j # n
        BY <1>2, <1>4, <2>1, <3>3, <4>1, PassedThrough
      <4>3. map[j] # NullTag
        BY <1>1, <1>2, <4>2 DEF IInv, Unbroken
      <4> QED BY <1>3, <2>1, <4>2, <4>3
    <3>4. CASE i # hole /\ j # n
      <4>1. map'[i] = map[i] /\ j # hole /\ map'[j] = map[j]
        BY <1>1, <1>3, <2>1, <3>1, <3>4
      <4> QED BY <2>1, <4>1 DEF IInv, Unbroken
    <3> QED BY <3>2, <3>3, <3>4
  <2> QED BY <1>1, <2>1 DEF Unbroken, StillToClose
<1>8. InMap' = InMap
  <2>1. \A t : t \in InMap' <=> t # NullTag /\ \E i \in Slots : map'[i] = t
    BY DEF InMap
  <2>2. ASSUME NEW t, t \in InMap
        PROVE  t \in InMap'
    <3>1. PICK i \in Slots : map[i] = t /\ t # NullTag
      BY <2>2, InMapIs
    <3>2. CASE i = n
      BY <1>2, <1>3, <2>1, <3>1, <3>2
    <3>3. CASE i # n
      BY <1>2, <1>3, <2>1, <3>1, <3>3
    <3> QED BY <3>2, <3>3
  <2>3. ASSUME NEW t, t \in InMap'
        PROVE  t \in InMap
    <3>1. PICK i \in Slots : map'[i] = t /\ t # NullTag
      BY <2>1, <2>3
    <3> QED BY <1>2, <1>3, <3>1, InMapIs
  <2> QED BY <2>2, <2>3
<1>9. InRing' = InRing
  BY <1>1 DEF InRing
<1>10. InStep'
  BY <1>1, <1>8, <1>9 DEF IInv, InStep, Evicted
<1>11. FilledInOrder'
  BY <1>1 DEF IInv, FilledInOrder, FilledBy, Aged
<1>12. Probing' /\ Shifting' /\ Saved'
  BY <1>1, <1>2, <1>3 DEF Probing, Shifting, Saved
<1> QED BY <1>5, <1>6, <1>7, <1>8, <1>10, <1>11, <1>12 DEF IInv

\* An empty tcache: nothing that could be wrong.
LEMMA EmptyIs ==
  ASSUME ring' = Empty(0 .. Depth - 1), map' = Empty(Slots), oldest' = 0
  PROVE  /\ Distinct' /\ Unbroken' /\ InMap' = {} /\ FilledBy(0)'
         /\ FilledInOrder'
<1>1. /\ \A i \in Slots : map'[i] = NullTag
      /\ \A i \in 0 .. Depth - 1 : ring'[i] = NullTag
  BY DEF Empty
<1>2. Distinct' /\ Unbroken'
  BY <1>1 DEF Distinct, Unbroken
<1>3. InMap' = {}
  BY <1>1 DEF InMap
<1>4. ASSUME NEW i \in 1 .. Depth
      PROVE  Aged(i)' = NullTag /\ i <= Depth - 0
  <2>1. 0 \in 0 .. Depth - 1
    BY MapSize
  <2>2. (0 + i - 1) % Depth \in 0 .. Depth - 1
    BY <2>1, PlaceIs
  <2> QED BY <1>1, <2>2, MapSize DEF Aged
<1>5. FilledBy(0)'
  BY <1>4 DEF FilledBy
<1>6. 0 \in 0 .. Depth
  BY MapSize
<1> QED BY <1>2, <1>3, <1>5, <1>6 DEF FilledInOrder

LEMMA ResetStep ==
  ASSUME IInv, Reset
  PROVE  IInv' /\ InMap' = {} /\ FilledBy(0)'
<1>1. /\ pc = "idle" /\ pc' = "idle" /\ op' = "reset" /\ oldest' = 0
      /\ UNCHANGED <<oldestCell, tag, slot, hole>>
      /\ ring' = Empty(0 .. Depth - 1) /\ map' = Empty(Slots)
  BY DEF Reset, IInv, TypeOK
<1>2. TypeOK'
  BY <1>1, MapSize DEF IInv, TypeOK, Empty
<1>3. /\ Distinct' /\ Unbroken' /\ InMap' = {} /\ FilledBy(0)'
      /\ FilledInOrder'
  BY <1>1, EmptyIs
<1> QED BY <1>1, <1>2, <1>3 DEF IInv, Probing, Shifting, InStep, Saved

LEMMA LeaveStep ==
  ASSUME IInv, Leave
  PROVE  IInv'
<1>1. /\ pc = "idle" /\ pc' = "left" /\ oldestCell' = oldest
      /\ UNCHANGED <<ring, map, oldest, op, tag, slot, hole>>
  BY DEF Leave, callVars
<1>2. TypeOK'
  BY <1>1 DEF IInv, TypeOK
<1>3. InStep'
  BY <1>1, RingAndMapKept DEF IInv, InStep, Evicted
<1> QED BY <1>1, <1>2, <1>3, RingAndMapKept DEF IInv, Probing, Shifting, Saved

LEMMA RejoinStep ==
  ASSUME IInv, Rejoin
  PROVE  IInv' /\ UNCHANGED oldest
<1>1. /\ pc = "left" /\ pc' = "idle"
      /\ UNCHANGED <<ring, map, oldest, oldestCell, op, tag, slot, hole>>
  BY DEF Rejoin, callVars, IInv, Saved
<1>2. TypeOK'
  BY <1>1 DEF IInv, TypeOK
<1>3. InStep'
  BY <1>1, RingAndMapKept DEF IInv, InStep, Evicted
<1> QED BY <1>1, <1>2, <1>3, RingAndMapKept DEF IInv, Probing, Shifting, Saved

LEMMA InitInv == Init => IInv /\ InMap = {} /\ FilledBy(0)
<1> SUFFICES ASSUME Init PROVE IInv /\ InMap = {} /\ FilledBy(0)
  OBVIOUS
<1>1. TypeOK
  BY MapSize DEF Init, TypeOK, Empty, Slots
<1>2. /\ \A i \in Slots : map[i] = NullTag
      /\ \A i \in 0 .. Depth - 1 : ring[i] = NullTag
  BY DEF Init, Empty
<1>3. Distinct /\ Unbroken /\ InMap = {}
  BY <1>2 DEF Distinct, Unbroken, InMap
<1>4. FilledBy(0)
  <2>1. ASSUME NEW i \in 1 .. Depth
        PROVE  Aged(i) = NullTag /\ i <= Depth - 0
    <3>1. oldest = 0 /\ 0 \in 0 .. Depth - 1
      BY MapSize DEF Init
    <3>2. (0 + i - 1) % Depth \in 0 .. Depth - 1
      BY <3>1, PlaceIs
    <3> QED BY <1>2, <3>1, <3>2, MapSize DEF Aged
  <2> QED BY <2>1 DEF FilledBy
<1>5. FilledInOrder
  <2>1. 0 \in 0 .. Depth
    BY MapSize
  <2> QED BY <1>4, <2>1 DEF FilledInOrder
<1> QED
  BY <1>1, <1>3, <1>4, <1>5 DEF IInv, Init, Probing, Shifting, InStep, Saved

LEMMA NextInv == IInv /\ [Next]_vars => IInv'
<1> SUFFICES ASSUME IInv, [Next]_vars PROVE IInv'
  OBVIOUS
<1>1. CASE StartQuery \/ StartInsert \/ StartRemove
  <2>1. PICK o \in {"query", "insert", "remove"}, t \in Tags : Call(o, t)
    BY <1>1, MapSize DEF StartQuery, StartInsert, StartRemove
  <2> QED BY <2>1, CallStep
<1>2. CASE Calls
  <2>1. CASE ProbeNext
    BY <2>1, ProbeNextStep
  <2>2. CASE QueryDone
    <3>1. /\ pc = "probe" /\ pc' = "idle" /\ op = "query"
          /\ UNCHANGED <<ring, map, oldest, oldestCell, callVars>>
      BY <2>2 DEF QueryDone, Found, NotFound
    <3> QED BY <3>1, ReturnStep
  <2>3. CASE InsertDup
    <3>1. /\ pc = "probe" /\ pc' = "idle" /\ op = "insert"
          /\ UNCHANGED <<ring, map, oldest, oldestCell, callVars>>
      BY <2>3 DEF InsertDup, Found
    <3> QED BY <3>1, ReturnStep
  <2>4. CASE InsertNew
    BY <2>4, InsertNewStep
  <2>5. CASE RemoveMiss
    <3>1. /\ pc = "probe" /\ pc' = "idle" /\ map[slot] = NullTag
          /\ UNCHANGED <<ring, map, oldest, oldestCell, callVars>>
      BY <2>5 DEF RemoveMiss, NotFound
    <3>2. tag \notin InMap
      BY <3>1, ProbeTells
    <3> QED BY <3>1, <3>2, ReturnStep
  <2>6. CASE RemoveHit
    BY <2>6, RemoveHitStep
  <2>7. CASE ShiftDone
    BY <2>7, ShiftDoneStep
  <2>8. CASE ShiftOver
    BY <2>8, ShiftOverStep
  <2>9. CASE ShiftBack
    BY <2>9, ShiftBackStep
  <2> QED BY <1>2, <2>1, <2>2, <2>3, <2>4, <2>5, <2>6, <2>7, <2>8, <2>9 DEF Calls
<1>3. CASE Reset
  BY <1>3, ResetStep
<1>4. CASE Leave
  BY <1>4, LeaveStep
<1>5. CASE Rejoin
  BY <1>5, RejoinStep
<1>6. CASE UNCHANGED vars
  <2>1. UNCHANGED <<ring, map, oldest, oldestCell, op, tag, slot, hole, pc>>
    BY <1>6 DEF vars
  <2>2. TypeOK' /\ Unbroken' /\ Probing' /\ Shifting' /\ Saved'
    BY <2>1 DEF IInv, TypeOK, Unbroken, StillToClose, Probing, Shifting, Saved
  <2>3. InStep'
    BY <2>1, RingAndMapKept DEF IInv, InStep, Evicted
  <2> QED BY <2>1, <2>2, <2>3, RingAndMapKept DEF IInv
<1> QED BY <1>1, <1>2, <1>3, <1>4, <1>5, <1>6 DEF Next

LEMMA Inductive == Spec => []IInv
<1>1. Init => IInv
  BY InitInv
<1> QED BY <1>1, NextInv, PTL DEF Spec

-----------------------------------------------------------------------------
(* What the calls may rely on                                              *)

\* The state stays within its types (the words of the ring, the map and the
\* call under way).
THEOREM TypeCorrect == Spec => []TypeOK
<1>1. IInv => TypeOK
  BY DEF IInv
<1> QED BY <1>1, Inductive, PTL

\* What FD_TCACHE_QUERY concludes from an empty slot is right, however often
\* tags were inserted, evicted and removed before and wherever their chains
\* wrap around the map: no tag becomes invisible, none is in the map twice.
THEOREM ProbeIsRightHolds == Spec => []ProbeIsRight
<1>1. IInv => ProbeIsRight
  BY ProbeTells DEF ProbeIsRight
<1> QED BY <1>1, Inductive, PTL

\* As many entries as places in the ring, and one more while a tag is being
\* evicted: each entry has a place of its own there.
LEMMA EntriesFit ==
  ASSUME IInv
  PROVE  Entries \in Nat /\ Entries <= IF Evicted = {} THEN Depth ELSE Depth + 1
<1> DEFINE S == {i \in Slots : map[i] # NullTag}
           n == IF Evicted = {} THEN Depth - 1 ELSE Depth
           Place(i, k) == IF k < Depth THEN ring[k] = map[i] ELSE map[i] \in Evicted
           f == [i \in S |-> CHOOSE k \in 0 .. n : Place(i, k)]
<1>1. Depth \in Nat \ {0} /\ n \in Nat /\ n >= Depth - 1 /\ (Evicted # {} => n = Depth)
  BY MapSize
<1>2. ASSUME NEW i \in S
      PROVE  f[i] \in 0 .. n /\ Place(i, f[i])
  <2>1. \E k \in 0 .. n : Place(i, k)
    <3>1. map[i] \in InMap
      BY <1>2, InMapIs
    <3>2. CASE map[i] \in InRing
      <4>1. PICK k \in 0 .. Depth - 1 : ring[k] = map[i]
        BY <3>2, InRingIs DEF IInv
      <4>2. k \in 0 .. n /\ k < Depth
        BY <1>1, <4>1
      <4> QED BY <4>1, <4>2
    <3>3. CASE map[i] \in Evicted
      <4>1. Depth \in 0 .. n /\ ~(Depth < Depth)
        BY <1>1, <3>3
      <4> QED BY <3>3, <4>1
    <3> QED BY <3>1, <3>2, <3>3 DEF IInv, InStep
  <2> HIDE DEF Place
  <2> QED BY <2>1, Zenon
<1>3. ASSUME NEW i \in S, NEW j \in S, f[i] = f[j]
      PROVE  i = j
  <2>1. Place(i, f[i]) /\ Place(j, f[i])
    BY <1>2, <1>3
  <2> HIDE DEF f
  <2>2. map[i] = map[j]
    BY <2>1 DEF Evicted
  <2> QED BY <2>2 DEF IInv, Distinct
<1>4. f \in Injection(S, 0 .. n)
  <2>1. f \in [S -> 0 .. n]
    BY <1>2, Zenon
  <2> HIDE DEF f, S
  <2> QED BY <1>3, <2>1 DEF Injection, IsInjective
<1>5. IsFiniteSet(0 .. n) /\ Cardinality(0 .. n) = n + 1
  BY <1>1, FS_Interval, SMTT(30)
<1> HIDE DEF f
<1>6. IsFiniteSet(S) /\ Cardinality(S) <= n + 1
  <2> HIDE DEF S, n
  <2> QED BY <1>4, <1>5, FS_Injection
<1>7. Cardinality(S) \in Nat
  BY <1>6, FS_CardinalityType
<1> QED BY <1>1, <1>6, <1>7 DEF Entries

\* What the map has is in the ring, but for the tag that is being evicted, and
\* the map never fills up: a loop around it always finds an empty slot, with
\* removes at any time included.
THEOREM RoomLeftHolds == Spec => []RoomLeft
<1>1. ASSUME IInv PROVE RoomLeft
  <2>1. pc \in {"idle", "left"} => Evicted = {} /\ InMap \subseteq InRing
    BY <1>1 DEF IInv, InStep, Evicted
  <2>2. Entries \in Nat /\ Entries <= IF Evicted = {} THEN Depth ELSE Depth + 1
    BY <1>1, EntriesFit
  <2> QED BY <2>1, <2>2, MapSize DEF RoomLeft
<1> QED BY <1>1, Inductive, PTL

-----------------------------------------------------------------------------
(* Ring and map together are a dedup cache                                 *)

LEMMA RecentIs ==
  ASSUME NEW n \in 0 .. Depth, FilledBy(n)
  PROVE  RingInOrder = [i \in 1 .. n |-> Aged(Depth - n + i)]
BY FilledIs DEF RingInOrder

LEMMA RecentKept ==
  ASSUME UNCHANGED <<ring, oldest>>
  PROVE  RingInOrder' = RingInOrder
BY DEF RingInOrder, Filled, Aged

LEMMA RecentEmpty ==
  ASSUME FilledBy(0)
  PROVE  RingInOrder = <<>>
<1>1. 0 \in 0 .. Depth
  BY MapSize
<1>2. RingInOrder = [i \in 1 .. 0 |-> Aged(Depth - 0 + i)]
  BY <1>1, RecentIs
<1> QED BY <1>2

LEMMA PushIs ==
  ASSUME NEW n \in Nat \ {0}, NEW s, NEW t, s = [i \in 1 .. n |-> s[i]]
  PROVE  Append(Tail(s), t) = [i \in 1 .. n |-> IF i = n THEN t ELSE s[i + 1]]
<1>1. Len(s) = n
  OBVIOUS
<1>2. Tail(s) = [i \in 1 .. n - 1 |-> s[i + 1]]
  BY <1>1
<1> DEFINE r == [i \in 1 .. n - 1 |-> s[i + 1]]
<1>3. Len(r) = n - 1
  OBVIOUS
<1>4. Append(r, t) = [i \in 1 .. n |-> IF i = n THEN t ELSE r[i]]
  BY <1>3
<1> QED BY <1>2, <1>4

\* A new tag is the last; when there is no room the first goes.
LEMMA RecentNext ==
  ASSUME IInv, InsertNew
  PROVE  IF ring[oldest] = NullTag
         THEN /\ Len(RingInOrder) # Depth
              /\ RingInOrder' = Append(RingInOrder, tag)
         ELSE /\ Len(RingInOrder) = Depth /\ Head(RingInOrder) = ring[oldest]
              /\ RingInOrder' = Append(Tail(RingInOrder), tag)
<1>1. /\ TypeOK /\ tag \in Tags /\ ring' = [ring EXCEPT ![oldest] = tag]
      /\ oldest' = IF oldest + 1 >= Depth THEN 0 ELSE oldest + 1
  BY DEF InsertNew, NotFound, IInv, Probing
<1>2. /\ Aged(1) = ring[oldest] /\ Aged(Depth)' = tag
      /\ \A i \in 1 .. Depth - 1 : Aged(i)' = Aged(i + 1)
  BY <1>1, AgedNext
<1>3. PICK n \in 0 .. Depth : FilledBy(n)
  BY DEF IInv, FilledInOrder
<1> DEFINE m == IF n = Depth THEN Depth ELSE n + 1
<1>4. m \in 0 .. Depth /\ FilledBy(m)' /\ Depth \in Nat \ {0}
  BY <1>1, <1>2, <1>3, FilledNext, MapSize
<1>5. RingInOrder = [i \in 1 .. n |-> Aged(Depth - n + i)]
  BY <1>3, RecentIs
<1>6. RingInOrder' = [i \in 1 .. m |-> Aged(Depth - m + i)']
  <2> HIDE DEF m
  <2>1. Filled' = m
    BY <1>4, FilledIs
  <2> QED BY <2>1 DEF RingInOrder
<1>7. ring[oldest] = NullTag <=> n # Depth
  BY <1>2, <1>3, <1>4 DEF FilledBy
<1> HIDE DEF m
<1>8. CASE n # Depth
  <2>1. m = n + 1 /\ n < Depth
    BY <1>4, <1>8 DEF m
  <2>2. Len(RingInOrder) = n
    BY <1>5
  <2>3. RingInOrder' = Append(RingInOrder, tag)
    <3>1. ASSUME NEW i \in 1 .. n
          PROVE  Aged(Depth - m + i)' = Aged(Depth - n + i)
      <4>1. Depth - m + i \in 1 .. Depth - 1 /\ Depth - m + i + 1 = Depth - n + i
        BY <1>4, <2>1
      <4> QED BY <1>2, <4>1
    <3>2. Depth - m + (n + 1) = Depth
      BY <1>4, <2>1
    <3>3. /\ \A i \in 1 .. n : RingInOrder'[i] = RingInOrder[i]
          /\ RingInOrder'[n + 1] = tag
      BY <1>2, <1>5, <1>6, <2>1, <3>1, <3>2
    <3>4. /\ RingInOrder' = [i \in 1 .. n + 1 |-> RingInOrder'[i]]
          /\ Append(RingInOrder, tag) =
               [i \in 1 .. n + 1 |-> IF i = n + 1 THEN tag ELSE RingInOrder[i]]
      BY <1>5, <1>6, <2>1, <2>2
    <3> QED BY <3>3, <3>4
  <2> QED BY <1>7, <1>8, <2>1, <2>2, <2>3
<1>9. CASE n = Depth
  <2>1. m = Depth
    BY <1>9 DEF m
  <2>2. Len(RingInOrder) = Depth /\ Head(RingInOrder) = ring[oldest]
    BY <1>2, <1>4, <1>5, <1>9
  <2>3. RingInOrder' = Append(Tail(RingInOrder), tag)
    <3>1. \A i \in 1 .. Depth : RingInOrder[i] = Aged(i)
      BY <1>4, <1>5, <1>9
    <3>2. \A i \in 1 .. Depth : RingInOrder'[i] = Aged(i)'
      BY <1>4, <1>6, <2>1
    <3>3. /\ \A i \in 1 .. Depth - 1 : RingInOrder'[i] = RingInOrder[i + 1]
          /\ RingInOrder'[Depth] = tag
      BY <1>2, <1>4, <3>1, <3>2
    <3>4. RingInOrder' = [i \in 1 .. Depth |-> RingInOrder'[i]]
      BY <1>6, <2>1
    <3>5. Append(Tail(RingInOrder), tag) =
            [i \in 1 .. Depth |-> IF i = Depth THEN tag ELSE RingInOrder[i + 1]]
      BY <1>4, <1>5, <1>9, <2>2, PushIs
    <3> QED BY <1>4, <3>3, <3>4, <3>5
  <2> QED BY <1>7, <1>9, <2>2, <2>3
<1> QED BY <1>8, <1>9

\* Unless a tag is being evicted, what is present is what the map has.
LEMMA PresentIs ==
  /\ ~(pc = "probe" /\ op = "evict") => Present = InMap
  /\ pc = "probe" /\ op = "evict" => Present = InMap \ {tag}
BY DEF Present

LEMMA PresentNextIs ==
  /\ ~(pc' = "probe" /\ op' = "evict") => Present' = InMap'
  /\ pc' = "probe" /\ op' = "evict" => Present' = InMap' \ {tag'}
BY DEF Present

LEMMA StutterIs ==
  ASSUME RingInOrder' = RingInOrder, Present' = Present, answer' = answer
  PROVE  UNCHANGED Abstract!vars
BY DEF Abstract!vars

LEMMA QueryImplements ==
  ASSUME IInv, QueryDone
  PROVE  tag \in Tags /\ Abstract!Query(tag)
<1>1. /\ pc = "probe" /\ op = "query" /\ pc' = "idle"
      /\ map[slot] = tag \/ map[slot] = NullTag
      /\ answer' = <<tag, map[slot] = tag>> /\ UNCHANGED <<ring, map, oldest>>
  BY DEF QueryDone, Found, NotFound
<1>2. tag \in Tags /\ tag # NullTag /\ slot \in Slots
  BY <1>1, MapSize DEF IInv, Probing, TypeOK
<1>3. InMap' = InMap /\ RingInOrder' = RingInOrder
  BY <1>1, RecentKept, RingAndMapKept
<1>4. Present = InMap /\ Present' = InMap
  BY <1>1, <1>3, PresentIs, PresentNextIs
<1>5. (map[slot] = tag) = (tag \in InMap)
  <2>1. CASE map[slot] = tag
    BY <1>2, <2>1, InMapIs
  <2>2. CASE map[slot] = NullTag
    BY <1>1, <1>2, <2>2, ProbeTells
  <2> QED BY <1>1, <2>1, <2>2
<1> QED BY <1>1, <1>2, <1>3, <1>4, <1>5 DEF Abstract!Query

LEMMA InsertDupImplements ==
  ASSUME IInv, InsertDup
  PROVE  tag \in Tags /\ Abstract!InsertDup(tag)
<1>1. /\ pc = "probe" /\ op = "insert" /\ pc' = "idle" /\ map[slot] = tag
      /\ answer' = <<tag, TRUE>> /\ UNCHANGED <<ring, map, oldest>>
  BY DEF InsertDup, Found
<1>2. tag \in Tags /\ tag # NullTag /\ slot \in Slots
  BY <1>1, MapSize DEF IInv, Probing, TypeOK
<1>3. InMap' = InMap /\ RingInOrder' = RingInOrder
  BY <1>1, RecentKept, RingAndMapKept
<1>4. Present = InMap /\ Present' = InMap
  BY <1>1, <1>3, PresentIs, PresentNextIs
<1> QED BY <1>1, <1>2, <1>3, <1>4, InMapIs DEF Abstract!InsertDup

LEMMA InsertNewImplements ==
  ASSUME IInv, InsertNew
  PROVE  tag \in Tags /\ Abstract!InsertNew(tag)
<1>1. /\ pc = "probe" /\ op = "insert" /\ map[slot] = NullTag
      /\ map' = [map EXCEPT ![slot] = tag] /\ answer' = <<tag, FALSE>>
  BY DEF InsertNew, NotFound
<1>2. /\ tag \in Tags /\ tag # NullTag /\ slot \in Slots
      /\ map \in [Slots -> Tags \cup {NullTag}]
  BY <1>1, MapSize DEF IInv, Probing, TypeOK
<1>3. tag \notin InMap /\ Present = InMap
  BY <1>1, ProbeTells, PresentIs
<1>4. InMap' = InMap \cup {tag}
  <2>1. \A i \in Slots : map'[i] = IF i = slot THEN tag ELSE map[i]
    BY <1>1, <1>2
  <2>2. \A t : t \in InMap' <=> t # NullTag /\ \E i \in Slots : map'[i] = t
    BY DEF InMap
  <2>3. ASSUME NEW t
        PROVE  t \in InMap' <=> t \in InMap \cup {tag}
    BY <1>1, <1>2, <2>1, <2>2, InMapIs
  <2> QED BY <2>3
<1>5. CASE ring[oldest] = NullTag
  <2>1. pc' = "idle"
    BY <1>5 DEF InsertNew
  <2>2. Present' = Present \cup {tag}
    BY <1>3, <1>4, <2>1, PresentNextIs
  <2>3. /\ Len(RingInOrder) # Depth
        /\ RingInOrder' = Append(RingInOrder, tag)
    BY <1>5, RecentNext
  <2> QED BY <1>1, <1>2, <1>3, <2>2, <2>3 DEF Abstract!InsertNew
<1>6. CASE ring[oldest] # NullTag
  <2>1. pc' = "probe" /\ op' = "evict" /\ tag' = ring[oldest]
    BY <1>6 DEF InsertNew
  <2>2. Present' = (Present \cup {tag}) \ {ring[oldest]}
    BY <1>3, <1>4, <2>1, PresentNextIs
  <2>3. /\ Len(RingInOrder) = Depth /\ Head(RingInOrder) = ring[oldest]
        /\ RingInOrder' = Append(Tail(RingInOrder), tag)
    BY <1>6, RecentNext
  <2> QED BY <1>1, <1>2, <1>3, <2>2, <2>3 DEF Abstract!InsertNew
<1> QED BY <1>5, <1>6

\* A remove of the user's takes the tag out; that of an insert only does what
\* has been done already.
LEMMA RemoveHitImplements ==
  ASSUME IInv, RemoveHit
  PROVE  tag \in Tags /\ (Abstract!Remove(tag) \/ UNCHANGED Abstract!vars)
<1>1. /\ pc = "probe" /\ op \in {"evict", "remove"} /\ pc' = "shift"
      /\ UNCHANGED <<ring, oldest, op, tag, answer>> /\ tag \in Tags
  BY DEF RemoveHit, Found, IInv, Probing
<1>2. InMap' = InMap \ {tag} /\ RingInOrder' = RingInOrder
  BY <1>1, RemoveHitStep, RecentKept
<1>3. Present' = InMap \ {tag}
  BY <1>1, <1>2, PresentNextIs
<1>4. CASE op = "remove"
  <2>1. Present = InMap
    BY <1>4, PresentIs
  <2> QED BY <1>1, <1>2, <1>3, <2>1 DEF Abstract!Remove
<1>5. CASE op = "evict"
  <2>1. Present = InMap \ {tag}
    BY <1>1, <1>5, PresentIs
  <2> QED BY <1>1, <1>2, <1>3, <2>1, StutterIs
<1> QED BY <1>1, <1>4, <1>5

\* The rest of a call, a leave and a rejoin do not show.
LEMMA Hidden ==
  ASSUME IInv,
         \/ StartQuery \/ StartInsert \/ StartRemove \/ ProbeNext \/ RemoveMiss
         \/ ShiftDone \/ ShiftOver \/ ShiftBack \/ Leave \/ Rejoin
         \/ UNCHANGED vars
  PROVE  UNCHANGED Abstract!vars
<1>1. UNCHANGED <<ring, answer>>
  BY DEF StartQuery, StartInsert, StartRemove, Call, ProbeNext, RemoveMiss,
         ShiftDone, ShiftOver, ShiftBack, Leave, Rejoin, vars
<1>2. UNCHANGED oldest
  <2>1. CASE Rejoin
    BY <2>1, RejoinStep
  <2> QED BY <2>1 DEF StartQuery, StartInsert, StartRemove, Call, ProbeNext,
         RemoveMiss, ShiftDone, ShiftOver, ShiftBack, Leave, vars
<1>3. RingInOrder' = RingInOrder
  BY <1>1, <1>2, RecentKept
<1>4. InMap' = InMap
  <2>1. CASE ShiftBack
    BY <2>1, ShiftBackStep
  <2>2. CASE ~ShiftBack
    <3>1. UNCHANGED map
      BY <2>2 DEF StartQuery, StartInsert, StartRemove, Call, ProbeNext,
         RemoveMiss, ShiftDone, ShiftOver, Leave, Rejoin, vars
    <3> QED BY <3>1 DEF InMap
  <2> QED BY <2>1, <2>2
<1>5. Present' = Present
  <2>1. CASE RemoveMiss
    <3>1. pc = "probe" /\ map[slot] = NullTag /\ pc' = "idle"
      BY <2>1 DEF RemoveMiss, NotFound
    <3>2. tag \notin InMap
      BY <3>1, ProbeTells
    <3> QED BY <1>4, <3>1, <3>2, PresentIs, PresentNextIs
  <2>2. CASE ProbeNext \/ UNCHANGED vars
    BY <1>4, <2>2 DEF ProbeNext, vars, Present
  <2>3. CASE StartQuery \/ StartInsert \/ StartRemove
    <3>1. pc = "idle" /\ op' # "evict"
      BY <2>3 DEF StartQuery, StartInsert, StartRemove, Call
    <3> QED BY <1>4, <3>1, PresentIs, PresentNextIs
  <2>4. CASE ShiftDone \/ ShiftOver \/ ShiftBack \/ Leave \/ Rejoin
    <3>1. pc # "probe" /\ pc' # "probe"
      BY <2>4 DEF ShiftDone, ShiftOver, ShiftBack, Leave, Rejoin
    <3> QED BY <1>4, <3>1, PresentIs, PresentNextIs
  <2> QED BY <2>1, <2>2, <2>3, <2>4
<1> QED BY <1>1, <1>3, <1>5, StutterIs

LEMMA ResetImplements ==
  ASSUME IInv, Reset
  PROVE  Abstract!Reset
<1>1. InMap' = {} /\ FilledBy(0)' /\ pc' = "idle" /\ answer' = answer
  BY ResetStep DEF Reset
<1>2. RingInOrder' = <<>>
  <2>1. Filled' = 0
    BY <1>1, FilledIs, MapSize
  <2>2. RingInOrder' = [i \in 1 .. 0 |-> Aged(Depth - 0 + i)']
    BY <2>1 DEF RingInOrder
  <2> QED BY <2>2
<1>3. Present' = {}
  BY <1>1, PresentNextIs
<1> QED BY <1>1, <1>2, <1>3 DEF Abstract!Reset

\* A tcache remembers the Depth most recent unique tags, less those that were
\* removed, and answers every query and insert accordingly: every step of
\* FD_TCACHE_QUERY, FD_TCACHE_INSERT, fd_tcache_remove, fd_tcache_reset and of
\* a shutdown and restart is a step of DedupCache or does not show.
THEOREM ImplementsDedupCacheHolds == Spec => ImplementsDedupCache
<1>1. Init => Abstract!Init
  <2> SUFFICES ASSUME Init PROVE Abstract!Init
    OBVIOUS
  <2>1. InMap = {} /\ FilledBy(0) /\ pc = "idle" /\ answer = <<>>
    BY InitInv DEF Init
  <2>2. RingInOrder = <<>> /\ Present = {}
    BY <2>1, RecentEmpty, PresentIs
  <2> QED BY <2>1, <2>2 DEF Abstract!Init
<1>2. IInv /\ [Next]_vars => [Abstract!Next]_(Abstract!vars)
  <2> SUFFICES ASSUME IInv, [Next]_vars
               PROVE  [Abstract!Next]_(Abstract!vars)
    OBVIOUS
  <2>1. CASE QueryDone
    BY <2>1, QueryImplements DEF Abstract!Next
  <2>2. CASE InsertDup
    BY <2>2, InsertDupImplements DEF Abstract!Next
  <2>3. CASE InsertNew
    BY <2>3, InsertNewImplements DEF Abstract!Next
  <2>4. CASE RemoveHit
    BY <2>4, RemoveHitImplements DEF Abstract!Next
  <2>5. CASE Reset
    BY <2>5, ResetImplements DEF Abstract!Next
  <2>6. CASE \/ StartQuery \/ StartInsert \/ StartRemove \/ ProbeNext
             \/ RemoveMiss \/ ShiftDone \/ ShiftOver \/ ShiftBack \/ Leave
             \/ Rejoin \/ UNCHANGED vars
    BY <2>6, Hidden
  <2> QED BY <2>1, <2>2, <2>3, <2>4, <2>5, <2>6 DEF Next, Calls
<1> QED BY <1>1, <1>2, Inductive, PTL DEF Spec, ImplementsDedupCache, Abstract!Spec
=============================================================================
