--------------------------- MODULE Mcache_proofs ---------------------------
(***************************************************************************)
(* Proofs about Mcache, for every depth, block size, interleaving, number  *)
(* of consumers and bound on the publishes that McacheAssumption allows:   *)
(* line indices, types, the inductive invariant IInv and what follows from *)
(* it; then RInv, which also says what every line holds, with the queries, *)
(* the overrun metadata of the AVX wait and the refinement of FragStream.  *)
(***************************************************************************)
EXTENDS Mcache, ModularLemmas

-----------------------------------------------------------------------------
(* Sequence numbers: between numbers less than SeqHalf apart the residues   *)
(* decide.                                                                 *)

LEMMA SeqModNat ==
  ASSUME SeqHalf \in Nat \ {0}
  PROVE  SeqMod \in Nat \ {0} /\ SeqMod = 2 * SeqHalf
BY DEF SeqMod

\* Sequence numbers less than SeqHalf apart are equal as ulongs only if they
\* are equal.
LEMMA SeqEqIs ==
  ASSUME SeqHalf \in Nat \ {0},
         NEW a \in Int, NEW b \in Int, a - b < SeqHalf, b - a < SeqHalf
  PROVE  SeqEq(a, b) <=> a = b
<1>1. a - b < SeqMod /\ b - a < SeqMod
  BY SeqModNat
<1> QED BY <1>1, SeqModNat, ModEqual DEF SeqEq

\* fd_seq_diff is the difference for numbers less than SeqHalf apart.
LEMMA SeqDiffIs ==
  ASSUME SeqHalf \in Nat \ {0},
         NEW a \in Int, NEW b \in Int, a - b < SeqHalf, b - a <= SeqHalf
  PROVE  SeqDiff(a, b) = a - b
<1> DEFINE r == a - b + SeqHalf
<1>1. r \in 0 .. SeqMod - 1
  BY SeqModNat
<1> HIDE DEF r
<1>2. SeqMod * 0 + r = r
  BY <1>1, SeqModNat
<1>3. r % SeqMod = r
  BY <1>1, <1>2, SeqModNat, DivModOf
<1>4. r - SeqHalf = a - b
  BY SeqModNat DEF r
<1> QED BY <1>3, <1>4 DEF SeqDiff, r

-----------------------------------------------------------------------------
(* Line indices: the rotation of the low bits maps any Depth consecutive    *)
(* sequence numbers to the Depth lines, one to one.                         *)

Stride == Block \div Interleave   \* how many frags share a bank
Pages == Depth \div Block

LEMMA Sizes ==
  /\ Block \in Nat \ {0} /\ Interleave \in Nat \ {0} /\ Stride \in Nat \ {0}
  /\ Pages \in Nat \ {0} /\ Depth \in Nat \ {0} /\ Depth > 1
  /\ Block = Interleave * Stride /\ Block = Stride * Interleave
  /\ Depth = Block * Pages
<1>1. /\ Block \in Nat \ {0} /\ Interleave \in Nat \ {0}
      /\ Depth \in Nat \ {0} /\ Depth > 1
      /\ Block % Interleave = 0 /\ Depth % Block = 0
  BY McacheAssumption
<1>2. Block = Interleave * Stride /\ Stride \in Nat \ {0}
  BY <1>1, Quotient DEF Stride
<1>3. Depth = Block * Pages /\ Pages \in Nat \ {0}
  BY <1>1, Quotient DEF Pages
<1>4. Interleave * Stride = Stride * Interleave
  BY <1>1, <1>2
<1> QED BY <1>1, <1>2, <1>3, <1>4

\* A sequence number's place in the mcache: page p, then row q of Stride.
Place(p, q, r) == Block * p + (Stride * q + r)

\* The line of that place: within the page, rows and columns are swapped.
Line(p, q, r) == Block * p + (Interleave * r + q)

Pp == 0 .. Pages - 1
Qq == 0 .. Interleave - 1
Rr == 0 .. Stride - 1

LEMMA InPage ==
  ASSUME NEW q \in Qq, NEW r \in Rr
  PROVE  /\ Stride * q + r \in 0 .. Block - 1
         /\ Interleave * r + q \in 0 .. Block - 1
<1>1. Stride * q + r \in 0 .. Stride * Interleave - 1
  BY Sizes, Cell DEF Qq, Rr
<1>2. Interleave * r + q \in 0 .. Interleave * Stride - 1
  BY Sizes, Cell DEF Qq, Rr
<1> QED BY <1>1, <1>2, Sizes

\* The line number of a place.
LEMMA LineIdxForm ==
  ASSUME NEW seq \in Int, NEW p \in Pp, NEW q \in Qq, NEW r \in Rr,
         seq % Depth = Place(p, q, r)
  PROVE  LineIdx(seq) = Line(p, q, r)
<1> DEFINE off == Stride * q + r
           w == Interleave * r + q
<1>1. off \in 0 .. Block - 1 /\ w \in 0 .. Block - 1
  BY InPage
<1>2. seq % Block = off
  <2>1. (seq % Depth) % Block = seq % Block
    <3>1. (seq % (Block * Pages)) % Block = seq % Block
      BY Sizes, ModMod
    <3> QED BY <3>1, Sizes
  <2> HIDE DEF off
  <2>2. p \in Int
    BY Sizes DEF Pp
  <2>3. (Block * p + off) % Block = off
    BY <1>1, <2>2, Sizes, DivModOf
  <2>4. seq % Depth = Block * p + off
    BY DEF Place, off
  <2> QED BY <2>1, <2>3, <2>4
<1>3. off \div Stride = q
  <2>1. q \in Int /\ r \in 0 .. Stride - 1 /\ Stride \in Nat \ {0}
    BY Sizes DEF Qq, Rr
  <2> QED BY <2>1, DivModOf
<1>4. (off * Interleave) % Block = Interleave * r
  <2>1. off * Interleave = Block * q + Interleave * r
    <3>1. off * Interleave = (Stride * Interleave) * q + Interleave * r
      BY Sizes DEF Qq, Rr
    <3> QED BY <3>1, Sizes
  <2>2. Interleave * r \in 0 .. Block - 1
    <3>1. 0 \in Qq
      BY Sizes DEF Qq
    <3>2. Interleave * r + 0 \in 0 .. Block - 1
      BY <3>1, InPage
    <3> QED BY <3>2, Sizes DEF Rr
  <2> HIDE DEF off
  <2> QED BY <2>1, <2>2, Sizes, DivModOf DEF Qq
<1>5. /\ off \in Int /\ Block * p \in Int /\ Interleave * r \in Int
      /\ q \in Int
  BY <1>1, Sizes DEF Pp, Qq, Rr
<1>6. seq % Depth = Block * p + off
  BY DEF Place
<1> HIDE DEF off
<1>7. LineIdx(seq) = ((Block * p + off) - off) + Interleave * r + q
  BY <1>2, <1>3, <1>4, <1>6 DEF LineIdx, Stride
<1> QED BY <1>5, <1>7 DEF Line

\* Every remainder has a place ...
LEMMA PlaceOf ==
  ASSUME NEW x \in 0 .. Depth - 1
  PROVE  \E p \in Pp, q \in Qq, r \in Rr : x = Place(p, q, r)
<1> DEFINE p == x \div Block
           off == x % Block
           q == off \div Stride
           r == off % Stride
<1>1. x = Block * p + off /\ off \in 0 .. Block - 1 /\ p \in Pp
  BY Sizes, RowColumn DEF Pp
<1> HIDE DEF p, off
<1>2. off = Stride * q + r /\ q \in Qq /\ r \in Rr
  BY <1>1, Sizes, RowColumn DEF Qq, Rr
<1> QED BY <1>1, <1>2 DEF Place

\* ... and every line is that of a place.
LEMMA LineOf ==
  ASSUME NEW i \in Lines
  PROVE  \E p \in Pp, q \in Qq, r \in Rr : i = Line(p, q, r)
<1> DEFINE p == i \div Block
           w == i % Block
           r == w \div Interleave
           q == w % Interleave
<1>1. i = Block * p + w /\ w \in 0 .. Block - 1 /\ p \in Pp
  BY Sizes, RowColumn DEF Pp, Lines
<1> HIDE DEF p, w
<1>2. w = Interleave * r + q /\ q \in Qq /\ r \in Rr
  BY <1>1, Sizes, RowColumn DEF Qq, Rr
<1> QED BY <1>1, <1>2 DEF Line

LEMMA LineIdxPlace ==
  ASSUME NEW seq \in Int
  PROVE  \E p \in Pp, q \in Qq, r \in Rr :
           seq % Depth = Place(p, q, r) /\ LineIdx(seq) = Line(p, q, r)
<1>1. seq % Depth \in 0 .. Depth - 1
  BY Sizes, DivMod
<1> QED BY <1>1, PlaceOf, LineIdxForm

LEMMA LineIdxRange ==
  ASSUME NEW seq \in Int
  PROVE  LineIdx(seq) \in Lines
<1>1. PICK p \in Pp, q \in Qq, r \in Rr : LineIdx(seq) = Line(p, q, r)
  BY LineIdxPlace
<1>2. Interleave * r + q \in 0 .. Block - 1
  BY InPage
<1>3. Block * p + (Interleave * r + q) \in 0 .. Block * Pages - 1
  BY <1>2, Sizes, Cell DEF Pp
<1> QED BY <1>1, <1>3, Sizes DEF Line, Lines

\* Two of any Depth consecutive sequence numbers have different lines.
LEMMA LineIdxInjective ==
  ASSUME NEW a \in Int, NEW b \in Int,
         LineIdx(a) = LineIdx(b), a - b < Depth, b - a < Depth
  PROVE  a = b
<1>1. PICK pa \in Pp, qa \in Qq, ra \in Rr :
        a % Depth = Place(pa, qa, ra) /\ LineIdx(a) = Line(pa, qa, ra)
  BY LineIdxPlace
<1>2. PICK pb \in Pp, qb \in Qq, rb \in Rr :
        b % Depth = Place(pb, qb, rb) /\ LineIdx(b) = Line(pb, qb, rb)
  BY LineIdxPlace
<1> DEFINE wa == Interleave * ra + qa
           wb == Interleave * rb + qb
<1>3. wa \in 0 .. Block - 1 /\ wb \in 0 .. Block - 1
  BY InPage
<1>4. Block * pa + wa = Block * pb + wb
  BY <1>1, <1>2 DEF Line
<1>5. pa = pb /\ wa = wb
  <2> HIDE DEF wa, wb
  <2> QED BY <1>3, <1>4, Sizes, DivUnique DEF Pp
<1>6. ra = rb /\ qa = qb
  BY <1>5, Sizes, DivUnique DEF Qq, Rr
<1>7. a % Depth = b % Depth
  BY <1>1, <1>2, <1>5, <1>6
<1> QED BY <1>7, Sizes, ModEqual

\* Any Depth consecutive sequence numbers cover the lines.
LEMMA LineIdxOnto ==
  ASSUME NEW i \in Lines, NEW n0 \in Int
  PROVE  \E n \in n0 .. n0 + Depth - 1 : LineIdx(n) = i
<1>1. PICK p \in Pp, q \in Qq, r \in Rr : i = Line(p, q, r)
  BY LineOf
<1> DEFINE x == Place(p, q, r)
           d == (x - n0) % Depth
           n == n0 + d
<1>2. x \in 0 .. Depth - 1
  <2>1. Block * p + (Stride * q + r) \in 0 .. Block * Pages - 1
    BY InPage, Sizes, Cell DEF Pp
  <2> QED BY <2>1, Sizes DEF Place
<1> HIDE DEF x
<1>3. d \in 0 .. Depth - 1
  BY <1>2, Sizes, DivMod
<1>4. n % Depth = x
  <2> DEFINE k == (x - n0) \div Depth
           y == x - n0
  <2>1. y \in Int
    BY <1>2, Sizes
  <2> HIDE DEF y
  <2>2. y = Depth * (y \div Depth) + (y % Depth) /\ y \div Depth \in Int
    BY <2>1, Sizes, DivMod
  <2>3. x - n0 = Depth * k + d /\ k \in Int
    BY <2>2 DEF y
  <2> HIDE DEF k, d
  <2>4. n0 + d = Depth * (0 - k) + x /\ 0 - k \in Int
    BY <1>2, <1>3, <2>3, Sizes
  <2>5. (Depth * (0 - k) + x) % Depth = x
    BY <1>2, <2>4, Sizes, DivModOf
  <2> QED BY <2>4, <2>5
<1> HIDE DEF d
<1>5. n \in Int /\ n \in n0 .. n0 + Depth - 1
  BY <1>3, Sizes
<1>6. LineIdx(n) = i
  BY <1>1, <1>4, <1>5, LineIdxForm DEF x
<1> QED BY <1>5, <1>6

-----------------------------------------------------------------------------
(* Type correctness *)

\* What fd_mcache_new stores.
LEMMA InitLine ==
  ASSUME Init, NEW i \in Lines
  PROVE  \E n \in Seq0 - Depth .. Seq0 - 1 :
           LineIdx(n) = i /\ line[i] = [seq |-> n - 1, body |-> Meta(Seq0 - 1 - Depth)]
<1> DEFINE n == CHOOSE n \in Seq0 - Depth .. Seq0 - 1 : LineIdx(n) = i
<1>1. Seq0 \in Nat /\ Depth \in Nat
  BY McacheAssumption
<1>2. \E m \in Seq0 - Depth .. (Seq0 - Depth) + Depth - 1 : LineIdx(m) = i
  BY <1>1, LineIdxOnto
<1>3. \E m \in Seq0 - Depth .. Seq0 - 1 : LineIdx(m) = i
  BY <1>1, <1>2
<1>4. n \in Seq0 - Depth .. Seq0 - 1 /\ LineIdx(n) = i
  BY <1>3
<1>5. line[i] = [seq |-> n - 1, body |-> Meta(Seq0 - 1 - Depth)]
  BY DEF Init
<1> HIDE DEF n
<1> QED BY <1>4, <1>5

LEMMA InitType == Init => TypeOK
<1> SUFFICES ASSUME Init PROVE TypeOK
  OBVIOUS
<1>1. Seq0 \in Nat /\ Depth \in Nat /\ PollMax \in Nat \ {0}
  BY McacheAssumption
<1>2. line \in [Lines -> [seq : Int, body : [Fields -> Int]]]
  <2>1. ASSUME NEW i \in Lines
        PROVE  line[i] \in [seq : Int, body : [Fields -> Int]]
    <3>1. PICK n \in Seq0 - Depth .. Seq0 - 1 :
            line[i] = [seq |-> n - 1, body |-> Meta(Seq0 - 1 - Depth)]
      BY InitLine
    <3> QED BY <1>1, <3>1 DEF Meta
  <2>2. DOMAIN line = Lines /\ line = [i \in Lines |-> line[i]]
    BY DEF Init
  <2> HIDE DEF Init
  <2> QED BY <2>1, <2>2
<1>3. /\ seqCell \in Nat /\ tx \in Nat
      /\ pubKind \in {"plain", "sse", "avx"} /\ pubTodo \in SUBSET Fields
      /\ ppc \in {"idle", "body", "down"}
  BY <1>1 DEF Init
<1>4. /\ rx \in [Consumers -> Int] /\ poll \in [Consumers -> 1 .. PollMax]
      /\ found \in [Consumers -> Int] /\ todo \in [Consumers -> SUBSET Fields]
      /\ kind \in [Consumers -> {"plain", "sse", "avx"}]
      /\ cpc \in [Consumers -> {"off", "poll", "copy", "spec", "recover"}]
  BY <1>1 DEF Init
<1>5. /\ copy \in [Consumers -> [Fields -> Int]]
      /\ got \in [Consumers -> [Fields -> Int]]
  BY <1>1 DEF Init, Meta
<1> QED BY <1>2, <1>3, <1>4, <1>5 DEF TypeOK

\* The value at a line index, once typed.
LEMMA LineType ==
  ASSUME TypeOK, NEW seq \in Int
  PROVE  /\ LineIdx(seq) \in Lines
         /\ line[LineIdx(seq)].seq \in Int /\ Query(seq) \in Int
         /\ line[LineIdx(seq)].body \in [Fields -> Int]
BY LineIdxRange DEF TypeOK, Query

LEMMA TypeStep == TypeOK /\ [Next]_vars => TypeOK'
<1> SUFFICES ASSUME TypeOK, [Next]_vars PROVE TypeOK'
  OBVIOUS
<1> USE DEF TypeOK
<1>0. /\ SseFields \subseteq Fields /\ Seq0 \in Nat /\ PollMax \in Nat \ {0}
      /\ tx \in Int
  BY McacheAssumption
<1>t. /\ LineIdx(tx) \in Lines
      /\ \A c \in Consumers : /\ LineIdx(rx[c]) \in Lines
                              /\ Query(rx[c]) \in Int
                              /\ line[LineIdx(rx[c])].body \in [Fields -> Int]
  BY <1>0, LineType
<1>1. ASSUME NEW k, NEW first \in SUBSET Fields, Mark(k, first),
             k \in {"plain", "sse"}
      PROVE  TypeOK'
  BY <1>1, <1>0, <1>t DEF Mark, Stored, consumerVars
<1>2. CASE PublishBody
  <2>1. PICK fs \in Accesses(pubKind, pubTodo) :
          /\ line' = [line EXCEPT ![LineIdx(tx)].body = Stored(@, fs, tx)]
          /\ pubTodo' = pubTodo \ fs
    BY <1>2 DEF PublishBody
  <2>2. Stored(line[LineIdx(tx)].body, fs, tx) \in [Fields -> Int]
    BY <1>0, <1>t DEF Stored
  <2>3. line' \in [Lines -> [seq : Int, body : [Fields -> Int]]]
    BY <2>1, <2>2, <1>t, ZenonT(30)
  <2>4. pubTodo' \in SUBSET Fields
    BY <2>1
  <2> QED BY <1>2, <2>3, <2>4 DEF PublishBody, consumerVars
<1>3. CASE PublishSeq
  <2>1. line' \in [Lines -> [seq : Int, body : [Fields -> Int]]]
    BY <1>3, <1>0, <1>t, ZenonT(30) DEF PublishSeq
  <2>2. tx' \in Nat /\ ppc' \in {"idle", "body", "down"}
    BY <1>3 DEF PublishSeq
  <2>3. UNCHANGED <<seqCell, pubKind, pubTodo, consumerVars>>
    BY <1>3 DEF PublishSeq
  <2> QED BY <2>1, <2>2, <2>3 DEF consumerVars
<1>4. CASE PublishAvx
  BY <1>4, <1>0, <1>t DEF PublishAvx, Meta, consumerVars
<1>5. CASE SeqUpdate \/ Shutdown \/ Restart
  BY <1>5 DEF SeqUpdate, Shutdown, Restart, consumerVars
<1>6. ASSUME NEW c \in Consumers, Join(c) PROVE TypeOK'
  BY <1>6 DEF Join, producerVars
<1>7. ASSUME NEW c \in Consumers, NEW k \in {"plain", "sse", "avx"},
             NEW first \in SUBSET Fields, Load(c, k, first)
      PROVE  TypeOK'
  BY <1>7, <1>t DEF Load, producerVars
<1>8. ASSUME NEW c \in Consumers, WaitCopy(c) PROVE TypeOK'
  BY <1>8, <1>t DEF WaitCopy, producerVars
<1>9. ASSUME NEW c \in Consumers, WaitTimeout(c) \/ WaitRetry(c) PROVE TypeOK'
  <2>1. poll' \in [Consumers -> 1 .. PollMax]
    <3>1. poll[c] > 1 => poll[c] - 1 \in 1 .. PollMax
      BY <1>0
    <3>2. PollMax \in 1 .. PollMax
      BY <1>0
    <3>3. \/ poll' = [poll EXCEPT ![c] = PollMax]
          \/ poll[c] > 1 /\ poll' = [poll EXCEPT ![c] = poll[c] - 1]
      BY <1>9 DEF WaitTimeout, WaitRetry
    <3> QED BY <3>1, <3>2, <3>3
  <2>2. cpc' \in [Consumers -> {"off", "poll", "copy", "spec", "recover"}]
    BY <1>9 DEF WaitTimeout, WaitRetry
  <2> QED BY <1>9, <2>1, <2>2 DEF WaitTimeout, WaitRetry, producerVars
<1>10. ASSUME NEW c \in Consumers, WaitOverrun(c) \/ WaitMeta(c) PROVE TypeOK'
  <2>1. poll' \in [Consumers -> 1 .. PollMax]
    <3>1. poll[c] > 1 /\ poll' = [poll EXCEPT ![c] = poll[c] - 1]
      BY <1>10 DEF WaitOverrun, WaitMeta
    <3>2. poll[c] - 1 \in 1 .. PollMax
      BY <1>0, <3>1
    <3> QED BY <3>1, <3>2
  <2>2. /\ cpc' \in [Consumers -> {"off", "poll", "copy", "spec", "recover"}]
        /\ rx' \in [Consumers -> Int]
    BY <1>10 DEF WaitOverrun, WaitMeta, Overrun
  <2> QED BY <1>10, <2>1, <2>2 DEF WaitOverrun, WaitMeta, producerVars
<1>11. ASSUME NEW c \in Consumers, RecheckOverrun(c) PROVE TypeOK'
  <2>1. /\ cpc' \in [Consumers -> {"off", "poll", "copy", "spec", "recover"}]
        /\ rx' \in [Consumers -> Int]
    <3>1. \/ rx' = [rx EXCEPT ![c] = Query(rx[c])] /\ cpc' = [cpc EXCEPT ![c] = "poll"]
          \/ rx' = rx /\ cpc' = [cpc EXCEPT ![c] = "recover"]
      BY <1>11 DEF RecheckOverrun, Overrun
    <3>2. Query(rx[c]) \in Int
      BY <1>t
    <3>3. rx' \in [Consumers -> Int]
      BY <3>1, <3>2
    <3> QED BY <3>1, <3>3
  <2> QED BY <1>11, <2>1 DEF RecheckOverrun, producerVars
<1>12. ASSUME NEW c \in Consumers, Accept(c) \/ Recover(c) PROVE TypeOK'
  <2>1. /\ cpc' \in [Consumers -> {"off", "poll", "copy", "spec", "recover"}]
        /\ rx' \in [Consumers -> Int]
    BY <1>12 DEF Accept, Recover
  <2>2. got' \in [Consumers -> [Fields -> Int]]
    BY <1>12 DEF Accept, Recover
  <2> QED BY <1>12, <2>1, <2>2 DEF Accept, Recover, producerVars
<1>13. CASE UNCHANGED vars
  BY <1>13 DEF vars
<1> HIDE DEF TypeOK
<1>14. CASE Producer
  BY <1>14, <1>0, <1>1, <1>2, <1>3, <1>4, <1>5
     DEF Producer, PublishMark, PublishSse
<1>15. ASSUME NEW c \in Consumers, Join(c) \/ RunLoop(c) PROVE TypeOK'
  BY <1>15, <1>0, <1>6, <1>7, <1>8, <1>9, <1>10, <1>11, <1>12
     DEF RunLoop, WaitSeq, WaitSse, WaitAvx
<1> QED BY <1>13, <1>14, <1>15 DEF Next

\* Every variable of Mcache keeps its type, whatever the interleaving of the
\* producer and the consumers: poll_max never underflows, indices stay inside
\* the mcache.
THEOREM TypeCorrect == Spec => []TypeOK
<1>1. Init => TypeOK
  BY InitType
<1>2. TypeOK /\ [Next]_vars => TypeOK'
  BY TypeStep
<1> QED BY <1>1, <1>2, PTL DEF Spec

-----------------------------------------------------------------------------
(* The inductive invariant *)

\* What the steps use of the constants and of IInv.
LEMMA Facts ==
  ASSUME IInv
  PROVE  /\ TypeOK /\ Bounds /\ LinesIntact /\ CopiesIntact
         /\ Seq0 \in Nat /\ Depth \in Nat /\ Depth > 1 /\ MaxPub \in Nat
         /\ SseFields \subseteq Fields
         /\ tx \in Nat /\ LineIdx(tx) \in Lines /\ LineIdx(tx - 1) # LineIdx(tx)
         /\ \A c \in Consumers : rx[c] \in Int /\ LineIdx(rx[c]) \in Lines
<1>1. TypeOK /\ Bounds /\ LinesIntact /\ CopiesIntact
  BY DEF IInv
<1>2. tx \in Nat /\ \A c \in Consumers : rx[c] \in Int
  BY <1>1 DEF TypeOK
<1>3. LineIdx(tx) \in Lines /\ \A c \in Consumers : LineIdx(rx[c]) \in Lines
  BY <1>2, LineIdxRange
<1>4. Depth \in Nat /\ Depth > 1
  BY McacheAssumption
<1>5. LineIdx(tx - 1) # LineIdx(tx)
  <2> SUFFICES ASSUME LineIdx(tx - 1) = LineIdx(tx) PROVE FALSE
    OBVIOUS
  <2>1. tx - 1 = tx
    BY <1>2, <1>4, LineIdxInjective
  <2> QED BY <2>1, <1>2
<1> QED BY <1>1, <1>2, <1>3, <1>4, <1>5, McacheAssumption

\* Residues decide what a consumer compares.
LEMMA Decides ==
  ASSUME IInv, NEW c \in Consumers
  PROVE  /\ Query(rx[c]) \in Seq0 - Depth - 1 .. tx - 1
         /\ SeqEq(found[c], Query(rx[c])) <=> found[c] = Query(rx[c])
         /\ SeqEq(Query(rx[c]), rx[c]) <=> Query(rx[c]) = rx[c]
         /\ SeqDiff(found[c], rx[c]) = found[c] - rx[c]
<1>1. /\ Seq0 \in Nat /\ Depth \in Nat /\ MaxPub \in Nat
      /\ MaxPub + Depth + 1 < SeqHalf /\ SeqHalf \in Nat
  BY McacheAssumption
<1>2. /\ Query(rx[c]) \in Seq0 - Depth - 1 .. tx - 1
      /\ found[c] \in Seq0 - Depth - 1 .. tx - 1
      /\ rx[c] \in Seq0 .. tx
      /\ tx \in Nat /\ tx <= Seq0 + MaxPub
  BY Facts DEF Bounds, Query
<1> DEFINE q == Query(rx[c])
<1> HIDE DEF q
<1>3. \A a, b \in Seq0 - Depth - 1 .. tx : a - b < SeqHalf /\ b - a < SeqHalf
  BY <1>1, <1>2
<1>4. /\ q \in Seq0 - Depth - 1 .. tx /\ found[c] \in Seq0 - Depth - 1 .. tx
      /\ rx[c] \in Seq0 - Depth - 1 .. tx
      /\ q \in Int /\ found[c] \in Int /\ rx[c] \in Int
  BY <1>1, <1>2 DEF q
<1>5. /\ q - found[c] < SeqHalf /\ found[c] - q < SeqHalf
      /\ q - rx[c] < SeqHalf /\ rx[c] - q < SeqHalf
      /\ found[c] - rx[c] < SeqHalf /\ rx[c] - found[c] < SeqHalf
  BY <1>3, <1>4
<1>6. SeqEq(found[c], q) <=> found[c] = q
  BY <1>4, <1>5, SeqEqIs, McacheAssumption
<1>7. SeqEq(q, rx[c]) <=> q = rx[c]
  BY <1>4, <1>5, SeqEqIs, McacheAssumption
<1>8. SeqDiff(found[c], rx[c]) = found[c] - rx[c]
  BY <1>4, <1>5, SeqDiffIs, McacheAssumption
<1> QED BY <1>2, <1>6, <1>7, <1>8 DEF q

LEMMA InitIInv == Init => IInv
<1> SUFFICES ASSUME Init PROVE IInv
  OBVIOUS
<1>1. Seq0 \in Nat /\ Depth \in Nat /\ Depth > 1 /\ MaxPub \in Nat
  BY McacheAssumption
<1>2. ASSUME NEW i \in Lines
      PROVE  /\ line[i].seq \in Seq0 - Depth - 1 .. tx - 1
             /\ LineIdx(line[i].seq) # i
  <2>1. PICK n \in Seq0 - Depth .. Seq0 - 1 :
          /\ LineIdx(n) = i
          /\ line[i] = [seq |-> n - 1, body |-> Meta(Seq0 - 1 - Depth)]
    BY InitLine
  <2>2. n \in Int /\ n - 1 \in Int
    BY <1>1
  <2>3. LineIdx(n - 1) # LineIdx(n)
    <3> SUFFICES ASSUME LineIdx(n - 1) = LineIdx(n) PROVE FALSE
      OBVIOUS
    <3>1. n - 1 = n
      BY <1>1, <2>2, LineIdxInjective
    <3> QED BY <3>1, <2>2
  <2>4. tx = Seq0
    BY DEF Init
  <2>5. line[i].seq = n - 1
    BY <2>1
  <2> QED BY <1>1, <2>1, <2>2, <2>3, <2>4, <2>5
<1>3. Bounds
  <2>1. /\ seqCell = Seq0 /\ tx = Seq0 /\ ppc = "idle"
        /\ \A c \in Consumers : rx[c] = Seq0 /\ found[c] = Seq0 - 1
    BY DEF Init
  <2> QED BY <1>1, <1>2, <2>1 DEF Bounds
<1>4. LinesIntact
  BY <1>2 DEF Init, LinesIntact
<1>5. CopiesIntact
  <2>1. \A c \in Consumers : cpc[c] = "off"
    BY DEF Init
  <2> QED BY <2>1 DEF CopiesIntact
<1> QED BY <1>3, <1>4, <1>5, InitType DEF IInv

\* A step of the producer that rewrites the line of tx, leaves the other
\* lines and the consumers alone, and cannot be mistaken for the frag that a
\* consumer has found there.
LEMMA ProducerCopies ==
  ASSUME IInv, TypeOK', UNCHANGED consumerVars, tx' >= tx,
         \A i \in Lines \ {LineIdx(tx)} : line'[i] = line[i],
         \/ line'[LineIdx(tx)].seq = line[LineIdx(tx)].seq
         \/ line'[LineIdx(tx)].seq = tx - 1
         \/ line'[LineIdx(tx)].seq = tx
  PROVE  CopiesIntact'
<1> SUFFICES ASSUME NEW c \in Consumers
             PROVE  /\ cpc[c] = "copy" /\ found[c] = rx[c] =>
                         IF kind[c] = "avx"
                           THEN copy[c] = Meta(rx[c])
                           ELSE Query(rx[c])' = rx[c] =>
                                  \A f \in Fields \ todo[c] : copy[c][f] = rx[c]
                    /\ cpc[c] = "copy" /\ found[c] = rx[c] =>
                         Query(rx[c])' >= rx[c]
                    /\ cpc[c] = "copy" /\ kind[c] = "avx" => todo[c] = {}
                    /\ cpc[c] = "spec" =>
                         /\ rx[c] < tx' /\ copy[c] = Meta(rx[c])
                         /\ Query(rx[c])' >= rx[c]
  BY DEF CopiesIntact, consumerVars
<1>1. /\ rx[c] \in Seq0 .. tx /\ found[c] <= tx - 1 /\ found[c] \in Int
      /\ tx \in Nat /\ tx' \in Nat /\ rx[c] \in Int
  BY Facts DEF Bounds, TypeOK
<1>2. /\ cpc[c] = "copy" /\ found[c] = rx[c] =>
           IF kind[c] = "avx"
             THEN copy[c] = Meta(rx[c])
             ELSE Query(rx[c]) = rx[c] =>
                    \A f \in Fields \ todo[c] : copy[c][f] = rx[c]
      /\ cpc[c] = "copy" /\ found[c] = rx[c] => Query(rx[c]) >= rx[c]
      /\ cpc[c] = "copy" /\ kind[c] = "avx" => todo[c] = {}
      /\ cpc[c] = "spec" =>
           rx[c] < tx /\ copy[c] = Meta(rx[c]) /\ Query(rx[c]) >= rx[c]
  BY Facts DEF CopiesIntact
<1>3. rx[c]' = rx[c]
  BY DEF consumerVars
<1>4. CASE LineIdx(rx[c]) # LineIdx(tx)
  <2>1. Query(rx[c])' = Query(rx[c])
    BY <1>3, <1>4, Facts DEF Query
  <2> QED BY <2>1, <1>1, <1>2
<1>5. CASE LineIdx(rx[c]) = LineIdx(tx)
  <2>1. \/ Query(rx[c])' = Query(rx[c])
        \/ Query(rx[c])' = tx - 1
        \/ Query(rx[c])' = tx
    BY <1>3, <1>5 DEF Query
  <2>2. Query(rx[c])' = rx[c] /\ rx[c] < tx => Query(rx[c])' = Query(rx[c])
    <3>1. CASE Query(rx[c])' = tx - 1
      <4>1. tx - 1 # rx[c]
        BY <1>5, Facts
      <4> QED BY <3>1, <4>1
    <3>2. CASE Query(rx[c])' = tx
      BY <3>2, <1>1
    <3> QED BY <2>1, <3>1, <3>2
  <2>3. found[c] = rx[c] => rx[c] < tx
    BY <1>1
  <2>4. rx[c] < tx /\ Query(rx[c]) >= rx[c] => Query(rx[c])' >= rx[c]
    BY <2>1, <1>1
  <2>5. rx[c] < tx => rx[c] < tx'
    BY <1>1
  <2> QED BY <1>2, <2>2, <2>3, <2>4, <2>5
<1> QED BY <1>4, <1>5

LEMMA ProducerStep ==
  ASSUME IInv, TypeOK', Producer
  PROVE  IInv'
<1> USE Facts
<1> DEFINE i == LineIdx(tx)
<1>l. /\ line \in [Lines -> [seq : Int, body : [Fields -> Int]]]
      /\ line' \in [Lines -> [seq : Int, body : [Fields -> Int]]]
      /\ pubTodo \in SUBSET Fields
  BY DEF TypeOK
<1>1. ASSUME NEW k, NEW first \in SUBSET Fields, Mark(k, first)
      PROVE  IInv'
  <2>1. /\ line' = [line EXCEPT ![i] =
             [seq |-> tx - 1, body |-> Stored(line[i].body, first, tx)]]
        /\ tx < Seq0 + MaxPub /\ ppc' = "body" /\ pubTodo' = Fields \ first
        /\ UNCHANGED <<seqCell, tx, consumerVars>>
    BY <1>1 DEF Mark
  <2>2. /\ line'[i].seq = tx - 1
        /\ line'[i].body = Stored(line[i].body, first, tx)
        /\ \A j \in Lines \ {i} : line'[j] = line[j]
    BY <2>1, <1>l
  <2>3. Bounds'
    BY <2>1, <2>2 DEF Bounds, consumerVars
  <2>4. LinesIntact'
    <3>1. \A f \in Fields \ pubTodo' : line'[i].body[f] = tx
      BY <2>1, <2>2 DEF Stored
    <3>2. \A j \in Lines : LineIdx(line'[j].seq) = j =>
            line'[j].body = Meta(line'[j].seq)
      BY <2>2 DEF LinesIntact
    <3> QED BY <2>1, <2>2, <3>1, <3>2 DEF LinesIntact
  <2>5. CopiesIntact'
    BY <2>1, <2>2, ProducerCopies
  <2> QED BY <2>3, <2>4, <2>5 DEF IInv
<1>2. CASE PublishBody
  <2>1. PICK fs \in Accesses(pubKind, pubTodo) :
          /\ line' = [line EXCEPT ![i].body = Stored(line[i].body, fs, tx)]
          /\ pubTodo' = pubTodo \ fs
    BY <1>2 DEF PublishBody
  <2>2. ppc = "body" /\ UNCHANGED <<seqCell, tx, ppc, consumerVars>>
    BY <1>2 DEF PublishBody
  <2>3. /\ line'[i].seq = line[i].seq
        /\ line'[i].body = Stored(line[i].body, fs, tx)
        /\ \A j \in Lines \ {i} : line'[j] = line[j]
    BY <2>1, <1>l
  <2>4. Bounds'
    BY <2>2, <2>3 DEF Bounds, consumerVars
  <2>5. LinesIntact'
    <3>1. \A f \in Fields \ pubTodo' : line'[i].body[f] = tx
      BY <2>1, <2>2, <2>3, <1>l DEF Stored, LinesIntact
    <3>2. \A j \in Lines : LineIdx(line'[j].seq) = j =>
            line'[j].body = Meta(line'[j].seq)
      BY <2>2, <2>3 DEF LinesIntact
    <3> QED BY <2>2, <2>3, <3>1, <3>2 DEF LinesIntact
  <2>6. CopiesIntact'
    BY <2>2, <2>3, ProducerCopies
  <2> QED BY <2>4, <2>5, <2>6 DEF IInv
<1>3. CASE PublishSeq \/ PublishAvx
  <2>1. /\ line'[i].seq = tx
        /\ \A j \in Lines \ {i} : line'[j] = line[j]
    BY <1>3, <1>l DEF PublishSeq, PublishAvx
  <2>2. line'[i].body = Meta(tx)
    <3>1. CASE PublishSeq
      <4>1. line'[i].body = line[i].body
        BY <3>1, <1>l DEF PublishSeq
      <4>2. \A f \in Fields : line[i].body[f] = tx
        BY <3>1 DEF PublishSeq, LinesIntact
      <4>3. line[i].body \in [Fields -> Int]
        BY <1>l
      <4> QED BY <4>1, <4>2, <4>3 DEF Meta
    <3>2. CASE PublishAvx
      BY <3>2, <1>l DEF PublishAvx
    <3> QED BY <1>3, <3>1, <3>2
  <2>3. /\ tx' = tx + 1 /\ tx < Seq0 + MaxPub /\ ppc' = "idle"
        /\ UNCHANGED <<seqCell, consumerVars>>
    BY <1>3 DEF PublishSeq, PublishAvx, Bounds
  <2>4. Bounds'
    BY <2>1, <2>3 DEF Bounds, consumerVars
  <2>5. LinesIntact'
    <3>1. \A j \in Lines : LineIdx(line'[j].seq) = j =>
            line'[j].body = Meta(line'[j].seq)
      BY <2>1, <2>2 DEF LinesIntact
    <3> QED BY <2>3, <3>1 DEF LinesIntact
  <2>6. CopiesIntact'
    BY <2>1, <2>3, ProducerCopies
  <2> QED BY <2>4, <2>5, <2>6 DEF IInv
<1>4. CASE SeqUpdate \/ Shutdown \/ Restart
  <2>1. /\ line' = line /\ tx' = tx /\ UNCHANGED consumerVars
        /\ ppc' # "body" /\ seqCell' = tx /\ (ppc' = "down" => seqCell' = tx)
    BY <1>4 DEF SeqUpdate, Shutdown, Restart, Bounds
  <2>2. Bounds'
    BY <2>1 DEF Bounds, consumerVars
  <2>3. LinesIntact'
    BY <2>1 DEF LinesIntact
  <2>4. CopiesIntact'
    BY <2>1, ProducerCopies
  <2> QED BY <2>2, <2>3, <2>4 DEF IInv
<1> QED BY <1>1, <1>2, <1>3, <1>4 DEF Producer, PublishMark, PublishSse

\* A step of one consumer leaves the cache and the other consumers alone.
LEMMA ConsumerFrame ==
  ASSUME IInv, TypeOK', UNCHANGED producerVars, NEW c \in Consumers,
         \A d \in Consumers \ {c} :
           /\ rx'[d] = rx[d] /\ kind'[d] = kind[d] /\ found'[d] = found[d]
           /\ copy'[d] = copy[d] /\ todo'[d] = todo[d] /\ cpc'[d] = cpc[d],
         rx'[c] \in Seq0 .. tx, found'[c] \in Seq0 - Depth - 1 .. tx - 1,
         cpc'[c] = "copy" /\ found'[c] = rx'[c] =>
           IF kind'[c] = "avx"
             THEN copy'[c] = Meta(rx'[c])
             ELSE Query(rx'[c]) = rx'[c] =>
                    \A f \in Fields \ todo'[c] : copy'[c][f] = rx'[c],
         cpc'[c] = "copy" /\ found'[c] = rx'[c] => Query(rx'[c]) >= rx'[c],
         cpc'[c] = "copy" /\ kind'[c] = "avx" => todo'[c] = {},
         cpc'[c] = "spec" =>
           /\ rx'[c] < tx /\ copy'[c] = Meta(rx'[c])
           /\ Query(rx'[c]) >= rx'[c]
  PROVE  IInv'
<1> USE Facts
<1>1. Bounds'
  BY DEF Bounds, producerVars
<1>2. LinesIntact'
  BY DEF LinesIntact, producerVars
<1>3. ASSUME NEW d \in Consumers
      PROVE  Query(rx[d])' = Query(rx'[d])
  BY DEF Query, producerVars
<1>4. ASSUME NEW d \in Consumers \ {c}
      PROVE  Query(rx'[d]) = Query(rx[d])
  OBVIOUS
<1>5. CopiesIntact'
  BY <1>3, <1>4 DEF CopiesIntact, producerVars
<1> QED BY <1>1, <1>2, <1>5 DEF IInv

\* Metadata loaded from a line that holds the frag.
LEMMA LoadIntact ==
  ASSUME IInv, NEW c \in Consumers, Query(rx[c]) = rx[c]
  PROVE  line[LineIdx(rx[c])].body = Meta(rx[c])
BY Facts DEF LinesIntact, Query

LEMMA ConsumerStep ==
  ASSUME IInv, TypeOK', NEW c \in Consumers, Join(c) \/ RunLoop(c)
  PROVE  IInv'
<1> USE Facts
<1>a. /\ rx \in [Consumers -> Int] /\ found \in [Consumers -> Int]
      /\ cpc \in [Consumers -> {"off", "poll", "copy", "spec", "recover"}]
      /\ copy \in [Consumers -> [Fields -> Int]]
      /\ todo \in [Consumers -> SUBSET Fields]
      /\ kind \in [Consumers -> {"plain", "sse", "avx"}]
  BY DEF TypeOK
<1>b. /\ rx[c] \in Seq0 .. tx /\ found[c] \in Seq0 - Depth - 1 .. tx - 1
      /\ seqCell \in Seq0 .. tx
  BY DEF Bounds
<1>1. ASSUME Join(c) \/ Recover(c) PROVE IInv'
  <2>1. /\ rx' = [rx EXCEPT ![c] = seqCell] /\ cpc' = [cpc EXCEPT ![c] = "poll"]
        /\ UNCHANGED <<kind, found, copy, todo, producerVars>>
    BY <1>1 DEF Join, Recover
  <2> QED BY <2>1, <1>a, <1>b, ConsumerFrame
<1>2. ASSUME NEW k \in {"plain", "sse", "avx"}, NEW first \in SUBSET Fields,
             Load(c, k, first), k = "avx" => first = Fields
      PROVE  IInv'
  <2>1. /\ kind' = [kind EXCEPT ![c] = k]
        /\ found' = [found EXCEPT ![c] = Query(rx[c])]
        /\ copy' = [copy EXCEPT ![c] =
             [f \in Fields |-> IF f \in first
                THEN line[LineIdx(rx[c])].body[f] ELSE copy[c][f]]]
        /\ todo' = [todo EXCEPT ![c] = Fields \ first]
        /\ cpc' = [cpc EXCEPT ![c] = "copy"]
        /\ UNCHANGED <<rx, producerVars>>
    BY <1>2 DEF Load
  <2>2. /\ found'[c] = Query(rx[c]) /\ kind'[c] = k /\ rx'[c] = rx[c]
        /\ todo'[c] = Fields \ first /\ cpc'[c] = "copy"
    BY <2>1, <1>a
  <2>3. \A f \in first : copy'[c][f] = line[LineIdx(rx[c])].body[f]
    BY <2>1, <1>a
  <2>4. Query(rx[c]) \in Seq0 - Depth - 1 .. tx - 1
    BY Decides
  <2>5. Query(rx[c]) = rx[c] => \A f \in first : copy'[c][f] = rx[c]
    BY <2>3, LoadIntact DEF Meta
  <2>6. k = "avx" /\ Query(rx[c]) = rx[c] => copy'[c] = Meta(rx[c])
    <3>1. copy'[c] \in [Fields -> Int]
      BY DEF TypeOK
    <3> QED BY <3>1, <2>5, <1>2 DEF Meta
  <2>7. k = "avx" => todo'[c] = {}
    BY <2>2, <1>2
  <2>8. \A d \in Consumers \ {c} :
           /\ rx'[d] = rx[d] /\ kind'[d] = kind[d] /\ found'[d] = found[d]
           /\ copy'[d] = copy[d] /\ todo'[d] = todo[d] /\ cpc'[d] = cpc[d]
    BY <2>1, <1>a
  <2>9. cpc'[c] = "copy" /\ found'[c] = rx'[c] =>
           IF kind'[c] = "avx"
             THEN copy'[c] = Meta(rx'[c])
             ELSE Query(rx'[c]) = rx'[c] =>
                    \A f \in Fields \ todo'[c] : copy'[c][f] = rx'[c]
    BY <2>2, <2>5, <2>6
  <2>10. found'[c] = rx'[c] => Query(rx'[c]) >= rx'[c]
    BY <2>2, <1>a
  <2> QED BY <2>1, <2>2, <2>4, <2>7, <2>8, <2>9, <2>10, <1>b, ConsumerFrame
<1>3. ASSUME WaitCopy(c) PROVE IInv'
  <2>1. PICK fs \in Accesses(kind[c], todo[c]) :
          /\ copy' = [copy EXCEPT ![c] =
               [f \in Fields |-> IF f \in fs
                  THEN line[LineIdx(rx[c])].body[f] ELSE copy[c][f]]]
          /\ todo' = [todo EXCEPT ![c] = todo[c] \ fs]
    BY <1>3 DEF WaitCopy
  <2>2. /\ cpc[c] = "copy" /\ todo[c] # {}
        /\ UNCHANGED <<rx, kind, found, cpc, producerVars>>
    BY <1>3 DEF WaitCopy
  <2>3. kind[c] # "avx"
    BY <2>2 DEF CopiesIntact
  <2>4. found[c] = rx[c] /\ Query(rx[c]) = rx[c] =>
          \A f \in Fields \ todo'[c] : copy'[c][f] = rx[c]
    <3> SUFFICES ASSUME found[c] = rx[c], Query(rx[c]) = rx[c],
                        NEW f \in Fields \ todo'[c]
                 PROVE  copy'[c][f] = rx[c]
      OBVIOUS
    <3>1. CASE f \in fs
      <4>1. copy'[c][f] = line[LineIdx(rx[c])].body[f]
        BY <3>1, <2>1, <1>a
      <4>2. line[LineIdx(rx[c])].body = Meta(rx[c])
        BY LoadIntact
      <4> QED BY <4>1, <4>2 DEF Meta
    <3>2. CASE f \notin fs
      BY <3>2, <2>1, <2>2, <2>3, <1>a DEF CopiesIntact
    <3> QED BY <3>1, <3>2
  <2>5. \A d \in Consumers \ {c} :
           /\ rx'[d] = rx[d] /\ kind'[d] = kind[d] /\ found'[d] = found[d]
           /\ copy'[d] = copy[d] /\ todo'[d] = todo[d] /\ cpc'[d] = cpc[d]
    BY <2>1, <2>2, <1>a
  <2>6. found[c] = rx[c] => Query(rx[c]) >= rx[c]
    BY <2>2 DEF CopiesIntact
  <2> QED BY <2>2, <2>3, <2>4, <2>5, <2>6, <1>b, ConsumerFrame
<1>4. ASSUME WaitTimeout(c) \/ WaitRetry(c) PROVE IInv'
  <2>1. /\ cpc' = [cpc EXCEPT ![c] = "poll"]
        /\ UNCHANGED <<rx, kind, found, copy, todo, producerVars>>
    BY <1>4 DEF WaitTimeout, WaitRetry
  <2> QED BY <2>1, <1>a, <1>b, ConsumerFrame
<1>5. ASSUME NEW seq \in Seq0 .. tx, Overrun(c, seq),
             UNCHANGED <<kind, found, copy, todo, producerVars>>
      PROVE  IInv'
  <2>1. /\ rx'[c] \in Seq0 .. tx /\ cpc'[c] \in {"poll", "recover"}
        /\ \A d \in Consumers \ {c} : rx'[d] = rx[d] /\ cpc'[d] = cpc[d]
    BY <1>5, <1>a, <1>b DEF Overrun
  <2> QED BY <2>1, <1>5, <1>b, ConsumerFrame
<1>6. ASSUME WaitOverrun(c) PROVE IInv'
  <2>1. /\ SeqDiff(found[c], rx[c]) >= 0 /\ Overrun(c, found[c])
        /\ UNCHANGED <<kind, found, copy, todo, producerVars>>
    BY <1>6 DEF WaitOverrun, WaitDone
  <2>2. found[c] - rx[c] >= 0
    BY <2>1, Decides
  <2>3. found[c] \in Seq0 .. tx
    BY <2>2, <1>b
  <2> QED BY <2>1, <2>3, <1>5
<1>7. ASSUME WaitMeta(c) PROVE IInv'
  <2>1. /\ cpc[c] = "copy" /\ todo[c] = {} /\ cpc' = [cpc EXCEPT ![c] = "spec"]
        /\ kind[c] = "avx" \/ SeqEq(found[c], Query(rx[c]))
        /\ SeqDiff(found[c], rx[c]) = 0
        /\ UNCHANGED <<rx, kind, found, copy, todo, producerVars>>
    BY <1>7 DEF WaitMeta, WaitDone, Polled
  <2>2. found[c] = rx[c] /\ rx[c] < tx
    BY <2>1, <1>b, Decides
  <2>3. copy[c] = Meta(rx[c])
    <3>1. CASE kind[c] = "avx"
      BY <3>1, <2>1, <2>2 DEF CopiesIntact
    <3>2. CASE kind[c] # "avx"
      <4>1. Query(rx[c]) = rx[c]
        BY <3>2, <2>1, <2>2, Decides
      <4>2. \A f \in Fields : copy[c][f] = rx[c]
        BY <3>2, <4>1, <2>1, <2>2 DEF CopiesIntact
      <4> QED BY <4>2, <1>a DEF Meta
    <3> QED BY <3>1, <3>2
  <2>4. Query(rx[c]) >= rx[c]
    BY <2>1, <2>2 DEF CopiesIntact
  <2> QED BY <2>1, <2>2, <2>3, <2>4, <1>a, <1>b, ConsumerFrame
<1>8. ASSUME RecheckOverrun(c) PROVE IInv'
  <2>1. /\ cpc[c] = "spec" /\ Overrun(c, Query(rx[c]))
        /\ UNCHANGED <<kind, found, copy, todo, producerVars>>
    BY <1>8 DEF RecheckOverrun
  <2>2. Query(rx[c]) >= rx[c]
    BY <2>1 DEF CopiesIntact
  <2>3. Query(rx[c]) \in Seq0 .. tx
    BY <2>2, <1>b, Decides
  <2> QED BY <2>1, <2>3, <1>5
<1>9. ASSUME Accept(c) PROVE IInv'
  <2>1. /\ cpc[c] = "spec" /\ rx' = [rx EXCEPT ![c] = rx[c] + 1]
        /\ cpc' = [cpc EXCEPT ![c] = "poll"]
        /\ UNCHANGED <<kind, found, copy, todo, producerVars>>
    BY <1>9 DEF Accept
  <2>2. rx[c] < tx
    BY <2>1 DEF CopiesIntact
  <2>3. rx[c] + 1 \in Seq0 .. tx
    BY <2>2, <1>b
  <2> QED BY <2>1, <2>3, <1>a, <1>b, ConsumerFrame
<1> QED
  <2>1. ASSUME WaitSeq(c) \/ WaitSse(c) \/ WaitAvx(c) PROVE IInv'
    BY <2>1, <1>2 DEF WaitSeq, WaitSse, WaitAvx
  <2> QED BY <2>1, <1>1, <1>3, <1>4, <1>6, <1>7, <1>8, <1>9 DEF RunLoop

LEMMA IInvStep == IInv /\ [Next]_vars => IInv'
<1> SUFFICES ASSUME IInv, [Next]_vars PROVE IInv'
  OBVIOUS
<1>1. TypeOK'
  BY TypeStep DEF IInv
<1>2. CASE Producer
  BY <1>1, <1>2, ProducerStep
<1>3. ASSUME NEW c \in Consumers, Join(c) \/ RunLoop(c) PROVE IInv'
  BY <1>1, <1>3, ConsumerStep
<1>4. CASE UNCHANGED vars
  BY <1>4, Facts, <1>1
     DEF vars, IInv, Bounds, LinesIntact, CopiesIntact, Query
<1> QED BY <1>2, <1>3, <1>4 DEF Next

LEMMA IInvHolds == Spec => []IInv
<1>1. Init => IInv
  BY InitIInv
<1>2. IInv /\ [Next]_vars => IInv'
  BY IInvStep
<1> QED BY <1>1, <1>2, PTL DEF Spec

\* No consumer ever processes torn or stale metadata: what a wait hands over
\* is, in every field, the metadata of the frag that was asked for, whichever
\* publish and wait variants meet and however their accesses interleave.
THEOREM ReceivedIntactHolds == Spec => []ReceivedIntact
<1>1. IInv => ReceivedIntact
  BY DEF IInv, CopiesIntact, ReceivedIntact
<1> QED BY <1>1, IInvHolds, PTL

\* No consumer gets ahead of the producer, across overruns and restarts.
THEOREM NeverAheadHolds == Spec => []NeverAhead
<1>1. IInv => NeverAhead
  BY Facts DEF Bounds, NeverAhead
<1> QED BY <1>1, IInvHolds, PTL

\* seq_found and seq_diff of a wait that does not time out are lower bounds
\* of where the producer is and of how far behind the consumer is.
THEOREM FoundIsLowerBoundHolds == Spec => []FoundIsLowerBound
<1>1. ASSUME IInv PROVE FoundIsLowerBound
  <2> SUFFICES ASSUME NEW c \in Consumers
               PROVE  found[c] < tx /\ SeqDiff(found[c], rx[c]) <= tx - rx[c]
    BY DEF FoundIsLowerBound
  <2>1. found[c] \in Seq0 - Depth - 1 .. tx - 1 /\ rx[c] \in Seq0 .. tx
    BY <1>1, Facts DEF Bounds
  <2>2. SeqDiff(found[c], rx[c]) = found[c] - rx[c]
    BY <1>1, Decides
  <2> QED BY <2>1, <2>2, <1>1, Facts
<1> QED BY <1>1, IInvHolds, PTL

\* Neither seq[0] nor the producer's sequence number moves back, also when a
\* producer starts over from seq[0].
THEOREM SeqNeverMovesBackHolds == Spec => SeqNeverMovesBack
<1>1. IInv /\ [Next]_vars =>
        [seqCell' >= seqCell /\ tx' >= tx /\ seqCell' <= tx']_vars
  <2> SUFFICES ASSUME IInv, Next
               PROVE  seqCell' >= seqCell /\ tx' >= tx /\ seqCell' <= tx'
    BY DEF vars
  <2>1. /\ seqCell \in Int /\ tx \in Int /\ seqCell <= tx
        /\ ppc = "down" => seqCell = tx
    BY Facts DEF Bounds
  <2>2. CASE Producer
    BY <2>1, <2>2 DEF Producer, PublishMark, PublishSse, Mark, PublishBody,
       PublishSeq, PublishAvx, SeqUpdate, Shutdown, Restart
  <2>3. ASSUME NEW c \in Consumers, Join(c) \/ RunLoop(c)
        PROVE  seqCell' = seqCell /\ tx' = tx
    BY <2>3 DEF Join, RunLoop, WaitSeq, WaitSse, WaitAvx, Load, WaitCopy,
       WaitTimeout, WaitRetry, WaitOverrun, WaitMeta, RecheckOverrun, Accept,
       Recover, producerVars
  <2> QED BY <2>1, <2>2, <2>3 DEF Next
<1> QED BY <1>1, IInvHolds, PTL DEF Spec, SeqNeverMovesBack

-----------------------------------------------------------------------------
(* What the lines hold: the invariant that queries and refinement need.    *)

\* What each line says it holds: the frags come to the lines in turn.
LinesInTurn ==
  \A n \in tx - Depth .. tx - 1 :
    line[LineIdx(n)].seq =
      IF ppc = "body" /\ n = tx - Depth THEN tx - 1
      ELSE IF n >= Seq0 THEN n ELSE n - 1

\* What a consumer has found in the line of its frag may be out of date, but
\* if it was a later frag then the consumer has been overrun, for good.
FoundLater ==
  \A c \in Consumers : cpc[c] = "copy" =>
    /\ found[c] > rx[c] => tx - rx[c] >= Depth
    /\ kind[c] = "avx" /\ found[c] >= Seq0 => copy[c] = Meta(found[c])

\* AVX producers do not mark lines; runs without seq0 do not recover from it.
Variants ==
  /\ PubKinds = {"avx"} => ppc # "body"
  /\ "seq0" \notin Recoveries => \A c \in Consumers : cpc[c] # "recover"

RInv == IInv /\ LinesInTurn /\ FoundLater /\ Variants

-----------------------------------------------------------------------------
(* Queries *)

\* The line of a frag is that of the frag Depth later.
LEMMA LineIdxPeriod ==
  ASSUME NEW n \in Int
  PROVE  LineIdx(n - Depth) = LineIdx(n)
<1>1. PICK p \in Pp, q \in Qq, r \in Rr :
        n % Depth = Place(p, q, r) /\ LineIdx(n) = Line(p, q, r)
  BY LineIdxPlace
<1>2. (n - Depth) % Depth = n % Depth
  <2> DEFINE k == n \div Depth
             m == n % Depth
  <2>1. n = Depth * k + m /\ k \in Int /\ m \in 0 .. Depth - 1
    BY Sizes, DivMod
  <2> HIDE DEF k, m
  <2>2. n - Depth = Depth * (k - 1) + m /\ k - 1 \in Int
    BY <2>1, Sizes
  <2>3. (Depth * (k - 1) + m) % Depth = m
    BY <2>1, <2>2, Sizes, DivModOf
  <2> QED BY <2>2, <2>3 DEF m
<1>3. n - Depth \in Int
  BY Sizes
<1> QED BY <1>1, <1>2, <1>3, LineIdxForm

\* Every line is that of one of the last Depth frags, or of what stands in
\* for them at first.
LEMMA RecentLine ==
  ASSUME IInv, NEW i \in Lines
  PROVE  \E n \in tx - Depth .. tx - 1 : LineIdx(n) = i
<1>1. tx \in Int /\ Depth \in Int
  BY Facts
<1> DEFINE n0 == tx - Depth
<1>2. n0 \in Int /\ n0 + Depth - 1 = tx - 1
  BY <1>1
<1> HIDE DEF n0
<1>3. \E n \in n0 .. n0 + Depth - 1 : LineIdx(n) = i
  BY <1>2, LineIdxOnto
<1> QED BY <1>2, <1>3 DEF n0

\* fd_mcache_query at any instant, with the integers.
LEMMA QueryNow ==
  ASSUME IInv, LinesInTurn, NEW s \in Int, s >= Seq0
  PROVE  /\ Query(s) \in Seq0 - Depth - 1 .. tx - 1
         /\ Query(s) = s <=> s \in Held
         /\ Query(s) < s <=> s >= tx
<1> USE Facts
<1>0. /\ Seq0 \in Nat /\ Depth \in Nat /\ Depth > 1 /\ tx \in Nat
      /\ LineIdx(s) \in Lines
  BY LineIdxRange
<1> DEFINE q == Query(s)
<1>1. q \in Seq0 - Depth - 1 .. tx - 1
  BY <1>0 DEF Bounds, Query
<1>2. CASE s >= tx
  <2>1. q < s
    BY <1>0, <1>1, <1>2
  <2>2. s \notin Held
    BY <1>0, <1>2 DEF Held
  <2>3. q # s
    BY <1>0, <1>1, <1>2
  <2> QED BY <1>1, <1>2, <2>1, <2>2, <2>3
<1>3. CASE s < tx /\ s >= tx - Depth
  <2>1. s \in tx - Depth .. tx - 1
    BY <1>0, <1>3
  <2>2. q = IF ppc = "body" /\ s = tx - Depth THEN tx - 1 ELSE s
    BY <1>0, <2>1 DEF LinesInTurn, Query
  <2>3. s \in Held <=> ~(ppc = "body" /\ s = tx - Depth)
    BY <1>0, <1>3 DEF Held
  <2> HIDE DEF q
  <2>4. tx - 1 > tx - Depth
    BY <1>0
  <2>5. q = s <=> s \in Held
    BY <1>0, <2>2, <2>3, <2>4
  <2>6. ~(q < s)
    BY <1>0, <1>3, <2>2, <2>4
  <2> QED BY <1>0, <1>1, <1>3, <2>5, <2>6 DEF q
<1>4. CASE s < tx - Depth
  <2>1. PICK n \in tx - Depth .. tx - 1 : LineIdx(n) = LineIdx(s)
    BY <1>0, RecentLine
  <2>2. n \in tx - Depth .. tx - 1 /\ n >= Seq0
    BY <1>0, <1>4, <2>1
  <2>3. q = tx - 1 \/ q = n
    BY <2>1, <2>2 DEF LinesInTurn, Query
  <2>4. s \notin Held
    BY <1>0, <1>4 DEF Held
  <2>5. q > s
    BY <1>0, <1>4, <2>2, <2>3
  <2> HIDE DEF q
  <2>6. q # s /\ ~(q < s) /\ ~(s >= tx)
    BY <1>0, <1>1, <1>4, <2>5
  <2> QED BY <1>1, <2>4, <2>6 DEF q
<1> QED BY <1>0, <1>2, <1>3, <1>4

\* A line that has gone on to a later frag: the consumer has been overrun.
LEMMA Overtaken ==
  ASSUME IInv, LinesInTurn, NEW s \in Int, s >= Seq0, Query(s) > s
  PROVE  tx - s >= Depth /\ s < tx
<1>1. tx \in Nat /\ Depth \in Nat /\ Query(s) \in Int /\ Seq0 \in Nat
  BY QueryNow, Facts
<1>2. s < tx /\ s \notin Held
  BY <1>1, QueryNow
<1> QED BY <1>1, <1>2 DEF Held

\* A line that holds a frag, read when no publish is under way.
LEMMA FragInLine ==
  ASSUME IInv, LinesInTurn, ppc # "body", NEW s \in Int, Query(s) >= Seq0
  PROVE  line[LineIdx(s)].body = Meta(Query(s))
<1> USE Facts
<1>0. Seq0 \in Nat /\ Depth \in Nat /\ tx \in Nat /\ LineIdx(s) \in Lines
  BY LineIdxRange
<1>1. PICK n \in tx - Depth .. tx - 1 : LineIdx(n) = LineIdx(s)
  BY <1>0, RecentLine
<1>2. n \in tx - Depth .. tx - 1 /\ n \in Int
  BY <1>0, <1>1
<1>3. Query(s) = IF n >= Seq0 THEN n ELSE n - 1
  BY <1>1, <1>2 DEF LinesInTurn, Query
<1>4. Query(s) = n
  BY <1>0, <1>2, <1>3
<1> QED BY <1>0, <1>1, <1>4 DEF LinesIntact, Query

-----------------------------------------------------------------------------
(* The invariant *)

LEMMA InitRInv == Init => RInv
<1> SUFFICES ASSUME Init PROVE RInv
  OBVIOUS
<1>1. IInv
  BY InitIInv
<1>2. /\ Seq0 \in Nat /\ Depth \in Nat /\ Depth > 1 /\ tx = Seq0 /\ ppc = "idle"
  BY McacheAssumption DEF Init
<1>3. ASSUME NEW n \in tx - Depth .. tx - 1
      PROVE  line[LineIdx(n)].seq = n - 1
  <2>1. n \in Seq0 - Depth .. Seq0 - 1 /\ n \in Int /\ LineIdx(n) \in Lines
    BY <1>2, LineIdxRange
  <2>2. PICK m \in Seq0 - Depth .. Seq0 - 1 :
          /\ LineIdx(m) = LineIdx(n)
          /\ line[LineIdx(n)] = [seq |-> m - 1, body |-> Meta(Seq0 - 1 - Depth)]
    BY <2>1, InitLine
  <2>3. m \in Int /\ m - n < Depth /\ n - m < Depth
    BY <1>2, <2>1
  <2>4. m = n
    BY <2>1, <2>2, <2>3, LineIdxInjective
  <2> QED BY <2>2, <2>4
<1>4. LinesInTurn
  <2> SUFFICES ASSUME NEW n \in tx - Depth .. tx - 1
               PROVE  line[LineIdx(n)].seq = IF n >= Seq0 THEN n ELSE n - 1
    BY <1>2 DEF LinesInTurn
  <2>1. ~(n >= Seq0)
    BY <1>2
  <2> QED BY <1>3, <2>1
<1>5. \A c \in Consumers : cpc[c] = "off"
  BY DEF Init
<1> QED BY <1>1, <1>2, <1>4, <1>5 DEF RInv, FoundLater, Variants

\* The line of tx is written; tx may move on.
LEMMA TurnStep ==
  ASSUME IInv, LinesInTurn,
         \A i \in Lines \ {LineIdx(tx)} : line'[i].seq = line[i].seq,
         \/ /\ ppc # "body" /\ ppc' = "body" /\ tx' = tx
            /\ line'[LineIdx(tx)].seq = tx - 1
         \/ /\ ppc' # "body" /\ tx' = tx + 1
            /\ line'[LineIdx(tx)].seq = tx
  PROVE  LinesInTurn'
<1> USE Facts
<1>0. Seq0 \in Nat /\ Depth \in Nat /\ Depth > 1 /\ tx \in Nat /\ tx >= Seq0
  BY DEF Bounds
<1>1. ASSUME NEW n \in Int, n > tx - Depth, n < tx
      PROVE  line'[LineIdx(n)].seq = IF n >= Seq0 THEN n ELSE n - 1
  <2>1. n - tx < Depth /\ tx - n < Depth /\ n # tx
    BY <1>0, <1>1
  <2>2. LineIdx(n) # LineIdx(tx) /\ LineIdx(n) \in Lines
    BY <1>0, <2>1, LineIdxInjective, LineIdxRange
  <2>3. line'[LineIdx(n)].seq = line[LineIdx(n)].seq
    BY <2>2
  <2>4. n \in tx - Depth .. tx - 1 /\ n # tx - Depth
    BY <1>0, <1>1
  <2> QED BY <2>3, <2>4 DEF LinesInTurn
<1>2. CASE /\ ppc # "body" /\ ppc' = "body" /\ tx' = tx
           /\ line'[LineIdx(tx)].seq = tx - 1
  <2> SUFFICES ASSUME NEW n \in tx - Depth .. tx - 1
               PROVE  line'[LineIdx(n)].seq =
                        IF n = tx - Depth THEN tx - 1
                        ELSE IF n >= Seq0 THEN n ELSE n - 1
    BY <1>2 DEF LinesInTurn
  <2>1. CASE n = tx - Depth
    BY <1>0, <1>2, <2>1, LineIdxPeriod
  <2>2. CASE n # tx - Depth
    <3>1. n \in Int /\ n > tx - Depth /\ n < tx
      BY <1>0, <2>2
    <3> QED BY <1>1, <2>2, <3>1
  <2> QED BY <2>1, <2>2
<1>3. CASE /\ ppc' # "body" /\ tx' = tx + 1
           /\ line'[LineIdx(tx)].seq = tx
  <2> SUFFICES ASSUME NEW n \in (tx + 1) - Depth .. (tx + 1) - 1
               PROVE  line'[LineIdx(n)].seq = IF n >= Seq0 THEN n ELSE n - 1
    BY <1>3 DEF LinesInTurn
  <2>1. CASE n = tx
    BY <1>0, <1>3, <2>1
  <2>2. CASE n # tx
    <3>1. n \in Int /\ n > tx - Depth /\ n < tx
      BY <1>0, <2>2
    <3> QED BY <1>1, <3>1
  <2> QED BY <2>1, <2>2
<1> QED BY <1>2, <1>3

LEMMA RProducerStep ==
  ASSUME RInv, Producer
  PROVE  /\ LinesInTurn' /\ tx' \in Nat /\ tx' >= tx
         /\ PubKinds = {"avx"} => ppc' # "body"
<1> USE Facts DEF RInv
<1>0. /\ line \in [Lines -> [seq : Int, body : [Fields -> Int]]]
      /\ tx \in Nat /\ LineIdx(tx) \in Lines
  BY DEF TypeOK
<1>1. CASE PublishMark \/ PublishSse
  <2>1. PICK k \in {"plain", "sse"}, first \in SUBSET Fields : Mark(k, first)
    BY <1>1 DEF PublishMark, PublishSse
  <2>2. /\ ppc # "body" /\ ppc' = "body" /\ tx' = tx /\ k \in PubKinds
        /\ line' = [line EXCEPT ![LineIdx(tx)] =
             [seq |-> tx - 1, body |-> Stored(line[LineIdx(tx)].body, first, tx)]]
    BY <2>1 DEF Mark
  <2>3. /\ line'[LineIdx(tx)].seq = tx - 1
        /\ \A i \in Lines \ {LineIdx(tx)} : line'[i].seq = line[i].seq
    BY <1>0, <2>2
  <2> QED BY <1>0, <2>2, <2>3, TurnStep
<1>2. CASE PublishBody
  <2>1. /\ ppc' = ppc /\ tx' = tx
        /\ \A i \in Lines : line'[i].seq = line[i].seq
    BY <1>0, <1>2 DEF PublishBody
  <2>2. \A n \in tx - Depth .. tx - 1 : LineIdx(n) \in Lines
    BY <1>0, LineIdxRange
  <2> QED BY <1>0, <2>1, <2>2 DEF LinesInTurn, Variants
<1>3. CASE PublishSeq \/ PublishAvx
  <2>1. /\ ppc' # "body" /\ tx' = tx + 1
        /\ line'[LineIdx(tx)].seq = tx
        /\ \A i \in Lines \ {LineIdx(tx)} : line'[i].seq = line[i].seq
    BY <1>0, <1>3 DEF PublishSeq, PublishAvx
  <2> QED BY <1>0, <2>1, TurnStep
<1>4. CASE SeqUpdate \/ Shutdown \/ Restart
  <2>1. line' = line /\ tx' = tx /\ ppc # "body" /\ ppc' # "body"
    BY <1>4 DEF SeqUpdate, Shutdown, Restart, Bounds
  <2> QED BY <1>0, <2>1 DEF LinesInTurn
<1> QED BY <1>1, <1>2, <1>3, <1>4 DEF Producer

LEMMA RConsumerStep ==
  ASSUME RInv, IInv', NEW c \in Consumers, Join(c) \/ RunLoop(c)
  PROVE  RInv'
<1> USE Facts DEF RInv
<1>0. /\ rx \in [Consumers -> Int] /\ found \in [Consumers -> Int]
      /\ cpc \in [Consumers -> {"off", "poll", "copy", "spec", "recover"}]
      /\ copy \in [Consumers -> [Fields -> Int]]
      /\ todo \in [Consumers -> SUBSET Fields]
      /\ kind \in [Consumers -> {"plain", "sse", "avx"}]
      /\ rx[c] \in Seq0 .. tx
  BY DEF TypeOK, Bounds
<1>1. producerVars' = producerVars
  BY DEF Join, RunLoop, WaitSeq, WaitSse, WaitAvx, Load, WaitCopy, WaitTimeout,
     WaitRetry, WaitOverrun, WaitMeta, RecheckOverrun, Accept, Recover
<1>2. LinesInTurn'
  BY <1>1 DEF LinesInTurn, producerVars
<1>3. ASSUME /\ \A d \in Consumers \ {c} :
                  /\ rx'[d] = rx[d] /\ kind'[d] = kind[d] /\ cpc'[d] = cpc[d]
                  /\ found'[d] = found[d] /\ copy'[d] = copy[d],
             "seq0" \notin Recoveries => cpc'[c] # "recover",
             cpc'[c] = "copy" =>
               /\ found'[c] > rx'[c] => tx - rx'[c] >= Depth
               /\ kind'[c] = "avx" /\ found'[c] >= Seq0 =>
                    copy'[c] = Meta(found'[c])
      PROVE  RInv'
  <2>1. FoundLater'
    BY <1>1, <1>3 DEF FoundLater, producerVars
  <2>2. Variants'
    BY <1>1, <1>3 DEF Variants, producerVars
  <2> QED BY <1>2, <2>1, <2>2
\* What is loaded: LinesInTurn says how late the consumer is.
<1>4. ASSUME NEW k \in {"plain", "sse", "avx"}, NEW first \in SUBSET Fields,
             Load(c, k, first), k = "avx" => first = Fields
      PROVE  RInv'
  <2>1. /\ kind' = [kind EXCEPT ![c] = k] /\ k \in WaitKinds
        /\ found' = [found EXCEPT ![c] = Query(rx[c])]
        /\ copy' = [copy EXCEPT ![c] =
             [f \in Fields |-> IF f \in first
                THEN line[LineIdx(rx[c])].body[f] ELSE copy[c][f]]]
        /\ cpc' = [cpc EXCEPT ![c] = "copy"] /\ rx' = rx
    BY <1>4 DEF Load
  <2>2. Query(rx[c]) > rx[c] => tx - rx[c] >= Depth
    BY <1>0, Overtaken
  <2>3. ASSUME k = "avx", Query(rx[c]) >= Seq0
        PROVE  copy'[c] = Meta(Query(rx[c]))
    <3>1. ppc # "body"
      BY <2>1, <2>3, McacheAssumption DEF Variants
    <3>2. line[LineIdx(rx[c])].body = Meta(Query(rx[c]))
      BY <1>0, <2>3, <3>1, FragInLine
    <3>3. copy'[c] = [f \in Fields |-> line[LineIdx(rx[c])].body[f]]
      BY <1>0, <1>4, <2>1, <2>3
    <3> QED BY <3>2, <3>3 DEF Meta
  <2>4. /\ found'[c] = Query(rx[c]) /\ kind'[c] = k /\ rx'[c] = rx[c]
        /\ cpc'[c] = "copy"
    BY <1>0, <2>1
  <2>5. \A d \in Consumers \ {c} :
          /\ rx'[d] = rx[d] /\ kind'[d] = kind[d] /\ cpc'[d] = cpc[d]
          /\ found'[d] = found[d] /\ copy'[d] = copy[d]
    BY <1>0, <2>1
  <2> QED BY <1>3, <2>2, <2>3, <2>4, <2>5
<1>5. ASSUME WaitCopy(c) PROVE RInv'
  <2>1. /\ UNCHANGED <<rx, kind, found, cpc>> /\ cpc[c] = "copy"
        /\ todo[c] # {}
        /\ \A d \in Consumers \ {c} : copy'[d] = copy[d]
    BY <1>0, <1>5 DEF WaitCopy
  <2>2. kind[c] # "avx"
    BY <2>1 DEF CopiesIntact
  <2> QED BY <1>3, <2>1, <2>2 DEF FoundLater
<1>6. ASSUME cpc'[c] \in {"poll", "spec"} \/ ("seq0" \in Recoveries /\ cpc'[c] = "recover"),
             UNCHANGED <<kind, found, copy>>,
             \A d \in Consumers \ {c} : rx'[d] = rx[d] /\ cpc'[d] = cpc[d]
      PROVE  RInv'
  BY <1>3, <1>6
<1>7. ASSUME \/ Join(c) \/ WaitTimeout(c) \/ WaitRetry(c) \/ WaitMeta(c)
             \/ Accept(c) \/ Recover(c)
      PROVE  RInv'
  <2>1. /\ cpc'[c] \in {"poll", "spec"} /\ UNCHANGED <<kind, found, copy>>
        /\ \A d \in Consumers \ {c} : rx'[d] = rx[d] /\ cpc'[d] = cpc[d]
    BY <1>0, <1>7
       DEF Join, WaitTimeout, WaitRetry, WaitMeta, Accept, Recover
  <2> QED BY <1>6, <2>1
<1>8. ASSUME NEW seq, Overrun(c, seq), UNCHANGED <<kind, found, copy>>
      PROVE  RInv'
  <2>1. /\ \/ cpc'[c] = "poll"
           \/ "seq0" \in Recoveries /\ cpc'[c] = "recover"
        /\ \A d \in Consumers \ {c} : rx'[d] = rx[d] /\ cpc'[d] = cpc[d]
    BY <1>0, <1>8 DEF Overrun
  <2> QED BY <1>6, <1>8, <2>1
<1>9. ASSUME WaitOverrun(c) \/ RecheckOverrun(c) PROVE RInv'
  BY <1>8, <1>9 DEF WaitOverrun, RecheckOverrun
<1>10. ASSUME WaitSeq(c) \/ WaitSse(c) \/ WaitAvx(c) PROVE RInv'
  BY <1>4, <1>10 DEF WaitSeq, WaitSse, WaitAvx
<1> QED BY <1>5, <1>7, <1>9, <1>10 DEF RunLoop

LEMMA RInvStep == RInv /\ [Next]_vars => RInv'
<1> SUFFICES ASSUME RInv, [Next]_vars PROVE RInv'
  OBVIOUS
<1>1. IInv'
  BY IInvStep DEF RInv
<1>2. CASE Producer
  <2>1. UNCHANGED consumerVars
    BY <1>2 DEF Producer, PublishMark, PublishSse, Mark, PublishBody,
       PublishSeq, PublishAvx, SeqUpdate, Shutdown, Restart
  <2>2. /\ LinesInTurn' /\ tx' \in Nat /\ tx' >= tx
        /\ PubKinds = {"avx"} => ppc' # "body"
    BY <1>2, RProducerStep
  <2>3. Depth \in Nat /\ tx \in Nat /\ \A c \in Consumers : rx[c] \in Int
    BY Facts DEF RInv
  <2>4. FoundLater'
    <3> SUFFICES ASSUME NEW c \in Consumers, cpc[c] = "copy"
                 PROVE  /\ found[c] > rx[c] => tx' - rx[c] >= Depth
                        /\ kind[c] = "avx" /\ found[c] >= Seq0 =>
                             copy[c] = Meta(found[c])
      BY <2>1 DEF FoundLater, consumerVars
    <3>1. /\ found[c] > rx[c] => tx - rx[c] >= Depth
          /\ kind[c] = "avx" /\ found[c] >= Seq0 => copy[c] = Meta(found[c])
      BY DEF RInv, FoundLater
    <3>2. tx - rx[c] >= Depth => tx' - rx[c] >= Depth
      BY <2>2, <2>3
    <3> QED BY <3>1, <3>2
  <2>5. Variants'
    BY <2>1, <2>2 DEF RInv, Variants, consumerVars
  <2> QED BY <1>1, <2>2, <2>4, <2>5 DEF RInv
<1>3. ASSUME NEW c \in Consumers, Join(c) \/ RunLoop(c) PROVE RInv'
  BY <1>1, <1>3, RConsumerStep
<1>4. CASE UNCHANGED vars
  BY <1>1, <1>4 DEF vars, RInv, LinesInTurn, FoundLater, Variants
<1> QED BY <1>2, <1>3, <1>4 DEF Next

\* A consumer may also start over, at any time and anywhere up to the frag
\* published next: nothing that it had found or copied is used after that.
LEMMA StartOver ==
  ASSUME RInv, NEW c \in Consumers, NEW n \in Seq0 .. tx,
         rx' = [rx EXCEPT ![c] = n], cpc' = [cpc EXCEPT ![c] = "poll"],
         poll' \in [Consumers -> 1 .. PollMax],
         UNCHANGED <<kind, found, copy, todo, got, producerVars>>
  PROVE  RInv'
<1> USE Facts DEF RInv
<1>1. /\ rx \in [Consumers -> Int] /\ n \in Int
      /\ cpc \in [Consumers -> {"off", "poll", "copy", "spec", "recover"}]
      /\ found[c] \in Seq0 - Depth - 1 .. tx - 1
  BY DEF TypeOK, Bounds
<1>2. /\ rx' \in [Consumers -> Int]
      /\ cpc' \in [Consumers -> {"off", "poll", "copy", "spec", "recover"}]
      /\ rx'[c] = n /\ cpc'[c] = "poll"
      /\ \A d \in Consumers \ {c} : rx'[d] = rx[d] /\ cpc'[d] = cpc[d]
  BY <1>1
<1>3. TypeOK'
  BY <1>2 DEF TypeOK, producerVars
<1>4. IInv'
  BY <1>1, <1>2, <1>3, ConsumerFrame DEF producerVars
<1>5. LinesInTurn' /\ FoundLater' /\ Variants'
  BY <1>2 DEF LinesInTurn, FoundLater, Variants, producerVars
<1> QED BY <1>4, <1>5

LEMMA RInvHolds == Spec => []RInv
<1>1. Init => RInv
  BY InitRInv
<1>2. RInv /\ [Next]_vars => RInv'
  BY RInvStep
<1> QED BY <1>1, <1>2, PTL DEF Spec

-----------------------------------------------------------------------------
(* Theorems *)

\* fd_mcache_query tells at any instant where a frag is: it is held, it is yet
\* to come, or it is gone - also in the middle of a publish and across the
\* wrap of the sequence numbers.
THEOREM QueryTellsWhereHolds == Spec => []QueryTellsWhere
<1>1. ASSUME RInv PROVE QueryTellsWhere
  <2> SUFFICES ASSUME NEW s \in Seq0 .. Seq0 + MaxPub - 1
               PROVE  LET diff == SeqDiff(Query(s), s) IN
                      (diff = 0 <=> s \in Held) /\ (diff < 0 <=> s >= tx)
    BY DEF QueryTellsWhere
  <2>1. /\ Seq0 \in Nat /\ Depth \in Nat /\ MaxPub \in Nat
        /\ SeqHalf \in Nat \ {0} /\ MaxPub + Depth + 1 < SeqHalf
        /\ tx \in Nat /\ tx <= Seq0 + MaxPub
    BY <1>1, Facts, McacheAssumption DEF RInv, Bounds
  <2>2. s \in Int /\ s >= Seq0
    BY <2>1
  <2>3. /\ Query(s) \in Seq0 - Depth - 1 .. tx - 1
        /\ Query(s) = s <=> s \in Held
        /\ Query(s) < s <=> s >= tx
    BY <1>1, <2>2, QueryNow DEF RInv
  <2> DEFINE q == Query(s)
  <2> HIDE DEF q
  <2>4. q \in Int /\ q - s < SeqHalf /\ s - q <= SeqHalf
    BY <2>1, <2>3 DEF q
  <2>5. SeqDiff(q, s) = q - s
    BY <2>1, <2>2, <2>4, SeqDiffIs
  <2>6. SeqDiff(Query(s), s) = q - s
    BY <2>5 DEF q
  <2>7. (q - s = 0 <=> q = s) /\ (q - s < 0 <=> q < s)
    BY <2>2, <2>4
  <2> QED BY <2>3, <2>6, <2>7 DEF q
<1> QED BY <1>1, RInvHolds, PTL

\* What FD_MCACHE_WAIT_AVX hands over is the metadata of seq_found, of one
\* frag, for a consumer that has been overrun too.
THEOREM AvxMetaIsFoundHolds == Spec => []AvxMetaIsFound
<1>1. ASSUME RInv PROVE AvxMetaIsFound
  <2> SUFFICES ASSUME NEW c \in Consumers,
                      Polled(c), kind[c] = "avx", WaitDone(c)
               PROVE  copy[c] = Meta(found[c])
    BY DEF AvxMetaIsFound
  <2>1. SeqDiff(found[c], rx[c]) = found[c] - rx[c]
    BY <1>1, Decides DEF RInv
  <2>2. /\ Seq0 \in Nat /\ tx \in Nat /\ Depth \in Nat
        /\ rx[c] \in Seq0 .. tx /\ found[c] \in Seq0 - Depth - 1 .. tx - 1
    BY <1>1, Facts DEF RInv, Bounds
  <2>3. found[c] - rx[c] >= 0
    BY <2>1 DEF WaitDone
  <2>4. found[c] >= Seq0
    BY <2>2, <2>3
  <2> QED BY <1>1, <2>4 DEF RInv, FoundLater, Polled
<1> QED BY <1>1, RInvHolds, PTL

-----------------------------------------------------------------------------
(* The refinement: consumers that go on from what they have found.         *)

Joined == {c \in Consumers : cpc[c] # "off"}

\* Steps that a user of an mcache does not see.
LEMMA Stutters ==
  ASSUME UNCHANGED <<tx, rx, got>>, Joined' = Joined
  PROVE  UNCHANGED Abstract!vars
BY DEF Abstract!vars, Joined

LEMMA StillJoined ==
  ASSUME TypeOK, NEW c \in Consumers, cpc[c] # "off",
         NEW v, v # "off", cpc' = [cpc EXCEPT ![c] = v]
  PROVE  Joined' = Joined /\ c \in Joined
BY DEF Joined, TypeOK

\* A consumer that has been overrun goes on with a frag that is published.
LEMMA SkipStep ==
  ASSUME RInv, NEW c \in Consumers, cpc[c] # "off", "seq0" \notin Recoveries,
         NEW seq \in Int, Overrun(c, seq), seq > rx[c], seq <= tx - 1,
         tx - rx[c] >= Depth, tx' = tx, got' = got
  PROVE  Abstract!Skip(c)
<1>1. /\ rx' = [rx EXCEPT ![c] = seq] /\ cpc' = [cpc EXCEPT ![c] = "poll"]
  BY DEF Overrun
<1>2. Joined' = Joined /\ c \in Joined
  BY <1>1, StillJoined, Facts DEF RInv
<1>3. rx[c] \in Int /\ tx \in Int
  BY Facts DEF RInv
<1>4. seq \in rx[c] + 1 .. tx - 1
  BY <1>3
<1> QED BY <1>1, <1>2, <1>4 DEF Abstract!Skip, Joined

LEMMA RefinementStep ==
  ASSUME "seq0" \notin Recoveries, RInv, [Next]_vars
  PROVE  [Abstract!Next]_(Abstract!vars)
<1> USE Facts DEF RInv
<1>0. /\ cpc \in [Consumers -> {"off", "poll", "copy", "spec", "recover"}]
      /\ tx \in Nat /\ Seq0 \in Nat
      /\ \A c \in Consumers : rx[c] \in Seq0 .. tx /\ rx[c] \in Int
  BY DEF TypeOK, Bounds
<1>1. CASE PublishSeq \/ PublishAvx
  <2>1. tx' = tx + 1 /\ UNCHANGED <<rx, cpc, got>>
    BY <1>1 DEF PublishSeq, PublishAvx, consumerVars
  <2>2. Abstract!Publish
    BY <2>1 DEF Abstract!Publish
  <2> QED BY <2>2 DEF Abstract!Next
<1>2. CASE \/ PublishMark \/ PublishSse \/ PublishBody
           \/ SeqUpdate \/ Shutdown \/ Restart
  <2>1. UNCHANGED <<tx, rx, cpc, got>>
    BY <1>2 DEF PublishMark, PublishSse, Mark, PublishBody, SeqUpdate,
       Shutdown, Restart, consumerVars, Bounds
  <2> QED BY <2>1, Stutters DEF Joined
<1>3. ASSUME NEW c \in Consumers, Join(c)
      PROVE  Abstract!Join(c)
  <2>1. /\ cpc[c] = "off" /\ rx' = [rx EXCEPT ![c] = seqCell]
        /\ cpc' = [cpc EXCEPT ![c] = "poll"] /\ UNCHANGED <<tx, got>>
    BY <1>3 DEF Join, producerVars
  <2>2. c \notin Joined /\ Joined' = Joined \cup {c}
    BY <1>0, <2>1 DEF Joined
  <2>3. seqCell \in Seq0 .. tx
    BY DEF Bounds
  <2> QED BY <2>1, <2>2, <2>3 DEF Abstract!Join, Joined
<1>4. ASSUME NEW c \in Consumers,
             \/ WaitSeq(c) \/ WaitSse(c) \/ WaitAvx(c) \/ WaitTimeout(c)
             \/ WaitRetry(c) \/ WaitMeta(c)
      PROVE  UNCHANGED Abstract!vars
  <2>1. /\ UNCHANGED <<tx, rx, got>> /\ cpc[c] # "off"
        /\ \E v \in {"copy", "poll", "spec"} : cpc' = [cpc EXCEPT ![c] = v]
    BY <1>4 DEF WaitSeq, WaitSse, WaitAvx, Load, WaitTimeout, WaitRetry,
       WaitMeta, Polled, producerVars
  <2>2. Joined' = Joined
    BY <2>1, StillJoined
  <2> QED BY <2>1, <2>2, Stutters
<1>5. ASSUME NEW c \in Consumers, WaitCopy(c) PROVE UNCHANGED Abstract!vars
  BY <1>5, Stutters DEF WaitCopy, producerVars, Joined
\* Only a frag that is still in its line is delivered.
<1>6. ASSUME NEW c \in Consumers, Accept(c) PROVE Abstract!Receive(c)
  <2>1. /\ cpc[c] = "spec" /\ SeqEq(Query(rx[c]), rx[c])
        /\ got' = [got EXCEPT ![c] = copy[c]]
        /\ rx' = [rx EXCEPT ![c] = rx[c] + 1]
        /\ cpc' = [cpc EXCEPT ![c] = "poll"] /\ tx' = tx
    BY <1>6 DEF Accept, producerVars
  <2>2. rx[c] < tx /\ copy[c] = Meta(rx[c])
    BY <2>1 DEF CopiesIntact
  <2>3. rx[c] \in Held
    BY <1>0, <2>1, Decides, QueryNow
  <2>4. tx - rx[c] <= Depth
    BY <1>0, <2>3 DEF Held
  <2>5. Joined' = Joined /\ c \in Joined
    BY <2>1, StillJoined
  <2> QED BY <2>1, <2>2, <2>4, <2>5
       DEF Abstract!Receive, Abstract!Meta, Meta, Joined
<1>7. ASSUME NEW c \in Consumers, WaitOverrun(c) PROVE Abstract!Skip(c)
  <2>1. /\ cpc[c] = "copy" /\ Overrun(c, found[c]) /\ UNCHANGED <<tx, got>>
        /\ SeqDiff(found[c], rx[c]) >= 0 /\ SeqDiff(found[c], rx[c]) # 0
    BY <1>7 DEF WaitOverrun, WaitDone, Polled, producerVars
  <2>2. found[c] \in Seq0 - Depth - 1 .. tx - 1 /\ found[c] \in Int
    BY <1>0 DEF Bounds
  <2>3. found[c] > rx[c]
    BY <1>0, <2>1, <2>2, Decides
  <2>4. tx - rx[c] >= Depth
    BY <2>1, <2>3 DEF FoundLater
  <2>5. found[c] <= tx - 1
    BY <1>0, <2>2
  <2> QED BY <2>1, <2>2, <2>3, <2>4, <2>5, SkipStep
<1>8. ASSUME NEW c \in Consumers, RecheckOverrun(c) PROVE Abstract!Skip(c)
  <2>1. /\ cpc[c] = "spec" /\ Overrun(c, Query(rx[c])) /\ UNCHANGED <<tx, got>>
        /\ ~SeqEq(Query(rx[c]), rx[c])
    BY <1>8 DEF RecheckOverrun, producerVars
  <2>2. Query(rx[c]) >= rx[c] /\ Query(rx[c]) # rx[c]
    BY <2>1, Decides DEF CopiesIntact
  <2>3. Query(rx[c]) \in Seq0 - Depth - 1 .. tx - 1 /\ Query(rx[c]) \in Int
    BY <1>0, Decides
  <2>4. Query(rx[c]) > rx[c] /\ Query(rx[c]) <= tx - 1
    BY <1>0, <2>2, <2>3
  <2>5. tx - rx[c] >= Depth
    BY <1>0, <2>4, Overtaken
  <2> QED BY <2>1, <2>3, <2>4, <2>5, SkipStep
<1>9. ASSUME NEW c \in Consumers, Recover(c) PROVE FALSE
  BY <1>9 DEF Recover, Variants
<1>10. CASE UNCHANGED vars
  BY <1>10, Stutters DEF vars, Joined
<1> HIDE DEF RInv
<1> QED BY <1>1, <1>2, <1>3, <1>4, <1>5, <1>6, <1>7, <1>8, <1>9, <1>10
     DEF Next, Producer, RunLoop, Abstract!Next

\* The cache lines, marks, polls and overruns are a stream of frags of which
\* the last Depth can be received, whole and in order, and the others only be
\* skipped: for every depth, block, interleaving and number of consumers.
THEOREM ImplementsFragStreamHolds ==
  ASSUME "seq0" \notin Recoveries
  PROVE  Spec => ImplementsFragStream
<1>1. Init => Abstract!Init
  BY DEF Init, Abstract!Init, Abstract!Meta, Meta
<1>2. RInv /\ [Next]_vars => [Abstract!Next]_(Abstract!vars)
  BY RefinementStep
<1> QED BY <1>1, <1>2, RInvHolds, PTL
     DEF Spec, ImplementsFragStream, Abstract!Spec
=============================================================================
