--------------------------- MODULE UtilBase_proofs ---------------------------
(***************************************************************************)
(* Proofs about what fd_util_base.h offers to threads, for any number of   *)
(* them: turnstiles, blocks that run once, however they are nested, and    *)
(* the exchange of a word.                                                 *)
(***************************************************************************)
EXTENDS UtilBase, TLAPS

-----------------------------------------------------------------------------
(* TURNSTILES                                                              *)

LEMMA WrapAbove == Wrap \in Nat /\ Wrap > 1
BY UtilBaseAssumption DEF T!TurnstileAssumption

LEMMA TurnstileInit == T!Init => T!IInv
BY WrapAbove, SMT
   DEF T!Init, T!IInv, T!TypeOK, T!OneInside, T!NoLostUpdate, T!Inside

\* Counting modulo Wrap stays in range.
LEMMA Counts == ASSUME NEW n \in Nat PROVE (n + 1) % Wrap \in 0 .. Wrap - 1
BY WrapAbove, SMT

\* A step of one thread changes no other thread's pc, so who is inside changes
\* with that thread only.
LEMMA TurnstileTypeStep == T!IInv /\ [T!Next]_(T!vars) => T!TypeOK'
<1> SUFFICES ASSUME T!IInv, [T!Next]_(T!vars) PROVE T!TypeOK'
  OBVIOUS
<1> USE DEF T!IInv, T!TypeOK, T!Move
<1>1. CASE UNCHANGED T!vars
  BY <1>1, SMT DEF T!vars
<1>2. ASSUME NEW t \in Threads, T!Begin(t) PROVE T!TypeOK'
  BY <1>2, SMT DEF T!Begin
<1>3. ASSUME NEW t \in Threads, T!Test(t) PROVE T!TypeOK'
  BY <1>3, SMT DEF T!Test
<1>4. ASSUME NEW t \in Threads, T!Cas(t) PROVE T!TypeOK'
  BY <1>4, SMT DEF T!Cas
<1>5. ASSUME NEW t \in Threads, T!Load(t) PROVE T!TypeOK'
  BY <1>5, SMT DEF T!Load
<1>6. ASSUME NEW t \in Threads, T!Store(t) PROVE T!TypeOK'
  <2>1. seen[t] \in Nat /\ done \in Nat
    BY WrapAbove, SMT
  <2>2. work' \in 0 .. Wrap - 1 /\ done' \in 0 .. Wrap - 1
    BY <1>6, <2>1, Counts, Zenon DEF T!Store
  <2> QED
    BY <1>6, <2>2, SMT DEF T!Store
<1>7. ASSUME NEW t \in Threads, T!Break(t) PROVE T!TypeOK'
  BY <1>7, SMT DEF T!Break
<1>8. ASSUME NEW t \in Threads, T!Exit(t) PROVE T!TypeOK'
  BY <1>8, SMT DEF T!Exit
<1>9. ASSUME NEW t \in Threads, T!Blocked(t) PROVE T!TypeOK'
  BY <1>9, SMT DEF T!Blocked
<1> QED
  BY <1>1, <1>2, <1>3, <1>4, <1>5, <1>6, <1>7, <1>8, <1>9, Zenon
  DEF T!Next, T!Step

LEMMA ExclusionStep ==
  T!IInv /\ [T!Next]_(T!vars) => T!OneInside' /\ T!NoLostUpdate'
<1> SUFFICES ASSUME T!IInv, [T!Next]_(T!vars)
             PROVE  T!OneInside' /\ T!NoLostUpdate'
  OBVIOUS
<1> USE DEF T!IInv, T!TypeOK, T!OneInside, T!NoLostUpdate, T!Inside, T!Move
<1>1. CASE UNCHANGED T!vars
  BY <1>1, SMT DEF T!vars
<1>2. ASSUME NEW t \in Threads, T!Begin(t)
      PROVE  T!OneInside' /\ T!NoLostUpdate'
  BY <1>2, SMT DEF T!Begin
<1>3. ASSUME NEW t \in Threads, T!Test(t)
      PROVE  T!OneInside' /\ T!NoLostUpdate'
  BY <1>3, SMT DEF T!Test
\* The swap that finds 0 knows that nobody is inside.
<1>4. ASSUME NEW t \in Threads, T!Cas(t)
      PROVE  T!OneInside' /\ T!NoLostUpdate'
  <2>1. CASE state = 0
    BY <1>4, <2>1, SMT DEF T!Cas
  <2>2. CASE state # 0
    BY <1>4, <2>2, SMT DEF T!Cas
  <2> QED
    BY <2>1, <2>2
<1>5. ASSUME NEW t \in Threads, T!Load(t)
      PROVE  T!OneInside' /\ T!NoLostUpdate'
  BY <1>5, SMT DEF T!Load
\* What the thread has loaded is still there, so that its store adds one.
<1>6. ASSUME NEW t \in Threads, T!Store(t)
      PROVE  T!OneInside' /\ T!NoLostUpdate'
  <2>1. seen[t] = work /\ work = done
    BY <1>6, SMT DEF T!Store
  <2>2. T!NoLostUpdate'
    BY <1>6, <2>1, Zenon DEF T!Store
  <2>3. \A u \in Threads \ {t} : pc[u] \notin {"load", "store", "exit"}
    BY <1>6, SMT DEF T!Store
  <2>4. /\ pc' = [pc EXCEPT ![t] = "exit"] /\ pc[t] = "store"
        /\ state' = state /\ seen' = seen
    BY <1>6, Zenon DEF T!Store
  <2>5. T!OneInside'
    BY <2>3, <2>4, SMT
  <2> QED
    BY <2>2, <2>5
<1>7. ASSUME NEW t \in Threads, T!Break(t)
      PROVE  T!OneInside' /\ T!NoLostUpdate'
  BY <1>7, SMT DEF T!Break
\* The thread that unlocks was the only one inside.
<1>8. ASSUME NEW t \in Threads, T!Exit(t)
      PROVE  T!OneInside' /\ T!NoLostUpdate'
  BY <1>8, SMT DEF T!Exit
<1>9. ASSUME NEW t \in Threads, T!Blocked(t)
      PROVE  T!OneInside' /\ T!NoLostUpdate'
  BY <1>9, SMT DEF T!Blocked
<1> QED
  BY <1>1, <1>2, <1>3, <1>4, <1>5, <1>6, <1>7, <1>8, <1>9, Zenon
  DEF T!Next, T!Step

LEMMA TurnstileInv == T!Spec => []T!IInv
<1>1. T!Init => T!IInv
  BY TurnstileInit
<1>2. T!IInv /\ [T!Next]_(T!vars) => T!IInv'
  BY TurnstileTypeStep, ExclusionStep DEF T!IInv
<1> QED
  BY <1>1, <1>2, PTL DEF T!Spec

\* The variables keep their types: the word of a turnstile is 0 or 1.
THEOREM TurnstileTypeCorrect == T!Spec => []T!TypeOK
BY TurnstileInv, PTL DEF T!IInv

\* FD_TURNSTILE_BEGIN lets one thread in at a time, and while the word is 0
\* nobody is inside: blocking or not, leaving by a break or at the end.
THEOREM OneInsideHolds == T!Spec => []T!OneInside
BY TurnstileInv, PTL DEF T!IInv

\* So no update that the block makes with plain loads and stores is lost.
THEOREM NoLostUpdateHolds == T!Spec => []NoLostUpdate
BY TurnstileInv, PTL DEF T!IInv, NoLostUpdate

-----------------------------------------------------------------------------
(* BLOCKS THAT RUN ONCE                                                    *)

Frame == [block : O!Blocks, at : {"test", "cas", "body"}, todo : Seq(O!Blocks)]

OnceTypeOK ==
  /\ block_state \in [OnceBlocks -> {0, -1, 1}]
  /\ block_tstate \in [Threads -> [ThreadBlocks -> {0, 1}]]
  /\ stack \in [Threads -> Seq(Frame)]
  /\ began \in [Threads -> [O!Blocks -> Nat]]
  /\ ended \in [Threads -> [O!Blocks -> Nat]]

\* How deep blocks may nest: each is deeper than those nested in it.
Level == CHOOSE level \in [O!Blocks -> 0 .. O!Cardinality(O!Blocks)] :
  \A b \in O!Blocks : \A i \in DOMAIN Nested[b] : level[Nested[b][i]] < level[b]

\* The code of block b has come to its end, that of the blocks nested in it
\* included.
Settled(h, b) ==
  O!Ever(h, b) /\ \A k \in 1 .. Len(Nested[b]) : O!Ever(h, Nested[b][k])

\* A thread's stack.  Only the innermost block may not have begun yet; what is
\* nested in a block has ended, is yet to come, or is what the thread is in.
Sound(s, h) ==
  \A i \in 1 .. Len(s) :
    /\ s[i].at # "body" => i = 1 /\ s[i].todo = Nested[s[i].block]
    /\ s[i].at = "cas" => s[i].block \in OnceBlocks
    /\ s[i].at = "body" =>
         \A k \in 1 .. Len(Nested[s[i].block]) :
           \/ O!Ever(h, Nested[s[i].block][k])
           \/ \E m \in 1 .. Len(s[i].todo) : s[i].todo[m] = Nested[s[i].block][k]
           \/ i > 1 /\ s[i - 1].block = Nested[s[i].block][k]

\* The blocks of a stack are all different, and so are those yet to come.
Deepens(s) ==
  /\ \A i, j \in 1 .. Len(s) : i < j => Level[s[i].block] < Level[s[j].block]
  /\ \A i \in 1 .. Len(s) : \A m \in 1 .. Len(s[i].todo) :
       Level[s[i].todo[m]] < Level[s[i].block]

\* The words of the blocks against what has happened.
OnceWords ==
  \A b \in OnceBlocks :
    /\ block_state[b] = 0 => \A t \in Threads : began[t][b] = 0
    /\ block_state[b] = 1 => Settled(ended, b)
    /\ \A t, u \in Threads :
         began[t][b] <= 1 /\ (began[t][b] + began[u][b] > 1 => t = u)

\* The thread is in the code of block b.
InBody(s, b) == \E i \in 1 .. Len(s) : s[i].block = b /\ s[i].at = "body"

ThreadWords ==
  \A t \in Threads : \A b \in ThreadBlocks :
    /\ began[t][b] <= 1
    /\ block_tstate[t][b] = 1 => Settled(ended, b)
    /\ block_tstate[t][b] = 0 /\ began[t][b] > 0 => InBody(stack[t], b)

OnceInv ==
  /\ OnceTypeOK /\ OnceWords /\ ThreadWords
  /\ \A t \in Threads : Sound(stack[t], ended) /\ Deepens(stack[t])

\* Sequences as stacks, the top first.
LEMMA Replaced ==
  ASSUME NEW S, NEW s \in Seq(S), s # <<>>, NEW e \in S
  PROVE  LET r == <<e>> \o Tail(s) IN
         /\ r \in Seq(S) /\ Len(r) = Len(s) /\ r[1] = e
         /\ \A i \in 2 .. Len(s) : r[i] = s[i]
OBVIOUS

LEMMA Pushed ==
  ASSUME NEW S, NEW s \in Seq(S), s # <<>>, NEW e \in S, NEW d \in S
  PROVE  LET r == <<d, e>> \o Tail(s) IN
         /\ r \in Seq(S) /\ Len(r) = Len(s) + 1 /\ r[1] = d /\ r[2] = e
         /\ \A i \in 3 .. Len(s) + 1 : r[i] = s[i - 1]
OBVIOUS

LEMMA Popped ==
  ASSUME NEW S, NEW s \in Seq(S), s # <<>>
  PROVE  /\ Tail(s) \in Seq(S) /\ Len(Tail(s)) = Len(s) - 1
         /\ Head(s) = s[1] /\ s[1] \in S /\ Len(s) \in Nat \ {0}
         /\ \A i \in 1 .. Len(s) - 1 : Tail(s)[i] = s[i + 1]
         /\ \A i \in 1 .. Len(s) : s[i] \in S
OBVIOUS

LEMMA Levels ==
  /\ OnceBlocks \cap ThreadBlocks = {} /\ O!Blocks = OnceBlocks \cup ThreadBlocks
  /\ Roots \subseteq O!Blocks /\ Nested \in [O!Blocks -> Seq(O!Blocks)]
  /\ \A b \in O!Blocks : Level[b] \in Int
  /\ \A b \in O!Blocks : \A i \in 1 .. Len(Nested[b]) :
       Nested[b][i] \in O!Blocks /\ Level[Nested[b][i]] < Level[b]
<1> DEFINE Levelled(level) ==
             \A b \in O!Blocks : \A i \in DOMAIN Nested[b] :
               level[Nested[b][i]] < level[b]
<1>1. /\ OnceBlocks \cap ThreadBlocks = {} /\ O!Blocks = OnceBlocks \cup ThreadBlocks
      /\ Roots \subseteq O!Blocks /\ Nested \in [O!Blocks -> Seq(O!Blocks)]
      /\ \E level \in [O!Blocks -> 0 .. O!Cardinality(O!Blocks)] : Levelled(level)
  <2>1. O!OnceAssumption
    BY UtilBaseAssumption
  <2> QED BY <2>1, Zenon DEF O!OnceAssumption, O!Blocks
<1>2. Level \in [O!Blocks -> 0 .. O!Cardinality(O!Blocks)] /\ Levelled(Level)
  BY <1>1 DEF Level
<1>3. \A b \in O!Blocks : Level[b] \in Int
  BY <1>2
<1>4. ASSUME NEW b \in O!Blocks, NEW i \in 1 .. Len(Nested[b])
      PROVE  Nested[b][i] \in O!Blocks /\ Level[Nested[b][i]] < Level[b]
  BY <1>1, <1>2
<1> QED BY <1>1, <1>3, <1>4

LEMMA CountTyped ==
  ASSUME NEW h \in [Threads -> [O!Blocks -> Nat]], NEW t \in Threads,
         NEW b \in O!Blocks
  PROVE  O!Count(h, t, b) \in [Threads -> [O!Blocks -> Nat]]
BY DEF O!Count

\* What has ended stays ended.
LEMMA EverKept ==
  ASSUME OnceTypeOK, NEW t \in Threads, NEW b \in O!Blocks,
         ended' = O!Count(ended, t, b)
  PROVE  /\ O!Ever(ended', b)
         /\ \A c \in O!Blocks : O!Ever(ended, c) => O!Ever(ended', c)
         /\ ended' \in [Threads -> [O!Blocks -> Nat]]
BY DEF OnceTypeOK, O!Count, O!Ever

\* A stack stays sound while more blocks end.
LEMMA SoundKept ==
  ASSUME NEW s \in Seq(Frame), NEW g, NEW h, Sound(s, g),
         \A c \in O!Blocks : O!Ever(g, c) => O!Ever(h, c)
  PROVE  Sound(s, h)
<1> SUFFICES ASSUME NEW i \in 1 .. Len(s), s[i].at = "body",
                    NEW k \in 1 .. Len(Nested[s[i].block])
             PROVE  \/ O!Ever(h, Nested[s[i].block][k])
                    \/ \E m \in 1 .. Len(s[i].todo) :
                         s[i].todo[m] = Nested[s[i].block][k]
                    \/ i > 1 /\ s[i - 1].block = Nested[s[i].block][k]
  BY DEF Sound
<1>1. s[i] \in Frame /\ s[i].block \in O!Blocks
  <2>1. s[i] \in Frame
    OBVIOUS
  <2> QED BY <2>1 DEF Frame
<1>2. Nested[s[i].block][k] \in O!Blocks
  BY <1>1, Levels
<1> QED BY <1>2 DEF Sound

LEMMA SettledKept ==
  ASSUME NEW b \in O!Blocks, NEW g, NEW h, Settled(g, b),
         \A c \in O!Blocks : O!Ever(g, c) => O!Ever(h, c)
  PROVE  Settled(h, b)
BY Levels DEF Settled

\* What a thread may be in the middle of: its stack is not empty, and the top
\* is a block, a place in it and what it still has to encounter.
LEMMA TopOf ==
  ASSUME OnceTypeOK, NEW t \in Threads, O!Busy(t)
  PROVE  /\ stack[t] \in Seq(Frame) /\ stack[t] # <<>>
         /\ O!Top(t) = stack[t][1] /\ stack[t][1] \in Frame
         /\ stack[t][1].block \in O!Blocks
         /\ stack[t][1].todo \in Seq(O!Blocks)
         /\ Len(stack[t]) \in Nat \ {0}
         /\ \A i \in 1 .. Len(stack[t]) : stack[t][i] \in Frame
<1>1. stack[t] \in Seq(Frame) /\ stack[t] # <<>>
  BY DEF OnceTypeOK, O!Busy
<1>2. /\ O!Top(t) = stack[t][1] /\ stack[t][1] \in Frame
      /\ Len(stack[t]) \in Nat \ {0}
      /\ \A i \in 1 .. Len(stack[t]) : stack[t][i] \in Frame
  BY <1>1, Popped DEF O!Top
<1>3. stack[t][1].block \in O!Blocks /\ stack[t][1].todo \in Seq(O!Blocks)
  BY <1>2 DEF Frame
<1> QED BY <1>1, <1>2, <1>3

\* The thread moves on within the block at the top of its stack s.
LEMMA GotoStack ==
  ASSUME OnceTypeOK, NEW t \in Threads, O!Busy(t),
         NEW at \in {"test", "cas", "body"}, O!Goto(t, at)
  PROVE  /\ stack' \in [Threads -> Seq(Frame)]
         /\ \A u \in Threads : u # t => stack'[u] = stack[u]
         /\ Len(stack'[t]) = Len(stack[t])
         /\ stack'[t][1] = [stack[t][1] EXCEPT !.at = at]
         /\ \A i \in 2 .. Len(stack[t]) : stack'[t][i] = stack[t][i]
<1> DEFINE e == [stack[t][1] EXCEPT !.at = at]
<1>1. stack[t] \in Seq(Frame) /\ stack[t] # <<>> /\ stack[t][1] \in Frame
  BY TopOf
<1>2. e \in Frame
  BY <1>1 DEF Frame
<1> HIDE DEF e
<1>3. stack' = [stack EXCEPT ![t] = <<e>> \o Tail(stack[t])]
  BY DEF O!Goto, e
<1>4. stack \in [Threads -> Seq(Frame)]
  BY DEF OnceTypeOK
<1>5. /\ stack'[t] = <<e>> \o Tail(stack[t])
      /\ \A u \in Threads : u # t => stack'[u] = stack[u]
  BY <1>3, <1>4
<1>6. /\ stack'[t] \in Seq(Frame) /\ Len(stack'[t]) = Len(stack[t])
      /\ stack'[t][1] = e
      /\ \A i \in 2 .. Len(stack[t]) : stack'[t][i] = stack[t][i]
  BY <1>1, <1>2, <1>5, Replaced
<1>7. stack' \in [Threads -> Seq(Frame)]
  BY <1>3, <1>4, <1>5, <1>6
<1> QED BY <1>5, <1>6, <1>7 DEF e

\* It leaves that block.
LEMMA PopStack ==
  ASSUME OnceTypeOK, NEW t \in Threads, O!Busy(t), O!Pop(t)
  PROVE  /\ stack' \in [Threads -> Seq(Frame)]
         /\ \A u \in Threads : u # t => stack'[u] = stack[u]
         /\ Len(stack'[t]) = Len(stack[t]) - 1
         /\ \A i \in 1 .. Len(stack[t]) - 1 : stack'[t][i] = stack[t][i + 1]
<1>1. stack[t] \in Seq(Frame) /\ stack[t] # <<>>
  BY TopOf
<1>2. stack \in [Threads -> Seq(Frame)]
  BY DEF OnceTypeOK
<1>3. /\ stack'[t] = Tail(stack[t])
      /\ \A u \in Threads : u # t => stack'[u] = stack[u]
  BY <1>2 DEF O!Pop
<1>4. /\ Tail(stack[t]) \in Seq(Frame)
      /\ Len(Tail(stack[t])) = Len(stack[t]) - 1
      /\ \A i \in 1 .. Len(stack[t]) - 1 : Tail(stack[t])[i] = stack[t][i + 1]
  BY <1>1, Popped
<1>5. stack' \in [Threads -> Seq(Frame)]
  BY <1>2, <1>4 DEF O!Pop
<1> QED BY <1>3, <1>4, <1>5

\* It enters the next block nested in that one.
LEMMA NestStack ==
  ASSUME OnceTypeOK, NEW t \in Threads, O!Nest(t)
  PROVE  /\ stack' \in [Threads -> Seq(Frame)]
         /\ \A u \in Threads : u # t => stack'[u] = stack[u]
         /\ Len(stack'[t]) = Len(stack[t]) + 1
         /\ stack[t][1].todo[1] \in O!Blocks
         /\ stack'[t][1] = O!Push(t, stack[t][1].todo[1])
         /\ stack'[t][2] = [stack[t][1] EXCEPT !.todo = Tail(stack[t][1].todo)]
         /\ \A i \in 3 .. Len(stack[t]) + 1 : stack'[t][i] = stack[t][i - 1]
         /\ O!Busy(t) /\ stack[t][1].at = "body"
         /\ Len(stack[t][1].todo) \in Nat \ {0}
         /\ Len(Tail(stack[t][1].todo)) = Len(stack[t][1].todo) - 1
         /\ \A m \in 1 .. Len(stack[t][1].todo) - 1 :
              Tail(stack[t][1].todo)[m] = stack[t][1].todo[m + 1]
<1> DEFINE f == stack[t][1]
           e == [f EXCEPT !.todo = Tail(f.todo)]
           d == O!Push(t, Head(f.todo))
<1>1. O!Busy(t) /\ O!Top(t).at = "body" /\ O!Top(t).todo # <<>>
  BY DEF O!Nest, O!At
<1>2. /\ stack[t] \in Seq(Frame) /\ stack[t] # <<>> /\ f \in Frame
      /\ O!Top(t) = f /\ f.todo \in Seq(O!Blocks)
  BY <1>1, TopOf
<1>3. /\ Tail(f.todo) \in Seq(O!Blocks) /\ Head(f.todo) = f.todo[1]
      /\ f.todo[1] \in O!Blocks /\ Len(f.todo) \in Nat \ {0}
      /\ Len(Tail(f.todo)) = Len(f.todo) - 1
      /\ \A m \in 1 .. Len(f.todo) - 1 : Tail(f.todo)[m] = f.todo[m + 1]
  BY <1>1, <1>2, Popped
<1>4. e \in Frame
  BY <1>2, <1>3 DEF Frame
<1>5. Nested[f.todo[1]] \in Seq(O!Blocks)
  BY <1>3, Levels
<1>6. d \in Frame
  BY <1>3, <1>5 DEF O!Push, Frame
<1>7. stack \in [Threads -> Seq(Frame)]
  BY DEF OnceTypeOK
<1>8. stack' = [stack EXCEPT ![t] = <<d, e>> \o Tail(stack[t])]
  BY <1>2 DEF O!Nest
<1>9. d = O!Push(t, f.todo[1])
  BY <1>3
<1> HIDE DEF d, e
<1>10. /\ stack'[t] = <<d, e>> \o Tail(stack[t])
       /\ \A u \in Threads : u # t => stack'[u] = stack[u]
  BY <1>7, <1>8
<1>11. /\ stack'[t] \in Seq(Frame) /\ Len(stack'[t]) = Len(stack[t]) + 1
       /\ stack'[t][1] = d /\ stack'[t][2] = e
       /\ \A i \in 3 .. Len(stack[t]) + 1 : stack'[t][i] = stack[t][i - 1]
  BY <1>2, <1>4, <1>6, <1>10, Pushed
<1>12. stack' \in [Threads -> Seq(Frame)]
  BY <1>7, <1>8, <1>10, <1>11
<1> QED BY <1>1, <1>2, <1>3, <1>9, <1>10, <1>11, <1>12 DEF e

\* Moving on within the innermost block, which has not begun yet, ...
LEMMA GotoKeeps ==
  ASSUME NEW s, NEW r, NEW h,
         NEW at \in {"test", "cas", "body"},
         \A i \in 1 .. Len(s) : s[i] \in Frame, Len(s) \in Nat \ {0},
         Len(r) = Len(s), r[1] = [s[1] EXCEPT !.at = at],
         \A i \in 2 .. Len(s) : r[i] = s[i],
         Sound(s, h), Deepens(s), s[1].at # "body",
         at = "cas" => s[1].block \in OnceBlocks
  PROVE  /\ Sound(r, h) /\ Deepens(r)
         /\ \A b \in O!Blocks : InBody(s, b) => InBody(r, b)
<1>1. \A i \in 1 .. Len(s) : s[i] \in Frame
  OBVIOUS
<1>2. r[1].block = s[1].block /\ r[1].todo = s[1].todo /\ r[1].at = at
  BY <1>1 DEF Frame
<1>3. ASSUME NEW i \in 1 .. Len(r)
      PROVE  r[i].block = s[i].block /\ r[i].todo = s[i].todo
  <2>1. i = 1 \/ i \in 2 .. Len(s)
    OBVIOUS
  <2> QED BY <1>2, <2>1
<1>4. Deepens(r)
  BY <1>3 DEF Deepens
<1>5. ASSUME NEW i \in 1 .. Len(r), r[i].at # "body"
      PROVE  i = 1 /\ r[i].todo = Nested[r[i].block]
  BY <1>3, <1>5 DEF Sound
<1>6. ASSUME NEW i \in 1 .. Len(r), r[i].at = "cas"
      PROVE  r[i].block \in OnceBlocks
  <2>1. CASE i = 1
    BY <1>2, <1>6, <2>1
  <2>2. CASE i # 1
    BY <1>5, <1>6, <2>2
  <2> QED BY <2>1, <2>2
<1>7. ASSUME NEW i \in 1 .. Len(r), r[i].at = "body",
             NEW k \in 1 .. Len(Nested[r[i].block])
      PROVE  \/ O!Ever(h, Nested[r[i].block][k])
             \/ \E m \in 1 .. Len(r[i].todo) : r[i].todo[m] = Nested[r[i].block][k]
             \/ i > 1 /\ r[i - 1].block = Nested[r[i].block][k]
  <2>1. CASE i = 1
    <3>1. r[1].todo = Nested[r[1].block]
      BY <1>2 DEF Sound
    <3> QED BY <2>1, <3>1
  <2>2. CASE i > 1
    <3>1. s[i].at = "body" /\ r[i] = s[i]
      BY <1>7, <2>2
    <3>2. i - 1 \in 1 .. Len(s)
      BY <2>2
    <3> QED BY <1>3, <2>2, <3>1, <3>2 DEF Sound
  <2> QED BY <2>1, <2>2
<1>8. Sound(r, h)
  BY <1>5, <1>6, <1>7, Zenon DEF Sound
<1>9. ASSUME NEW b \in O!Blocks, InBody(s, b)
      PROVE  InBody(r, b)
  <2>1. PICK i \in 1 .. Len(s) : s[i].block = b /\ s[i].at = "body"
    BY <1>9 DEF InBody
  <2>2. i \in 2 .. Len(s)
    BY <2>1
  <2> QED BY <2>1, <2>2 DEF InBody
<1> QED BY <1>4, <1>8, <1>9

\* ... leaving it, once it has ended, ...
LEMMA PopKeeps ==
  ASSUME NEW s, NEW r, NEW h,
         \A i \in 1 .. Len(s) : s[i] \in Frame, Len(s) \in Nat \ {0},
         Len(r) = Len(s) - 1,
         \A i \in 1 .. Len(s) - 1 : r[i] = s[i + 1],
         Sound(s, h), Deepens(s), O!Ever(h, s[1].block)
  PROVE  /\ Sound(r, h) /\ Deepens(r)
         /\ \A b \in O!Blocks :
              InBody(s, b) /\ (s[1].block # b \/ s[1].at # "body") => InBody(r, b)
<1>1. \A i \in 1 .. Len(r) : i + 1 \in 2 .. Len(s) /\ r[i] = s[i + 1]
  OBVIOUS
<1>2. Deepens(r)
  <2>1. ASSUME NEW i \in 1 .. Len(r), NEW j \in 1 .. Len(r), i < j
        PROVE  Level[r[i].block] < Level[r[j].block]
    <3>1. i + 1 \in 1 .. Len(s) /\ j + 1 \in 1 .. Len(s) /\ i + 1 < j + 1
      BY <2>1
    <3> QED BY <1>1, <3>1 DEF Deepens
  <2>2. ASSUME NEW i \in 1 .. Len(r), NEW m \in 1 .. Len(r[i].todo)
        PROVE  Level[r[i].todo[m]] < Level[r[i].block]
    <3>1. i + 1 \in 1 .. Len(s) /\ r[i] = s[i + 1]
      BY <1>1
    <3>2. m \in 1 .. Len(s[i + 1].todo)
      BY <3>1
    <3> QED BY <3>1, <3>2 DEF Deepens
  <2> QED BY <2>1, <2>2, Zenon DEF Deepens
<1>3. ASSUME NEW i \in 1 .. Len(r)
      PROVE  r[i].at = "body"
  BY <1>1 DEF Sound
<1>4. ASSUME NEW i \in 1 .. Len(r), NEW k \in 1 .. Len(Nested[r[i].block])
      PROVE  \/ O!Ever(h, Nested[r[i].block][k])
             \/ \E m \in 1 .. Len(r[i].todo) : r[i].todo[m] = Nested[r[i].block][k]
             \/ i > 1 /\ r[i - 1].block = Nested[r[i].block][k]
  <2>1. /\ i + 1 \in 1 .. Len(s) /\ i + 1 > 1 /\ s[i + 1].at = "body"
        /\ r[i] = s[i + 1] /\ (i + 1) - 1 = i
    BY <1>1, <1>3
  <2>2. \/ O!Ever(h, Nested[r[i].block][k])
        \/ \E m \in 1 .. Len(r[i].todo) : r[i].todo[m] = Nested[r[i].block][k]
        \/ s[i].block = Nested[r[i].block][k]
    <3>1. k \in 1 .. Len(Nested[s[i + 1].block])
      BY <2>1
    <3>2. \/ O!Ever(h, Nested[s[i + 1].block][k])
          \/ \E m \in 1 .. Len(s[i + 1].todo) :
               s[i + 1].todo[m] = Nested[s[i + 1].block][k]
          \/ i + 1 > 1 /\ s[(i + 1) - 1].block = Nested[s[i + 1].block][k]
      BY <2>1, <3>1, Zenon DEF Sound
    <3> QED BY <2>1, <3>2, Zenon
  <2>3. i = 1 \/ (i > 1 /\ r[i - 1] = s[i])
    OBVIOUS
  <2> QED BY <2>2, <2>3
<1>5. Sound(r, h)
  BY <1>3, <1>4, Zenon DEF Sound
<1>6. ASSUME NEW b \in O!Blocks, InBody(s, b), s[1].block # b \/ s[1].at # "body"
      PROVE  InBody(r, b)
  <2>1. PICK i \in 1 .. Len(s) : s[i].block = b /\ s[i].at = "body"
    BY <1>6 DEF InBody
  <2>2. i - 1 \in 1 .. Len(r) /\ r[i - 1] = s[i]
    BY <1>6, <2>1
  <2> QED BY <2>1, <2>2 DEF InBody
<1> QED BY <1>2, <1>5, <1>6

\* ... and entering a block nested in it keep a stack sound.
LEMMA NestKeeps ==
  ASSUME NEW s, NEW r, NEW h,
         \A i \in 1 .. Len(s) : s[i] \in Frame, Len(s) \in Nat \ {0},
         Len(r) = Len(s) + 1,
         s[1].at = "body", Len(s[1].todo) \in Nat \ {0},
         s[1].todo[1] \in O!Blocks, r[1].block = s[1].todo[1], r[1].at = "test",
         r[1].todo = Nested[s[1].todo[1]],
         r[2].block = s[1].block, r[2].at = "body",
         Len(r[2].todo) = Len(s[1].todo) - 1,
         \A m \in 1 .. Len(r[2].todo) : r[2].todo[m] = s[1].todo[m + 1],
         \A i \in 3 .. Len(s) + 1 : r[i] = s[i - 1],
         Sound(s, h), Deepens(s)
  PROVE  /\ Sound(r, h) /\ Deepens(r)
         /\ \A b \in O!Blocks : InBody(s, b) => InBody(r, b)
<1> DEFINE d == s[1].todo[1]
           left == r[2].todo
<1>0. /\ d \in O!Blocks /\ d = s[1].todo[1]
      /\ r[1].block = d /\ r[1].todo = Nested[d]
      /\ r[2].todo = left /\ Len(left) = Len(s[1].todo) - 1
      /\ \A m \in 1 .. Len(left) : left[m] = s[1].todo[m + 1]
  OBVIOUS
<1> HIDE DEF d, left
<1> USE <1>0
<1>1. \A i \in 1 .. Len(s) : s[i] \in Frame /\ s[i].block \in O!Blocks
  <2>1. \A i \in 1 .. Len(s) : s[i] \in Frame
    OBVIOUS
  <2> QED BY <2>1 DEF Frame
<1>2. ASSUME NEW i \in 1 .. Len(r)
      PROVE  i = 1 \/ i = 2 \/ (i > 2 /\ r[i] = s[i - 1])
  OBVIOUS
<1>3. ASSUME NEW i \in 1 .. Len(r), i > 1
      PROVE  i - 1 \in 1 .. Len(s)
  BY <1>3
<1>4. ASSUME NEW i \in 1 .. Len(r), i > 1
      PROVE  r[i].block = s[i - 1].block
  <2>1. CASE i = 2
    BY <2>1
  <2>2. CASE i > 2
    BY <1>2, <2>2
  <2> QED BY <1>4, <2>1, <2>2
<1>5. Level[d] \in Int /\ \A i \in 1 .. Len(s) : Level[s[i].block] \in Int
  BY <1>1, Levels
<1>6. \A i \in 1 .. Len(s) : Level[d] < Level[s[i].block]
  <2>1. Level[d] < Level[s[1].block]
    BY DEF Deepens
  <2>2. \A i \in 1 .. Len(s) : i > 1 => Level[s[1].block] < Level[s[i].block]
    BY DEF Deepens
  <2> QED BY <1>5, <2>1, <2>2
<1>7. ASSUME NEW i \in 1 .. Len(r), NEW j \in 1 .. Len(r), i < j
      PROVE  Level[r[i].block] < Level[r[j].block]
  <2>1. CASE i = 1
    <3>1. j > 1
      BY <1>7, <2>1
    <3>2. j - 1 \in 1 .. Len(s) /\ r[j].block = s[j - 1].block
      BY <1>3, <1>4, <3>1
    <3>3. Level[d] < Level[s[j - 1].block]
      BY <1>6, <3>2
    <3> QED BY <2>1, <3>2, <3>3
  <2>2. CASE i > 1
    <3>1. i - 1 \in 1 .. Len(s) /\ j - 1 \in 1 .. Len(s) /\ i - 1 < j - 1
      BY <1>7, <2>2
    <3>2. r[i].block = s[i - 1].block /\ r[j].block = s[j - 1].block
      BY <1>4, <1>7, <2>2
    <3> QED BY <3>1, <3>2 DEF Deepens
  <2> QED BY <2>1, <2>2
<1>8. ASSUME NEW i \in 1 .. Len(r), NEW m \in 1 .. Len(r[i].todo)
      PROVE  Level[r[i].todo[m]] < Level[r[i].block]
  <2>1. CASE i = 1
    BY <2>1, Levels
  <2>2. CASE i = 2
    <3>1. m \in 1 .. Len(left)
      BY <2>2
    <3>2. m + 1 \in 1 .. Len(s[1].todo) /\ left[m] = s[1].todo[m + 1]
      BY <3>1
    <3>3. Level[s[1].todo[m + 1]] < Level[s[1].block]
      BY <3>2 DEF Deepens
    <3> QED BY <2>2, <3>2, <3>3
  <2>3. CASE i > 2
    <3>1. i - 1 \in 1 .. Len(s) /\ r[i] = s[i - 1]
      BY <1>2, <1>3, <2>3
    <3>2. m \in 1 .. Len(s[i - 1].todo)
      BY <3>1
    <3> QED BY <3>1, <3>2 DEF Deepens
  <2> QED BY <1>2, <2>1, <2>2, <2>3
<1>9. Deepens(r)
  BY <1>7, <1>8, Zenon DEF Deepens
<1>10. ASSUME NEW i \in 1 .. Len(r), i > 2
       PROVE  r[i] = s[i - 1] /\ i - 1 \in 1 .. Len(s) /\ s[i - 1].at = "body"
  <2>1. r[i] = s[i - 1] /\ i - 1 \in 1 .. Len(s) /\ i - 1 # 1
    BY <1>2, <1>3, <1>10
  <2> QED BY <2>1 DEF Sound
<1>11. ASSUME NEW i \in 1 .. Len(r), r[i].at # "body"
       PROVE  i = 1 /\ r[i].todo = Nested[r[i].block]
  <2>1. i # 2
    BY <1>11
  <2>2. ~(i > 2)
    BY <1>10, <1>11
  <2>3. i = 1
    BY <1>2, <2>1, <2>2
  <2> QED BY <2>3
<1>12. ASSUME NEW i \in 1 .. Len(r), r[i].at = "cas"
       PROVE  FALSE
  <2>1. i = 1
    BY <1>11, <1>12
  <2> QED BY <1>12, <2>1
<1>13. ASSUME NEW i \in 1 .. Len(r), r[i].at = "body",
              NEW k \in 1 .. Len(Nested[r[i].block])
       PROVE  \/ O!Ever(h, Nested[r[i].block][k])
              \/ \E m \in 1 .. Len(r[i].todo) : r[i].todo[m] = Nested[r[i].block][k]
              \/ i > 1 /\ r[i - 1].block = Nested[r[i].block][k]
  <2>1. i # 1
    BY <1>13
  <2>2. CASE i = 2
    <3> DEFINE n == Nested[s[1].block][k]
    <3>1. k \in 1 .. Len(Nested[s[1].block]) /\ Nested[r[i].block][k] = n
      BY <2>2
    <3>2. \/ O!Ever(h, n)
          \/ \E m \in 1 .. Len(s[1].todo) : s[1].todo[m] = n
      <4>1. 1 \in 1 .. Len(s) /\ ~(1 > 1)
        OBVIOUS
      <4> QED BY <3>1, <4>1, Zenon DEF Sound
    <3>3. ASSUME NEW m \in 1 .. Len(s[1].todo), s[1].todo[m] = n
          PROVE  n = d \/ \E l \in 1 .. Len(left) : left[l] = n
      <4>1. CASE m = 1
        BY <3>3, <4>1
      <4>2. CASE m > 1
        <5>1. m - 1 \in 1 .. Len(left) /\ (m - 1) + 1 = m
          BY <4>2
        <5>2. left[m - 1] = n
          BY <3>3, <5>1
        <5> QED BY <5>1, <5>2
      <4> QED BY <4>1, <4>2
    <3> HIDE DEF n
    <3>4. /\ r[i].todo = left
          /\ i > 1
          /\ r[i - 1].block = d
      BY <2>2
    <3> QED BY <3>1, <3>2, <3>3, <3>4, Zenon
  <2>3. CASE i > 2
    <3>1. /\ i - 1 \in 1 .. Len(s) /\ r[i] = s[i - 1] /\ s[i - 1].at = "body"
          /\ i > 1 /\ k \in 1 .. Len(Nested[s[i - 1].block])
      BY <1>10, <2>3
    <3>2. r[i - 1].block = s[(i - 1) - 1].block
      <4>1. i - 1 \in 1 .. Len(r) /\ i - 1 > 1
        BY <2>3
      <4> QED BY <1>4, <4>1
    <3>3. \/ O!Ever(h, Nested[s[i - 1].block][k])
          \/ \E m \in 1 .. Len(s[i - 1].todo) :
               s[i - 1].todo[m] = Nested[s[i - 1].block][k]
          \/ i - 1 > 1 /\ s[(i - 1) - 1].block = Nested[s[i - 1].block][k]
      BY <3>1, Zenon DEF Sound
    <3> QED BY <3>1, <3>2, <3>3, Zenon
  <2> QED BY <1>2, <2>1, <2>2, <2>3
<1>14. Sound(r, h)
  BY <1>11, <1>12, <1>13, Zenon DEF Sound
<1>15. ASSUME NEW b \in O!Blocks, InBody(s, b)
       PROVE  InBody(r, b)
  <2>1. PICK i \in 1 .. Len(s) : s[i].block = b /\ s[i].at = "body"
    BY <1>15 DEF InBody
  <2>2. CASE i = 1
    <3>1. 2 \in 1 .. Len(r) /\ r[2].block = b /\ r[2].at = "body"
      BY <2>1, <2>2
    <3> QED BY <3>1 DEF InBody
  <2>3. CASE i > 1
    <3>1. i + 1 \in 1 .. Len(r) /\ i + 1 > 2 /\ (i + 1) - 1 = i
      BY <2>3
    <3>2. r[i + 1] = s[i]
      BY <1>2, <3>1
    <3> QED BY <2>1, <3>1, <3>2 DEF InBody
  <2> QED BY <2>2, <2>3
<1> QED BY <1>9, <1>14, <1>15

\* Only the stack of the thread that takes the step changes.
LEMMA OneStackChanges ==
  ASSUME OnceInv, NEW t \in Threads, stack' \in [Threads -> Seq(Frame)],
         \A u \in Threads : u # t => stack'[u] = stack[u],
         Sound(stack'[t], ended') /\ Deepens(stack'[t]),
         \A c \in O!Blocks : O!Ever(ended, c) => O!Ever(ended', c)
  PROVE  \A u \in Threads : Sound(stack'[u], ended') /\ Deepens(stack'[u])
<1> SUFFICES ASSUME NEW u \in Threads, u # t
             PROVE  Sound(stack'[u], ended') /\ Deepens(stack'[u])
  OBVIOUS
<1>1. stack'[u] = stack[u] /\ stack[u] \in Seq(Frame)
  BY DEF OnceInv, OnceTypeOK
<1>2. Sound(stack[u], ended) /\ Deepens(stack[u])
  BY DEF OnceInv
<1>3. Sound(stack[u], ended')
  BY <1>1, <1>2, SoundKept
<1> QED BY <1>1, <1>2, <1>3

\* A step that changes no word and begins and ends nothing.
LEMMA QuietStep ==
  ASSUME OnceInv, NEW t \in Threads,
         UNCHANGED <<block_state, block_tstate, began, ended>>,
         stack' \in [Threads -> Seq(Frame)],
         \A u \in Threads : u # t => stack'[u] = stack[u],
         Sound(stack'[t], ended) /\ Deepens(stack'[t]),
         \A b \in ThreadBlocks : InBody(stack[t], b) => InBody(stack'[t], b)
  PROVE  OnceInv'
<1>1. OnceTypeOK'
  BY DEF OnceInv, OnceTypeOK
<1>2. OnceWords'
  BY SMT DEF OnceInv, OnceWords, Settled, O!Ever
<1>3. ASSUME NEW u \in Threads, NEW b \in ThreadBlocks,
             InBody(stack[u], b)
      PROVE  InBody(stack'[u], b)
  BY <1>3
<1>4. ThreadWords'
  <2> SUFFICES ASSUME NEW u \in Threads, NEW b \in ThreadBlocks
               PROVE  /\ began[u][b] <= 1
                      /\ block_tstate[u][b] = 1 => Settled(ended, b)
                      /\ /\ block_tstate[u][b] = 0
                         /\ began[u][b] > 0
                         => InBody(stack'[u], b)
    BY DEF ThreadWords
  <2> QED BY <1>3 DEF OnceInv, ThreadWords
<1>5. \A u \in Threads : Sound(stack'[u], ended') /\ Deepens(stack'[u])
  BY OneStackChanges
<1> QED BY <1>1, <1>2, <1>4, <1>5 DEF OnceInv

\* The thread leaves a block that somebody has run: the word, which OncePass
\* and ThreadOnceBegin have read, says so.
LEMMA LeaveStep ==
  ASSUME OnceInv, NEW t \in Threads, O!Busy(t), O!Pop(t),
         UNCHANGED <<block_state, block_tstate, began, ended>>,
         O!Top(t).at = "test", Settled(ended, O!Top(t).block)
  PROVE  OnceInv'
<1>1. /\ stack[t] \in Seq(Frame) /\ Len(stack[t]) \in Nat \ {0}
      /\ O!Top(t) = stack[t][1]
      /\ \A i \in 1 .. Len(stack[t]) : stack[t][i] \in Frame
  BY TopOf DEF OnceInv
<1>2. /\ stack' \in [Threads -> Seq(Frame)]
      /\ \A u \in Threads : u # t => stack'[u] = stack[u]
      /\ Len(stack'[t]) = Len(stack[t]) - 1
      /\ \A i \in 1 .. Len(stack[t]) - 1 : stack'[t][i] = stack[t][i + 1]
  BY PopStack DEF OnceInv
<1>3. Sound(stack[t], ended) /\ Deepens(stack[t])
  BY DEF OnceInv
<1>4. O!Ever(ended, stack[t][1].block)
  BY <1>1 DEF Settled
<1>5. /\ Sound(stack'[t], ended) /\ Deepens(stack'[t])
      /\ \A b \in O!Blocks :
           InBody(stack[t], b) /\ (stack[t][1].block # b \/ stack[t][1].at # "body")
             => InBody(stack'[t], b)
  BY <1>1, <1>2, <1>3, <1>4, PopKeeps
<1>6. \A b \in ThreadBlocks : InBody(stack[t], b) => InBody(stack'[t], b)
  BY <1>1, <1>5, Levels
<1> QED BY <1>2, <1>5, <1>6, QuietStep

\* It moves on within a block that it has not begun.
LEMMA MoveStep ==
  ASSUME OnceInv, NEW t \in Threads, O!Busy(t), O!Top(t).at # "body",
         NEW at \in {"test", "cas"}, O!Goto(t, at), O!Top(t).block \in OnceBlocks,
         UNCHANGED <<block_state, block_tstate, began, ended>>
  PROVE  OnceInv'
<1>1. /\ stack[t] \in Seq(Frame) /\ Len(stack[t]) \in Nat \ {0}
      /\ O!Top(t) = stack[t][1]
      /\ \A i \in 1 .. Len(stack[t]) : stack[t][i] \in Frame
  BY TopOf DEF OnceInv
<1>2. /\ stack' \in [Threads -> Seq(Frame)]
      /\ \A u \in Threads : u # t => stack'[u] = stack[u]
      /\ Len(stack'[t]) = Len(stack[t])
      /\ stack'[t][1] = [stack[t][1] EXCEPT !.at = at]
      /\ \A i \in 2 .. Len(stack[t]) : stack'[t][i] = stack[t][i]
  BY GotoStack DEF OnceInv
<1>3. Sound(stack[t], ended) /\ Deepens(stack[t])
  BY DEF OnceInv
<1>4. /\ Sound(stack'[t], ended) /\ Deepens(stack'[t])
      /\ \A b \in O!Blocks : InBody(stack[t], b) => InBody(stack'[t], b)
  BY <1>1, <1>2, <1>3, GotoKeeps
<1>5. \A b \in ThreadBlocks : InBody(stack[t], b) => InBody(stack'[t], b)
  BY <1>4, Levels
<1> QED BY <1>2, <1>4, <1>5, QuietStep

LEMMA EncounterStep ==
  ASSUME OnceInv, NEW t \in Threads, O!Encounter(t)
  PROVE  OnceInv'
<1>1. PICK b \in Roots : stack' = [stack EXCEPT ![t] = <<O!Push(t, b)>>]
  BY DEF O!Encounter
<1>2. b \in O!Blocks /\ Nested[b] \in Seq(O!Blocks)
  BY Levels
<1> DEFINE d == O!Push(t, b)
<1>3. d \in Frame /\ d.block = b /\ d.at = "test" /\ d.todo = Nested[b]
  BY <1>2 DEF O!Push, Frame
<1> HIDE DEF d
<1>4. stack \in [Threads -> Seq(Frame)] /\ stack[t] = <<>>
  BY DEF OnceInv, OnceTypeOK, O!Encounter, O!Busy
<1>5. stack' = [stack EXCEPT ![t] = <<d>>]
  BY <1>1 DEF d
<1>6. /\ stack' \in [Threads -> Seq(Frame)]
      /\ stack'[t] = <<d>>
      /\ \A u \in Threads : u # t => stack'[u] = stack[u]
  BY <1>3, <1>4, <1>5
<1>7. Len(stack'[t]) = 1 /\ stack'[t][1] = d
  BY <1>6
<1>8. \A i \in 1 .. Len(stack'[t]) : i = 1
  BY <1>7
<1>9. Sound(stack'[t], ended)
  BY <1>3, <1>7, <1>8 DEF Sound
<1>10. Deepens(stack'[t])
  <2>1. \A m \in 1 .. Len(Nested[b]) : Level[Nested[b][m]] < Level[b]
    BY <1>2, Levels
  <2> QED BY <1>3, <1>7, <1>8, <2>1 DEF Deepens
<1>11. \A c \in ThreadBlocks : ~InBody(stack[t], c)
  BY <1>4 DEF InBody
<1> QED BY <1>6, <1>9, <1>10, <1>11, QuietStep DEF O!Encounter

LEMMA NestStep ==
  ASSUME OnceInv, NEW t \in Threads, O!Nest(t)
  PROVE  OnceInv'
<1> DEFINE s == stack[t]
           r == stack'[t]
           left == Tail(s[1].todo)
<1>1. OnceTypeOK /\ Sound(s, ended) /\ Deepens(s)
  BY DEF OnceInv
<1>2. /\ stack' \in [Threads -> Seq(Frame)]
      /\ \A u \in Threads : u # t => stack'[u] = stack[u]
      /\ Len(r) = Len(s) + 1
      /\ s[1].todo[1] \in O!Blocks
      /\ r[1] = O!Push(t, s[1].todo[1])
      /\ r[2] = [s[1] EXCEPT !.todo = left]
      /\ \A i \in 3 .. Len(s) + 1 : r[i] = s[i - 1]
      /\ O!Busy(t) /\ s[1].at = "body"
      /\ Len(s[1].todo) \in Nat \ {0}
      /\ Len(left) = Len(s[1].todo) - 1
      /\ \A m \in 1 .. Len(s[1].todo) - 1 : left[m] = s[1].todo[m + 1]
  BY <1>1, NestStack
<1>3. /\ Len(s) \in Nat \ {0} /\ s[1] \in Frame
      /\ \A i \in 1 .. Len(s) : s[i] \in Frame
  BY <1>1, <1>2, TopOf
<1>4. /\ r[1].block = s[1].todo[1] /\ r[1].at = "test"
      /\ r[1].todo = Nested[s[1].todo[1]]
  BY <1>2 DEF O!Push
<1>5. r[2].block = s[1].block /\ r[2].at = "body" /\ r[2].todo = left
  BY <1>2, <1>3 DEF Frame
<1>6. \A m \in 1 .. Len(left) : left[m] = s[1].todo[m + 1]
  BY <1>2
<1> HIDE DEF s, r, left
<1>7. /\ Sound(r, ended) /\ Deepens(r)
      /\ \A b \in O!Blocks : InBody(s, b) => InBody(r, b)
  <2>1. /\ Sound(s, ended) /\ Deepens(s) /\ s[1].at = "body"
        /\ Len(r) = Len(s) + 1 /\ Len(s[1].todo) \in Nat \ {0}
        /\ \A i \in 3 .. Len(s) + 1 : r[i] = s[i - 1]
        /\ s[1].todo[1] \in O!Blocks
    BY <1>1, <1>2
  <2>2. /\ Len(r[2].todo) = Len(s[1].todo) - 1
        /\ \A m \in 1 .. Len(r[2].todo) : r[2].todo[m] = s[1].todo[m + 1]
    BY <1>2, <1>5, <1>6
  <2> QED BY <1>3, <1>4, <1>5, <2>1, <2>2, NestKeeps
<1>8. \A b \in ThreadBlocks : InBody(s, b) => InBody(r, b)
  BY <1>7, Levels
<1> QED BY <1>2, <1>7, <1>8, QuietStep DEF O!Nest, s, r

\* The swap succeeds: nobody has begun the block, and the thread does.
LEMMA WinStep ==
  ASSUME OnceInv, NEW t \in Threads, O!OnceWin(t)
  PROVE  OnceInv'
<1> DEFINE b == stack[t][1].block
<1>1. /\ O!Busy(t) /\ OnceTypeOK /\ Sound(stack[t], ended) /\ Deepens(stack[t])
      /\ O!Goto(t, "body") /\ UNCHANGED <<block_tstate, ended>>
  BY DEF O!OnceWin, O!At, OnceInv
<1>2. /\ stack[t] \in Seq(Frame) /\ Len(stack[t]) \in Nat \ {0}
      /\ O!Top(t) = stack[t][1]
      /\ \A i \in 1 .. Len(stack[t]) : stack[t][i] \in Frame
  BY <1>1, TopOf
<1>3. stack[t][1].at = "cas" /\ b \in OnceBlocks /\ b \in O!Blocks
  <2>1. stack[t][1].at = "cas" /\ 1 \in 1 .. Len(stack[t])
    BY <1>2 DEF O!OnceWin, O!At
  <2> QED BY <2>1, Levels DEF OnceInv, Sound
<1>4. /\ block_state[b] = 0
      /\ block_state' = [block_state EXCEPT ![b] = -1]
      /\ began' = O!Count(began, t, b)
  BY <1>2 DEF O!OnceWin
<1>5. /\ stack' \in [Threads -> Seq(Frame)]
      /\ \A u \in Threads : u # t => stack'[u] = stack[u]
      /\ Len(stack'[t]) = Len(stack[t])
      /\ stack'[t][1] = [stack[t][1] EXCEPT !.at = "body"]
      /\ \A i \in 2 .. Len(stack[t]) : stack'[t][i] = stack[t][i]
  BY <1>1, GotoStack
<1>6. /\ Sound(stack'[t], ended) /\ Deepens(stack'[t])
      /\ \A c \in O!Blocks : InBody(stack[t], c) => InBody(stack'[t], c)
  BY <1>1, <1>2, <1>3, <1>5, GotoKeeps
<1> HIDE DEF b
<1>7. /\ \A u \in Threads : \A c \in O!Blocks :
           began'[u][c] = IF u = t /\ c = b THEN began[u][c] + 1 ELSE began[u][c]
      /\ \A c \in OnceBlocks :
           block_state'[c] = IF c = b THEN -1 ELSE block_state[c]
  BY <1>1, <1>3, <1>4 DEF OnceTypeOK, O!Count
<1>8. OnceTypeOK'
  <2>1. began' \in [Threads -> [O!Blocks -> Nat]]
    BY <1>1, <1>3, <1>4, CountTyped DEF OnceTypeOK
  <2>2. block_state' \in [OnceBlocks -> {0, -1, 1}]
    BY <1>1, <1>3, <1>4 DEF OnceTypeOK
  <2> QED BY <1>1, <1>5, <2>1, <2>2 DEF OnceTypeOK
<1>9. OnceWords'
  <2> SUFFICES ASSUME NEW c \in OnceBlocks
               PROVE  /\ block_state'[c] = 0 => \A u \in Threads : began'[u][c] = 0
                      /\ block_state'[c] = 1 => Settled(ended, c)
                      /\ \A v, u \in Threads :
                           /\ began'[v][c] <= 1
                           /\ began'[v][c] + began'[u][c] > 1 => v = u
    BY <1>1, Zenon DEF OnceWords, Settled, O!Ever
  <2>1. c \in O!Blocks
    BY Levels
  <2>2. CASE c = b
    <3>1. \A u \in Threads : began[u][b] = 0
      BY <1>3, <1>4 DEF OnceInv, OnceWords
    <3>2. block_state'[c] = -1 /\ \A u \in Threads : began'[u][c] = IF u = t THEN 1 ELSE 0
      BY <1>7, <2>1, <2>2, <3>1
    <3> QED BY <3>2
  <2>3. CASE c # b
    <3>1. block_state'[c] = block_state[c] /\ \A u \in Threads : began'[u][c] = began[u][c]
      BY <1>7, <2>1, <2>3
    <3> QED BY <3>1 DEF OnceInv, OnceWords
  <2> QED BY <2>2, <2>3
<1>10. ThreadWords'
  <2> SUFFICES ASSUME NEW u \in Threads, NEW c \in ThreadBlocks
               PROVE  /\ began'[u][c] <= 1
                      /\ block_tstate[u][c] = 1 => Settled(ended, c)
                      /\ /\ block_tstate[u][c] = 0
                         /\ began'[u][c] > 0
                         => InBody(stack'[u], c)
    BY <1>1, Zenon DEF ThreadWords, Settled, O!Ever
  <2>1. c \in O!Blocks /\ c # b
    BY <1>3, Levels
  <2>2. began'[u][c] = began[u][c]
    BY <1>7, <2>1
  <2>3. InBody(stack[u], c) => InBody(stack'[u], c)
    BY <1>5, <1>6, <2>1
  <2> QED BY <2>2, <2>3 DEF OnceInv, ThreadWords
<1>11. \A u \in Threads : Sound(stack'[u], ended') /\ Deepens(stack'[u])
  BY <1>1, <1>5, <1>6, OneStackChanges
<1> QED BY <1>8, <1>9, <1>10, <1>11 DEF OnceInv

\* The word of a THREAD_ONCE block is 0 and the thread comes to its test: it
\* has not begun it.  If it had it would be in the middle of the block, deeper
\* in its stack, and the block would be nested in itself.
LEMMA NotBegun ==
  ASSUME OnceInv, NEW t \in Threads, O!Busy(t), O!Top(t).at = "test",
         O!Top(t).block \in ThreadBlocks, block_tstate[t][O!Top(t).block] = 0
  PROVE  began[t][O!Top(t).block] = 0
<1> DEFINE b == stack[t][1].block
<1>1. /\ stack[t] \in Seq(Frame) /\ Len(stack[t]) \in Nat \ {0}
      /\ O!Top(t) = stack[t][1] /\ b \in O!Blocks
  BY TopOf DEF OnceInv
<1>2. began[t][b] \in Nat
  BY <1>1 DEF OnceInv, OnceTypeOK
<1>3. ASSUME began[t][b] > 0
      PROVE  FALSE
  <2>1. InBody(stack[t], b)
    BY <1>1, <1>3 DEF OnceInv, ThreadWords
  <2>2. PICK i \in 1 .. Len(stack[t]) : stack[t][i].block = b /\ stack[t][i].at = "body"
    BY <2>1 DEF InBody
  <2>3. 1 \in 1 .. Len(stack[t]) /\ 1 < i
    BY <1>1, <2>2
  <2>4. Level[stack[t][1].block] < Level[stack[t][i].block]
    BY <2>3 DEF OnceInv, Deepens
  <2>5. Level[b] \in Int
    BY <1>1, Levels
  <2> QED BY <2>2, <2>4, <2>5
<1> QED BY <1>1, <1>2, <1>3

LEMMA ThreadBeginStep ==
  ASSUME OnceInv, NEW t \in Threads, O!Busy(t), O!Top(t).at = "test",
         O!Top(t).block \in ThreadBlocks, block_tstate[t][O!Top(t).block] = 0,
         O!Goto(t, "body"), began' = O!Count(began, t, O!Top(t).block),
         UNCHANGED <<block_state, block_tstate, ended>>
  PROVE  OnceInv'
<1> DEFINE b == stack[t][1].block
<1>1. OnceTypeOK /\ Sound(stack[t], ended) /\ Deepens(stack[t])
  BY DEF OnceInv
<1>2. /\ stack[t] \in Seq(Frame) /\ Len(stack[t]) \in Nat \ {0}
      /\ O!Top(t) = stack[t][1]
      /\ \A i \in 1 .. Len(stack[t]) : stack[t][i] \in Frame
  BY <1>1, TopOf
<1>3. b \in ThreadBlocks /\ b \in O!Blocks /\ stack[t][1].at = "test"
  BY <1>2, Levels
<1>4. began[t][b] = 0
  BY <1>2, NotBegun
<1>5. /\ stack' \in [Threads -> Seq(Frame)]
      /\ \A u \in Threads : u # t => stack'[u] = stack[u]
      /\ Len(stack'[t]) = Len(stack[t])
      /\ stack'[t][1] = [stack[t][1] EXCEPT !.at = "body"]
      /\ \A i \in 2 .. Len(stack[t]) : stack'[t][i] = stack[t][i]
  BY <1>1, GotoStack
<1>6. /\ Sound(stack'[t], ended) /\ Deepens(stack'[t])
      /\ \A c \in O!Blocks : InBody(stack[t], c) => InBody(stack'[t], c)
  BY <1>1, <1>2, <1>3, <1>5, GotoKeeps
<1>7. InBody(stack'[t], b)
  <2>1. 1 \in 1 .. Len(stack'[t]) /\ stack[t][1] \in Frame
    BY <1>2, <1>5
  <2>2. stack'[t][1].block = b /\ stack'[t][1].at = "body"
    BY <1>5, <2>1 DEF Frame
  <2> QED BY <2>1, <2>2 DEF InBody
<1>8. began' = O!Count(began, t, b)
  BY <1>2
<1> HIDE DEF b
<1>9. \A u \in Threads : \A c \in O!Blocks :
        began'[u][c] = IF u = t /\ c = b THEN began[u][c] + 1 ELSE began[u][c]
  BY <1>1, <1>3, <1>8 DEF OnceTypeOK, O!Count
<1>10. OnceTypeOK'
  <2>1. began' \in [Threads -> [O!Blocks -> Nat]]
    <3>1. began \in [Threads -> [O!Blocks -> Nat]]
      BY <1>1 DEF OnceTypeOK
    <3> QED BY <1>3, <1>8, <3>1, CountTyped
  <2> QED BY <1>1, <1>5, <2>1 DEF OnceTypeOK
<1>11. OnceWords'
  <2>1. \A c \in OnceBlocks : \A u \in Threads : began'[u][c] = began[u][c]
    BY <1>3, <1>9, Levels
  <2> QED BY <2>1 DEF OnceInv, OnceWords, Settled, O!Ever
<1>12. ThreadWords'
  <2> SUFFICES ASSUME NEW u \in Threads, NEW c \in ThreadBlocks
               PROVE  /\ began'[u][c] <= 1
                      /\ block_tstate[u][c] = 1 => Settled(ended, c)
                      /\ /\ block_tstate[u][c] = 0
                         /\ began'[u][c] > 0
                         => InBody(stack'[u], c)
    BY Zenon DEF ThreadWords, Settled, O!Ever
  <2>1. c \in O!Blocks
    BY Levels
  <2>2. CASE u = t /\ c = b
    <3>1. began'[u][c] = 1
      BY <1>4, <1>9, <2>1, <2>2
    <3> QED BY <1>7, <2>2, <3>1 DEF OnceInv, ThreadWords
  <2>3. CASE ~(u = t /\ c = b)
    <3>1. began'[u][c] = began[u][c]
      BY <1>9, <2>1, <2>3
    <3>2. InBody(stack[u], c) => InBody(stack'[u], c)
      BY <1>5, <1>6, <2>1
    <3> QED BY <3>1, <3>2 DEF OnceInv, ThreadWords
  <2> QED BY <2>2, <2>3
<1>13. \A u \in Threads : Sound(stack'[u], ended') /\ Deepens(stack'[u])
  BY <1>1, <1>5, <1>6, OneStackChanges
<1> QED BY <1>10, <1>11, <1>12, <1>13 DEF OnceInv

\* The code of a block comes to its end: that of every block nested in it has
\* come to its end before, as the thread had to leave them.
LEMMA EndStep ==
  ASSUME OnceInv, NEW t \in Threads, O!Busy(t), O!Top(t).at = "body",
         O!Top(t).todo = <<>>, O!Pop(t), UNCHANGED began,
         ended' = O!Count(ended, t, O!Top(t).block),
         \/ /\ O!Top(t).block \in OnceBlocks
            /\ block_state' = [block_state EXCEPT ![O!Top(t).block] = 1]
            /\ UNCHANGED block_tstate
         \/ /\ O!Top(t).block \in ThreadBlocks
            /\ block_tstate' = [block_tstate EXCEPT ![t][O!Top(t).block] = 1]
            /\ UNCHANGED block_state
  PROVE  OnceInv' /\ Settled(ended', O!Top(t).block)
<1> DEFINE b == stack[t][1].block
<1>1. OnceTypeOK /\ Sound(stack[t], ended) /\ Deepens(stack[t])
  BY DEF OnceInv
<1>2. /\ stack[t] \in Seq(Frame) /\ Len(stack[t]) \in Nat \ {0}
      /\ O!Top(t) = stack[t][1] /\ b \in O!Blocks
      /\ \A i \in 1 .. Len(stack[t]) : stack[t][i] \in Frame
  BY <1>1, TopOf
<1>3. stack[t][1].at = "body" /\ Len(stack[t][1].todo) = 0
  BY <1>2
<1>4. ended' = O!Count(ended, t, b)
  BY <1>2
<1>5. \/ /\ b \in OnceBlocks
         /\ block_state' = [block_state EXCEPT ![b] = 1]
         /\ UNCHANGED block_tstate
      \/ /\ b \in ThreadBlocks
         /\ block_tstate' = [block_tstate EXCEPT ![t][b] = 1]
         /\ UNCHANGED block_state
  BY <1>2
<1>6. /\ O!Ever(ended', b)
      /\ \A c \in O!Blocks : O!Ever(ended, c) => O!Ever(ended', c)
      /\ ended' \in [Threads -> [O!Blocks -> Nat]]
  BY <1>1, <1>2, <1>4, EverKept
<1>7. Settled(ended', b)
  <2> SUFFICES ASSUME NEW k \in 1 .. Len(Nested[b])
               PROVE  O!Ever(ended', Nested[b][k])
    BY <1>6 DEF Settled
  <2>1. 1 \in 1 .. Len(stack[t]) /\ ~(1 > 1)
    BY <1>2
  <2>2. \/ O!Ever(ended, Nested[b][k])
        \/ \E m \in 1 .. Len(stack[t][1].todo) : stack[t][1].todo[m] = Nested[b][k]
    BY <1>1, <1>3, <2>1, Zenon DEF Sound
  <2>3. O!Ever(ended, Nested[b][k])
    BY <1>3, <2>2
  <2> QED BY <1>2, <1>6, <2>3, Levels
<1>8. /\ stack' \in [Threads -> Seq(Frame)]
      /\ \A u \in Threads : u # t => stack'[u] = stack[u]
      /\ Len(stack'[t]) = Len(stack[t]) - 1
      /\ \A i \in 1 .. Len(stack[t]) - 1 : stack'[t][i] = stack[t][i + 1]
  BY <1>1, PopStack
<1>9. Sound(stack[t], ended')
  BY <1>1, <1>2, <1>6, SoundKept
<1>10. /\ Sound(stack'[t], ended') /\ Deepens(stack'[t])
       /\ \A c \in O!Blocks : InBody(stack[t], c) /\ b # c => InBody(stack'[t], c)
  BY <1>1, <1>2, <1>6, <1>8, <1>9, PopKeeps, ZenonT(30)
<1> HIDE DEF b
<1>11. OnceTypeOK'
  <2>1. block_state' \in [OnceBlocks -> {0, -1, 1}]
    BY <1>1, <1>5 DEF OnceTypeOK
  <2>2. block_tstate' \in [Threads -> [ThreadBlocks -> {0, 1}]]
    <3>1. block_tstate \in [Threads -> [ThreadBlocks -> {0, 1}]]
      BY <1>1 DEF OnceTypeOK
    <3>2. CASE block_tstate' = [block_tstate EXCEPT ![t][b] = 1]
      BY <3>1, <3>2
    <3>3. CASE UNCHANGED block_tstate
      BY <3>1, <3>3
    <3> QED BY <1>5, <3>2, <3>3
  <2> QED BY <1>1, <1>6, <1>8, <2>1, <2>2 DEF OnceTypeOK
<1>12. \A c \in O!Blocks : Settled(ended, c) => Settled(ended', c)
  BY <1>6, SettledKept
<1>13. \A c \in OnceBlocks :
         block_state'[c] = block_state[c] \/ (c = b /\ block_state'[c] = 1)
  BY <1>1, <1>5 DEF OnceTypeOK
<1>14. \A u \in Threads : \A c \in ThreadBlocks :
         \/ block_tstate'[u][c] = block_tstate[u][c] /\ ~(u = t /\ c = b)
         \/ c = b /\ block_tstate'[u][c] = 1
  <2>1. block_tstate \in [Threads -> [ThreadBlocks -> {0, 1}]]
    BY <1>1 DEF OnceTypeOK
  <2>2. CASE b \in ThreadBlocks /\ block_tstate' = [block_tstate EXCEPT ![t][b] = 1]
    BY <2>1, <2>2
  <2>3. CASE b \in OnceBlocks /\ UNCHANGED block_tstate
    <3>1. b \notin ThreadBlocks
      BY <2>3, Levels
    <3> QED BY <2>3, <3>1
  <2> QED BY <1>5, <2>2, <2>3
<1>15. OnceWords'
  <2> SUFFICES ASSUME NEW c \in OnceBlocks
               PROVE  /\ block_state'[c] = 0 => \A u \in Threads : began[u][c] = 0
                      /\ block_state'[c] = 1 => Settled(ended', c)
                      /\ \A v, u \in Threads :
                           /\ began[v][c] <= 1
                           /\ began[v][c] + began[u][c] > 1 => v = u
    BY Zenon DEF OnceWords, Settled, O!Ever
  <2>1. c \in O!Blocks
    BY Levels
  <2> QED BY <1>7, <1>12, <1>13, <2>1 DEF OnceInv, OnceWords
<1>16. ThreadWords'
  <2> SUFFICES ASSUME NEW u \in Threads, NEW c \in ThreadBlocks
               PROVE  /\ began[u][c] <= 1
                      /\ block_tstate'[u][c] = 1 => Settled(ended', c)
                      /\ /\ block_tstate'[u][c] = 0
                         /\ began[u][c] > 0
                         => InBody(stack'[u], c)
    BY Zenon DEF ThreadWords, Settled, O!Ever
  <2>1. c \in O!Blocks
    BY Levels
  <2>2. began[u][c] <= 1
    BY DEF OnceInv, ThreadWords
  <2>3. CASE c = b /\ block_tstate'[u][c] = 1
    BY <1>7, <2>2, <2>3
  <2>4. CASE block_tstate'[u][c] = block_tstate[u][c] /\ ~(u = t /\ c = b)
    <3>1. InBody(stack[u], c) => InBody(stack'[u], c)
      BY <1>8, <1>10, <2>1, <2>4
    <3> QED BY <1>12, <2>1, <2>4, <3>1 DEF OnceInv, ThreadWords
  <2> QED BY <1>14, <2>3, <2>4
<1>17. \A u \in Threads : Sound(stack'[u], ended') /\ Deepens(stack'[u])
  <2> SUFFICES ASSUME NEW u \in Threads
               PROVE  Sound(stack'[u], ended') /\ Deepens(stack'[u])
    OBVIOUS
  <2>1. CASE u = t
    BY <1>10, <2>1
  <2>2. CASE u # t
    <3>1. stack'[u] = stack[u] /\ stack[u] \in Seq(Frame)
      BY <1>1, <1>8, <2>2 DEF OnceTypeOK
    <3>2. Sound(stack[u], ended) /\ Deepens(stack[u])
      BY DEF OnceInv
    <3> QED BY <1>6, <3>1, <3>2, SoundKept
  <2> QED BY <2>1, <2>2
<1>18. OnceInv'
  BY <1>11, <1>15, <1>16, <1>17 DEF OnceInv
<1> QED BY <1>2, <1>7, <1>18 DEF b

LEMMA OnceInit == O!Init => OnceInv
<1> SUFFICES ASSUME O!Init PROVE OnceInv
  OBVIOUS
<1>1. OnceTypeOK
  BY DEF O!Init, OnceTypeOK
<1>2. \A t \in Threads : \A b \in O!Blocks : began[t][b] = 0
  BY DEF O!Init
<1>3. OnceWords
  BY <1>2, Levels DEF O!Init, OnceWords
<1>4. ThreadWords
  BY <1>2, Levels DEF O!Init, ThreadWords
<1>5. \A t \in Threads : stack[t] = <<>>
  BY DEF O!Init
<1>6. \A t \in Threads : Sound(stack[t], ended) /\ Deepens(stack[t])
  <2>1. \A i \in 1 .. Len(<<>>) : FALSE
    OBVIOUS
  <2> QED BY <1>5, <2>1 DEF Sound, Deepens
<1> QED BY <1>1, <1>3, <1>4, <1>6 DEF OnceInv

LEMMA OnceQuiet ==
  ASSUME OnceInv, UNCHANGED O!vars
  PROVE  /\ OnceInv'
         /\ \A u \in Threads : ~(Len(stack'[u]) < Len(stack[u]))
<1>1. UNCHANGED <<block_state, block_tstate, stack, began, ended>>
  BY DEF O!vars
<1>2. OnceInv'
  BY <1>1, SMTT(60) DEF OnceInv, OnceTypeOK, OnceWords, ThreadWords, Settled, Sound,
              Deepens, InBody, O!Ever
<1>3. \A u \in Threads : Len(stack[u]) \in Nat
  BY DEF OnceInv, OnceTypeOK
<1> QED BY <1>1, <1>2, <1>3

\* A step keeps the invariant, and a thread that leaves a block leaves it
\* settled.
LEMMA OnceStep ==
  ASSUME OnceInv, O!Next
  PROVE  /\ OnceInv'
         /\ \A u \in Threads : Len(stack'[u]) < Len(stack[u]) =>
              Settled(ended', O!Top(u).block)
<1> DEFINE Leaves(u) == Len(stack'[u]) < Len(stack[u]) =>
                          Settled(ended', O!Top(u).block)
<1>1. PICK t \in Threads : O!Encounter(t) \/ O!Step(t)
  BY DEF O!Next
<1>2. OnceTypeOK /\ stack \in [Threads -> Seq(Frame)]
  BY DEF OnceInv, OnceTypeOK
<1>0. \A u \in Threads : Len(stack[u]) \in Nat
  BY <1>2
\* The others stay where they are.
<1>3. ASSUME \A u \in Threads : u # t => stack'[u] = stack[u], NEW u \in Threads, u # t
      PROVE  Leaves(u)
  <2>1. Len(stack[u]) \in Nat /\ stack'[u] = stack[u]
    BY <1>2, <1>3
  <2> QED BY <2>1
<1>4. CASE O!Encounter(t)
  <2>1. OnceInv'
    BY <1>4, EncounterStep
  <2>2. /\ \A u \in Threads : u # t => stack'[u] = stack[u]
        /\ Len(stack[t]) = 0 /\ Len(stack'[t]) \in Nat
    BY <1>2, <1>4, <2>1 DEF O!Encounter, O!Busy, OnceInv, OnceTypeOK
  <2> QED BY <1>3, <2>1, <2>2
<1>5. CASE O!OncePass(t)
  <2>1. /\ O!Busy(t) /\ O!Pop(t) /\ O!Top(t).at = "test"
        /\ O!Top(t).block \in OnceBlocks /\ block_state[O!Top(t).block] > 0
        /\ UNCHANGED <<block_state, block_tstate, began, ended>>
    BY <1>5 DEF O!OncePass, O!At, O!In
  <2>2. Settled(ended, O!Top(t).block)
    <3>1. block_state[O!Top(t).block] = 1
      <4>1. block_state[O!Top(t).block] \in {0, -1, 1}
        BY <1>2, <2>1 DEF OnceTypeOK
      <4> QED BY <2>1, <4>1
    <3> QED BY <2>1, <3>1 DEF OnceInv, OnceWords
  <2>3. OnceInv'
    BY <2>1, <2>2, LeaveStep
  <2>4. \A u \in Threads : u # t => stack'[u] = stack[u]
    BY <1>2, <2>1, PopStack
  <2> QED BY <1>3, <2>1, <2>2, <2>3, <2>4
<1>6. CASE O!OnceYield(t)
  BY <1>6, OnceQuiet DEF O!OnceYield
<1>7. ASSUME NEW at \in {"test", "cas"}, O!Busy(t), O!Top(t).at # "body",
             O!Goto(t, at), O!Top(t).block \in OnceBlocks,
             UNCHANGED <<block_state, block_tstate, began, ended>>
      PROVE  OnceInv' /\ \A u \in Threads : Leaves(u)
  <2>1. OnceInv'
    BY <1>7, MoveStep
  <2>2. /\ \A u \in Threads : u # t => stack'[u] = stack[u]
        /\ Len(stack'[t]) = Len(stack[t]) /\ Len(stack[t]) \in Nat
    BY <1>0, <1>2, <1>7, GotoStack
  <2> QED BY <1>3, <2>1, <2>2
<1>8. CASE O!OnceTry(t)
  BY <1>7, <1>8 DEF O!OnceTry, O!At, O!In
<1>9. CASE O!OnceLose(t)
  <2>1. /\ O!Busy(t) /\ O!Top(t).at = "cas" /\ O!Goto(t, "test")
        /\ UNCHANGED <<block_state, block_tstate, began, ended>>
    BY <1>9 DEF O!OnceLose, O!At
  <2>2. O!Top(t).block \in OnceBlocks
    <3>1. O!Top(t) = stack[t][1] /\ 1 \in 1 .. Len(stack[t])
      BY <1>2, <2>1, TopOf
    <3>2. Sound(stack[t], ended) /\ stack[t][1].at = "cas"
      BY <2>1, <3>1 DEF OnceInv
    <3> QED BY <3>1, <3>2 DEF Sound
  <2> QED BY <1>7, <2>1, <2>2
<1>10. CASE O!OnceWin(t)
  <2>1. OnceInv' /\ O!Busy(t) /\ O!Goto(t, "body")
    BY <1>10, WinStep DEF O!OnceWin, O!At
  <2>2. /\ \A u \in Threads : u # t => stack'[u] = stack[u]
        /\ Len(stack'[t]) = Len(stack[t]) /\ Len(stack[t]) \in Nat
    BY <1>0, <1>2, <2>1, GotoStack
  <2> QED BY <1>3, <2>1, <2>2
<1>11. CASE O!Nest(t)
  <2>1. OnceInv'
    BY <1>11, NestStep
  <2>2. /\ \A u \in Threads : u # t => stack'[u] = stack[u]
        /\ Len(stack'[t]) = Len(stack[t]) + 1 /\ Len(stack[t]) \in Nat
    BY <1>0, <1>2, <1>11, NestStack
  <2> QED BY <1>3, <2>1, <2>2
<1>12. CASE O!OnceEnd(t) \/ O!ThreadOnceEnd(t)
  <2>1. /\ O!Busy(t) /\ O!Pop(t)
        /\ OnceInv' /\ Settled(ended', O!Top(t).block)
    BY <1>12, EndStep DEF O!OnceEnd, O!ThreadOnceEnd, O!At, O!In
  <2>2. \A u \in Threads : u # t => stack'[u] = stack[u]
    BY <1>2, <2>1, PopStack
  <2> QED BY <1>3, <2>1, <2>2
<1>13. CASE O!ThreadOnceBegin(t)
  <2>1. /\ O!Busy(t) /\ O!Top(t).at = "test" /\ O!Top(t).block \in ThreadBlocks
        /\ UNCHANGED <<block_state, block_tstate, ended>>
    BY <1>13 DEF O!ThreadOnceBegin, O!At, O!In
  <2>2. CASE block_tstate[t][O!Top(t).block] = 0
    <3>1. O!Goto(t, "body") /\ began' = O!Count(began, t, O!Top(t).block)
      BY <1>13, <2>2 DEF O!ThreadOnceBegin
    <3>2. OnceInv'
      BY <2>1, <2>2, <3>1, ThreadBeginStep
    <3>3. /\ \A u \in Threads : u # t => stack'[u] = stack[u]
          /\ Len(stack'[t]) = Len(stack[t]) /\ Len(stack[t]) \in Nat
      BY <1>0, <1>2, <2>1, <3>1, GotoStack
    <3> QED BY <1>3, <3>2, <3>3
  <2>3. CASE block_tstate[t][O!Top(t).block] # 0
    <3>1. O!Pop(t) /\ UNCHANGED began
      BY <1>13, <2>3 DEF O!ThreadOnceBegin
    <3>2. Settled(ended, O!Top(t).block)
      <4>1. block_tstate[t][O!Top(t).block] = 1
        BY <1>2, <2>1, <2>3 DEF OnceTypeOK
      <4> QED BY <2>1, <4>1 DEF OnceInv, ThreadWords
    <3>3. OnceInv'
      BY <2>1, <3>1, <3>2, LeaveStep
    <3>4. \A u \in Threads : u # t => stack'[u] = stack[u]
      BY <1>2, <2>1, <3>1, PopStack
    <3> QED BY <1>3, <2>1, <3>2, <3>3, <3>4
  <2> QED BY <2>2, <2>3
<1> QED
  BY <1>1, <1>4, <1>5, <1>6, <1>8, <1>9, <1>10, <1>11, <1>12, <1>13, Zenon
  DEF O!Step

LEMMA OnceInvariant == O!Spec => []OnceInv
<1>1. OnceInv /\ [O!Next]_(O!vars) => OnceInv'
  BY OnceStep, OnceQuiet
<1> QED BY OnceInit, <1>1, PTL DEF O!Spec

\* FD_ONCE_BEGIN runs a block at most once in the process and
\* FD_THREAD_ONCE_BEGIN once in each thread, for any number of threads and any
\* blocks that are not nested in themselves.
THEOREM AtMostOnceHolds == O!Spec => []AtMostOnce
<1>1. OnceInv => AtMostOnce
  <2> SUFFICES ASSUME OnceInv, NEW t \in Threads, NEW b \in O!Blocks
               PROVE  /\ began[t][b] <= 1
                      /\ b \in OnceBlocks =>
                           \A u \in Threads : began[t][b] + began[u][b] > 1 => t = u
    BY DEF AtMostOnce, O!AtMostOnce
  <2>1. CASE b \in OnceBlocks
    BY <2>1 DEF OnceInv, OnceWords
  <2>2. CASE b \notin OnceBlocks
    BY <2>2, Levels DEF OnceInv, ThreadWords
  <2> QED BY <2>1, <2>2
<1> QED BY <1>1, OnceInvariant, PTL

\* Nobody gets past a block whose code, that of the blocks nested in it
\* included, has not come to its end.
THEOREM NobodyPassesEarlyHolds == O!Spec => NobodyPassesEarly
<1> DEFINE Leaves == \A t \in Threads : Len(stack'[t]) < Len(stack[t]) =>
                       /\ O!Ever(ended', O!Top(t).block)
                       /\ \A i \in 1 .. Len(Nested[O!Top(t).block]) :
                            O!Ever(ended', Nested[O!Top(t).block][i])
<1>1. OnceInv /\ [O!Next]_(O!vars) => [Leaves]_(O!vars)
  BY OnceStep DEF Settled
<1>2. O!Spec => [][Leaves]_(O!vars)
  BY <1>1, OnceInvariant, PTL DEF O!Spec
<1> QED BY <1>2 DEF NobodyPassesEarly, O!NobodyPassesEarly

-----------------------------------------------------------------------------
(* THE EXCHANGE OF A WORD                                                  *)

Tokens == Threads \cup {Spare}

XchgTypeOK ==
  /\ word \in Tokens
  /\ held \in [Threads -> Tokens]
  /\ loaded \in [Threads -> Tokens]
  /\ xpc \in [Threads -> {"idle", "cas"}]

\* The variable that TokensConserved says nothing about is what a thread has
\* loaded, which may be out of date; a swap only happens when it is not.
XchgInv == XchgTypeOK /\ X!TokensConserved

\* An exchange of the word with what a thread holds, in one step.
Exchange(t) == word' = held[t] /\ held' = [held EXCEPT ![t] = word]

LEMMA ExchangeConserves ==
  ASSUME XchgInv, NEW t \in Threads, Exchange(t)
  PROVE  X!TokensConserved' /\ word' \in Tokens /\ held' \in [Threads -> Tokens]
<1> USE DEF XchgInv, XchgTypeOK, Exchange
<1>1. word' \in Tokens /\ held' \in [Threads -> Tokens]
  BY SMT
<1>2. \A u \in Threads : held'[u] = IF u = t THEN word ELSE held[u]
  BY SMT
<1>3. \A u \in Threads : held'[u] # word'
  BY <1>2, SMT DEF X!TokensConserved
<1>4. \A u, v \in Threads : held'[u] = held'[v] => u = v
  BY <1>2, SMT DEF X!TokensConserved
\* The token that was in the word is in t's hands, the one that was there is
\* in the word, and all others are where they were.
<1>5. ASSUME NEW x \in Tokens
      PROVE  x = word' \/ \E u \in Threads : x = held'[u]
  <2>1. x = word \/ \E u \in Threads : x = held[u]
    BY SMT DEF X!TokensConserved, Tokens
  <2> QED
    BY <1>2, <2>1, SMT
<1>6. {word'} \cup {held'[u] : u \in Threads} = Tokens
  BY <1>1, <1>5, SMT
<1> QED
  BY <1>1, <1>3, <1>4, <1>6, Zenon DEF X!TokensConserved, Tokens

LEMMA XchgInit == X!Init => XchgInv
BY UtilBaseAssumption, SMT
   DEF X!XchgAssumption, X!Init, XchgInv, XchgTypeOK, X!TokensConserved, Tokens

LEMMA XchgStep == XchgInv /\ [X!Next]_(X!vars) => XchgInv'
<1> SUFFICES ASSUME XchgInv, [X!Next]_(X!vars) PROVE XchgInv'
  OBVIOUS
<1>1. CASE UNCHANGED X!vars
  BY <1>1, SMT DEF X!vars, XchgInv, XchgTypeOK, X!TokensConserved
<1>2. ASSUME NEW t \in Threads, X!Atomic(t) PROVE XchgInv'
  <2>1. Exchange(t)
    BY <1>2, Zenon DEF X!Atomic, Exchange
  <2> QED
    BY <1>2, <2>1, ExchangeConserves, Zenon DEF X!Atomic, XchgInv, XchgTypeOK
<1>3. ASSUME NEW t \in Threads, X!Load(t) PROVE XchgInv'
  <2>1. XchgTypeOK'
    BY <1>3, SMT DEF X!Load, XchgInv, XchgTypeOK
  <2> QED
    BY <1>3, <2>1, Zenon DEF X!Load, XchgInv, X!TokensConserved
\* The word has not changed, so that the swap exchanges what is there.
<1>4. ASSUME NEW t \in Threads, X!Swap(t) PROVE XchgInv'
  <2>1. Exchange(t)
    BY <1>4, Zenon DEF X!Swap, Exchange
  <2>2. loaded' \in [Threads -> Tokens] /\ xpc' \in [Threads -> {"idle", "cas"}]
    BY <1>4, SMT DEF X!Swap, XchgInv, XchgTypeOK
  <2> QED
    BY <2>1, <2>2, ExchangeConserves, Zenon DEF XchgInv, XchgTypeOK
<1>5. ASSUME NEW t \in Threads, X!Retry(t) PROVE XchgInv'
  <2>1. XchgTypeOK'
    BY <1>5, SMT DEF X!Retry, XchgInv, XchgTypeOK
  <2> QED
    BY <1>5, <2>1, Zenon DEF X!Retry, XchgInv, X!TokensConserved
<1> QED
  BY <1>1, <1>2, <1>3, <1>4, <1>5, Zenon DEF X!Next

\* FD_ATOMIC_XCHG loses and doubles nothing, with the instruction, with the
\* load and compare and swap, and with both on one word: a token that comes
\* back to the word between a load and its swap does no harm.
THEOREM TokensConservedHolds == X!Spec => []TokensConserved
<1>1. X!Init => XchgInv
  BY XchgInit
<1>2. XchgInv /\ [X!Next]_(X!vars) => XchgInv'
  BY XchgStep
<1>3. XchgInv => TokensConserved
  BY DEF XchgInv, TokensConserved
<1> QED
  BY <1>1, <1>2, <1>3, PTL DEF X!Spec
=============================================================================
