-------------------------------- MODULE Once --------------------------------
(***************************************************************************)
(* FD_ONCE and FD_THREAD_ONCE (stubs/fd_util_base.h, threads enabled):     *)
(* blocks that run once per process, or once per thread, and that nobody   *)
(* gets past before.                                                       *)
(*                                                                         *)
(* A block's word is read and then compared and swapped, in two steps with *)
(* anything in between.  Blocks nest: what a thread is in the middle of is *)
(* a stack of blocks, the innermost first.                                 *)
(***************************************************************************)
EXTENDS Integers, Sequences, FiniteSets

CONSTANTS
  Threads,
  OnceBlocks,    \* the FD_ONCE blocks of the program
  ThreadBlocks,  \* its FD_THREAD_ONCE blocks
  Nested,        \* the blocks that each block's code encounters, in order
  Roots          \* blocks that are encountered outside any other

Blocks == OnceBlocks \cup ThreadBlocks

\* No block is nested in itself, not by a detour either: a ONCE block would
\* wait for itself, and no block would ever come to its end.
OnceAssumption ==
  /\ OnceBlocks \cap ThreadBlocks = {}
  /\ Roots \subseteq Blocks
  /\ Nested \in [Blocks -> Seq(Blocks)]
  /\ \E level \in [Blocks -> 0 .. Cardinality(Blocks)] :
       \A b \in Blocks : \A i \in DOMAIN Nested[b] : level[Nested[b][i]] < level[b]

VARIABLES
  state,   \* _fd_once_block_state of the ONCE blocks: 0, -1 (runs) or 1
  tstate,  \* _fd_thread_once_block_state, for each thread
  stack,   \* per thread: [block, at, todo], the innermost block first
  began,   \* history: how often each thread has begun each block's code,
  ended    \* ... and how often it has come to its end

vars == <<state, tstate, stack, began, ended>>

-----------------------------------------------------------------------------
Init ==
  /\ state = [b \in OnceBlocks |-> 0]
  /\ tstate = [t \in Threads |-> [b \in ThreadBlocks |-> 0]]
  /\ stack = [t \in Threads |-> <<>>]
  /\ began = [t \in Threads |-> [b \in Blocks |-> 0]]
  /\ ended = began

Busy(t) == stack[t] # <<>>
Top(t) == Head(stack[t])
At(t, at) == Busy(t) /\ Top(t).at = at
In(t, blocks) == Busy(t) /\ Top(t).block \in blocks

Push(t, b) == [block |-> b, at |-> "test", todo |-> Nested[b]]
Goto(t, at) == stack' = [stack EXCEPT ![t] = <<[@[1] EXCEPT !.at = at]>> \o Tail(@)]
Pop(t) == stack' = [stack EXCEPT ![t] = Tail(@)]

Count(h, t, b) == [h EXCEPT ![t][b] = @ + 1]

\* Control reaches a block outside all others.
Encounter(t) ==
  /\ ~Busy(t)
  /\ \E b \in Roots : stack' = [stack EXCEPT ![t] = <<Push(t, b)>>]
  /\ UNCHANGED <<state, tstate, began, ended>>

-----------------------------------------------------------------------------
(* FD_ONCE_BEGIN .. FD_ONCE_END *)

\* Mutant: a block that somebody is running counts as done.
OncePassRunning(t) ==
  /\ At(t, "test") /\ In(t, OnceBlocks)
  /\ state[Top(t).block] # 0
  /\ Pop(t)
  /\ UNCHANGED <<state, tstate, began, ended>>

\* if( tmp>0 ) break
OncePass(t) ==
  /\ At(t, "test") /\ In(t, OnceBlocks)
  /\ state[Top(t).block] > 0
  /\ Pop(t)
  /\ UNCHANGED <<state, tstate, began, ended>>

\* tmp<0: somebody runs it.  FD_YIELD and look again: waiting goes on for
\* ever unless they come to the end, which EveryoneGetsThrough is about.
OnceYield(t) ==
  /\ At(t, "test") /\ In(t, OnceBlocks)
  /\ state[Top(t).block] < 0
  /\ UNCHANGED vars

\* !tmp: try to get it.
OnceTry(t) ==
  /\ At(t, "test") /\ In(t, OnceBlocks)
  /\ state[Top(t).block] = 0
  /\ Goto(t, "cas")
  /\ UNCHANGED <<state, tstate, began, ended>>

\* Mutant: the state is stored, not compared and swapped.
OnceStore(t) ==
  /\ At(t, "cas")
  /\ state' = [state EXCEPT ![Top(t).block] = -1]
  /\ began' = Count(began, t, Top(t).block)
  /\ Goto(t, "body")
  /\ UNCHANGED <<tstate, ended>>

\* FD_ATOMIC_CAS from 0 to -1 won ...
OnceWin(t) ==
  /\ At(t, "cas")
  /\ state[Top(t).block] = 0
  /\ state' = [state EXCEPT ![Top(t).block] = -1]
  /\ began' = Count(began, t, Top(t).block)
  /\ Goto(t, "body")
  /\ UNCHANGED <<tstate, ended>>

\* ... or lost: yield and look again.
OnceLose(t) ==
  /\ At(t, "cas")
  /\ state[Top(t).block] # 0
  /\ Goto(t, "test")
  /\ UNCHANGED <<state, tstate, began, ended>>

\* The code encounters the next block nested in it.
Nest(t) ==
  /\ At(t, "body") /\ Top(t).todo # <<>>
  /\ stack' = [stack EXCEPT ![t] =
       <<Push(t, Head(Top(t).todo)), [Top(t) EXCEPT !.todo = Tail(Top(t).todo)]>>
         \o Tail(@)]
  /\ UNCHANGED <<state, tstate, began, ended>>

\* Mutant: the thread that ran the block does not say so.
OnceEndSilent(t) ==
  /\ At(t, "body") /\ In(t, OnceBlocks) /\ Top(t).todo = <<>>
  /\ ended' = Count(ended, t, Top(t).block)
  /\ Pop(t)
  /\ UNCHANGED <<state, tstate, began>>

\* The code has run (to its end or a break): state = 1.
OnceEnd(t) ==
  /\ At(t, "body") /\ In(t, OnceBlocks) /\ Top(t).todo = <<>>
  /\ state' = [state EXCEPT ![Top(t).block] = 1]
  /\ ended' = Count(ended, t, Top(t).block)
  /\ Pop(t)
  /\ UNCHANGED <<tstate, began>>

-----------------------------------------------------------------------------
(* FD_THREAD_ONCE_BEGIN .. FD_THREAD_ONCE_END *)

ThreadOnceBegin(t) ==
  /\ At(t, "test") /\ In(t, ThreadBlocks)
  /\ IF tstate[t][Top(t).block] = 0
       THEN Goto(t, "body") /\ began' = Count(began, t, Top(t).block)
       ELSE Pop(t) /\ UNCHANGED began
  /\ UNCHANGED <<state, tstate, ended>>

ThreadOnceEnd(t) ==
  /\ At(t, "body") /\ In(t, ThreadBlocks) /\ Top(t).todo = <<>>
  /\ tstate' = [tstate EXCEPT ![t][Top(t).block] = 1]
  /\ ended' = Count(ended, t, Top(t).block)
  /\ Pop(t)
  /\ UNCHANGED <<state, began>>

Step(t) ==
  \/ OncePass(t) \/ OnceYield(t) \/ OnceTry(t) \/ OnceWin(t) \/ OnceLose(t)
  \/ OnceEnd(t) \/ Nest(t) \/ ThreadOnceBegin(t) \/ ThreadOnceEnd(t)

Next == \E t \in Threads : Encounter(t) \/ Step(t)

Spec == Init /\ [][Next]_vars

\* A thread that has reached a block keeps running: the user's promise that
\* "a ONCE block will execute in a finite time".
FairSpec == Spec /\ \A t \in Threads : WF_vars(Step(t))

-----------------------------------------------------------------------------
(* Properties *)

Ever(h, b) == \E t \in Threads : h[t][b] > 0

\* A ONCE block begins at most once in the process, a THREAD_ONCE block once
\* in each thread, whoever else is between the read of the word and the swap.
AtMostOnce ==
  \A t \in Threads : \A b \in Blocks :
    /\ began[t][b] <= 1
    /\ b \in OnceBlocks =>
         \A u \in Threads : began[t][b] + began[u][b] > 1 => t = u

\* "No thread ... will continue past it until it has executed once": when a
\* thread leaves a block its code has come to its end, that of every block
\* nested in it included.
NobodyPassesEarly ==
  [][\A t \in Threads : Len(stack'[t]) < Len(stack[t]) =>
       /\ Ever(ended', Top(t).block)
       /\ \A i \in 1 .. Len(Nested[Top(t).block]) :
            Ever(ended', Nested[Top(t).block][i])]_vars

\* Every thread that reaches a block gets past it: nobody waits for a block
\* that nobody runs, nested and shared blocks included.
EveryoneGetsThrough == \A t \in Threads : Busy(t) ~> ~Busy(t)
=============================================================================
