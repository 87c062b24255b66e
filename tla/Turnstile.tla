------------------------------ MODULE Turnstile ------------------------------
(***************************************************************************)
(* FD_TURNSTILE (stubs/fd_util_base.h, threads enabled): a block of code   *)
(* that one thread at a time may be in.                                    *)
(*                                                                         *)
(* Threads come with blocking zero or not.  What they do inside is what    *)
(* the comment says they may: "normal" code, a load and a store of shared  *)
(* memory with no atomics, that a break may cut short.                     *)
(***************************************************************************)
EXTENDS Naturals

CONSTANTS
  Threads,
  Wrap      \* BOUND: the shared counter counts modulo Wrap

TurnstileAssumption == Wrap \in Nat /\ Wrap > 1

VARIABLES
  state,     \* _fd_turnstile_state
  pc,        \* "out", "test", "cas", "load", "store", "exit", "blocked"
  blocking,  \* _fd_turnstile_blocking of the thread's current visit
  work,      \* shared memory that the block updates ...
  seen,      \* ... and the value that a thread inside has loaded
  done       \* history: how many threads have updated it

vars == <<state, pc, blocking, work, seen, done>>

-----------------------------------------------------------------------------
Init ==
  /\ state = 0
  /\ pc = [t \in Threads |-> "out"]
  /\ blocking = [t \in Threads |-> FALSE]
  /\ work = 0 /\ done = 0
  /\ seen = [t \in Threads |-> 0]

Move(t, from, to) == pc[t] = from /\ pc' = [pc EXCEPT ![t] = to]

\* FD_TURNSTILE_BEGIN( blocking )
Begin(t) ==
  /\ Move(t, "out", "test")
  /\ \E b \in BOOLEAN : blocking' = [blocking EXCEPT ![t] = b]
  /\ UNCHANGED <<state, work, seen, done>>

Test(t) ==
  /\ Move(t, "test", IF state = 0 THEN "cas" ELSE "blocked")
  /\ UNCHANGED <<state, blocking, work, seen, done>>

\* Mutant: the test decides, the swap is not looked at.
CasUnchecked(t) ==
  /\ Move(t, "cas", "load")
  /\ state' = 1
  /\ UNCHANGED <<blocking, work, seen, done>>

\* FD_ATOMIC_CAS from 0 to 1
Cas(t) ==
  /\ Move(t, "cas", IF state = 0 THEN "load" ELSE "blocked")
  /\ state' = 1
  /\ UNCHANGED <<blocking, work, seen, done>>

Load(t) ==
  /\ Move(t, "load", "store")
  /\ seen' = [seen EXCEPT ![t] = work]
  /\ UNCHANGED <<state, blocking, work, done>>

Store(t) ==
  /\ Move(t, "store", "exit")
  /\ work' = (seen[t] + 1) % Wrap
  /\ done' = (done + 1) % Wrap
  /\ UNCHANGED <<state, blocking, seen>>

\* Mutant: a break leaves the whole macro, without unlocking.
BreakOut(t) ==
  /\ Move(t, "store", "out")
  /\ UNCHANGED <<state, blocking, work, seen, done>>

\* break or continue in the block
Break(t) ==
  /\ Move(t, "store", "exit")
  /\ UNCHANGED <<state, blocking, work, seen, done>>

\* FD_TURNSTILE_BLOCKED: the end of the block that is executed inside.
Exit(t) ==
  /\ Move(t, "exit", "out")
  /\ state' = 0
  /\ UNCHANGED <<blocking, work, seen, done>>

\* Mutant: the blocked part tries again whatever blocking says.
BlockedAgain(t) ==
  /\ Move(t, "blocked", "test")
  /\ UNCHANGED <<state, blocking, work, seen, done>>

\* FD_TURNSTILE_END: blocked, leave or retry after a pause.
Blocked(t) ==
  /\ Move(t, "blocked", IF blocking[t] THEN "test" ELSE "out")
  /\ UNCHANGED <<state, blocking, work, seen, done>>

Step(t) ==
  \/ Test(t) \/ Cas(t) \/ Load(t) \/ Store(t) \/ Break(t) \/ Exit(t)
  \/ Blocked(t)

Next == \E t \in Threads : Begin(t) \/ Step(t)

Spec == Init /\ [][Next]_vars

\* A thread that has reached the turnstile keeps running.
FairSpec == Spec /\ \A t \in Threads : WF_vars(Step(t))

-----------------------------------------------------------------------------
(* Properties *)

Inside == {t \in Threads : pc[t] \in {"load", "store", "exit"}}

\* The type invariant.
TypeOK ==
  /\ state \in {0, 1}
  /\ pc \in [Threads -> {"out", "test", "cas", "load", "store", "exit",
                         "blocked"}]
  /\ blocking \in [Threads -> BOOLEAN]
  /\ work \in 0 .. Wrap - 1 /\ done \in 0 .. Wrap - 1
  /\ seen \in [Threads -> 0 .. Wrap - 1]

\* "Only one thread can be in the turnstile at a time": with plain loads and
\* stores in the block no update of shared memory is ever lost.
NoLostUpdate == work = done

\* Why: the word is 1 exactly while there is one thread inside, and what that
\* thread has loaded is still what is there.
OneInside ==
  /\ \A t, u \in Inside : t = u
  /\ Inside # {} <=> state = 1
  /\ \A t \in Threads : pc[t] = "store" => seen[t] = work

IInv == TypeOK /\ OneInside /\ NoLostUpdate

\* A thread that does not want to block is never kept waiting, whoever is
\* inside; other threads may come and go for ever.
NonBlockingReturns ==
  \A t \in Threads : pc[t] = "test" /\ ~blocking[t] ~> pc[t] = "out"

\* The turnstile does not get stuck: while a thread waits to get in, threads
\* get in (not necessarily that one, the lock is not fair).
SomebodyGetsIn ==
  (\E t \in Threads : pc[t] = "test" /\ blocking[t])
    ~> \E u \in Threads : pc[u] = "load"
=============================================================================
