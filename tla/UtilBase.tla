------------------------------ MODULE UtilBase ------------------------------
(***************************************************************************)
(* What fd_util_base.h offers to threads: turnstiles (Turnstile), blocks   *)
(* that run once (Once) and the atomic exchange of a word (Xchg).  They    *)
(* share nothing but the threads; this module brings them together, with   *)
(* the properties that they promise.                                       *)
(***************************************************************************)
EXTENDS Integers, Sequences

CONSTANTS
  Threads,
  Wrap,                                     \* as in Turnstile
  OnceBlocks, ThreadBlocks, Nested, Roots,  \* as in Once
  Styles, Spare                             \* as in Xchg

VARIABLES
  state, pc, blocking, work, seen, done,          \* Turnstile
  block_state, block_tstate, stack, began, ended, \* Once
  word, held, loaded, xpc                         \* Xchg

T == INSTANCE Turnstile
O == INSTANCE Once WITH state <- block_state, tstate <- block_tstate
X == INSTANCE Xchg WITH pc <- xpc

ASSUME UtilBaseAssumption ==
  T!TurnstileAssumption /\ O!OnceAssumption /\ X!XchgAssumption

turnstileVars == <<state, pc, blocking, work, seen, done>>
onceVars == <<block_state, block_tstate, stack, began, ended>>
xchgVars == <<word, held, loaded, xpc>>

-----------------------------------------------------------------------------
(* Properties *)

\* One thread at a time is in a turnstile: with plain loads and stores in the
\* block no update of shared memory is ever lost.
NoLostUpdate == T!NoLostUpdate

\* A thread that does not want to block is never kept waiting, whoever is
\* inside; other threads may come and go for ever.
NonBlockingReturns == T!NonBlockingReturns

\* The turnstile does not get stuck: while a thread waits to get in, threads
\* get in.
SomebodyGetsIn == T!SomebodyGetsIn

\* A ONCE block begins at most once in the process, a THREAD_ONCE block once
\* in each thread (FD_ONCE_BEGIN's compare and swap).
AtMostOnce == O!AtMostOnce

\* A thread leaves a block only when its code has come to its end, that of
\* the blocks nested in it included.
NobodyPassesEarly == O!NobodyPassesEarly

\* Every thread that reaches a block gets past it.
EveryoneGetsThrough == O!EveryoneGetsThrough

\* No exchange loses or doubles a value, whichever way it is done.
TokensConserved == X!TokensConserved
=============================================================================
