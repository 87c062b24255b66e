-------------------------------- MODULE Xchg --------------------------------
(***************************************************************************)
(* FD_ATOMIC_XCHG (stubs/fd_util_base.h): the atomic exchange of a word.   *)
(* C code on x86 gets one instruction (style 1); C++ code and other        *)
(* targets emulate it with a load and a compare and swap (style 0).  Both  *)
(* may be at work on one word, when C and C++ units share it.              *)
(*                                                                         *)
(* Every thread holds a token and puts it in the word in exchange for the  *)
(* one that is there, as often as it likes.                                *)
(***************************************************************************)
EXTENDS Naturals, FiniteSets

CONSTANTS Threads,
          Styles,   \* of {0, 1}
          Spare     \* the token that is in the word at first

XchgAssumption == Styles \subseteq {0, 1} /\ Spare \notin Threads

VARIABLES word, held, loaded, pc

vars == <<word, held, loaded, pc>>

Init ==
  /\ word = Spare
  /\ held = [t \in Threads |-> t]  \* one token each, no two the same
  /\ loaded = held
  /\ pc = [t \in Threads |-> "idle"]

\* Style 1: __sync_lock_test_and_set
Atomic(t) ==
  /\ 1 \in Styles /\ pc[t] = "idle"
  /\ word' = held[t]
  /\ held' = [held EXCEPT ![t] = word]
  /\ UNCHANGED <<loaded, pc>>

\* Style 0: load the word ...
Load(t) ==
  /\ 0 \in Styles /\ pc[t] = "idle"
  /\ loaded' = [loaded EXCEPT ![t] = word]
  /\ pc' = [pc EXCEPT ![t] = "cas"]
  /\ UNCHANGED <<word, held>>

\* Mutant: the swap is not conditional on what has been loaded.
SwapStores(t) ==
  /\ pc[t] = "cas"
  /\ word' = held[t]
  /\ held' = [held EXCEPT ![t] = loaded[t]]
  /\ pc' = [pc EXCEPT ![t] = "idle"]
  /\ UNCHANGED loaded

\* ... and swap if it has not changed: the value returned is the one loaded.
Swap(t) ==
  /\ pc[t] = "cas" /\ word = loaded[t]
  /\ word' = held[t]
  /\ held' = [held EXCEPT ![t] = loaded[t]]
  /\ pc' = [pc EXCEPT ![t] = "idle"]
  /\ UNCHANGED loaded

\* It has: FD_SPIN_PAUSE and load it again.
Retry(t) ==
  /\ pc[t] = "cas" /\ word # loaded[t]
  /\ loaded' = [loaded EXCEPT ![t] = word]
  /\ UNCHANGED <<word, held, pc>>

Next == \E t \in Threads : Atomic(t) \/ Load(t) \/ Swap(t) \/ Retry(t)

Spec == Init /\ [][Next]_vars

\* No exchange loses or doubles a value, however the exchanges interleave:
\* every token is in one place, the word or a thread's hands.
TokensConserved ==
  /\ {word} \cup {held[t] : t \in Threads} = Threads \cup {Spare}
  /\ \A t \in Threads : held[t] # word
  /\ \A t, u \in Threads : held[t] = held[u] => t = u
=============================================================================
