------------------------------ MODULE MCThreads ------------------------------
(***************************************************************************)
(* Constants for model checking what has to happen in the end: a consumer  *)
(* of Mcache that catches up, and the parts of UtilBase.  They share       *)
(* nothing: a behaviour runs one of them and leaves the others as they     *)
(* are.                                                                    *)
(***************************************************************************)
EXTENDS MCMcache, UtilBase, TLC

VARIABLE part   \* the one that runs

\* A block with two others nested in it, all of them also reached directly.
MCNested == "outer" :> <<"mine", "inner">> @@ "inner" :> <<>> @@ "mine" :> <<>>

mcvars == <<part, vars, turnstileVars, onceVars, xchgVars>>

MCInit ==
  /\ part \in {"mcache", "turnstile", "once", "xchg"}
  /\ Init /\ T!Init /\ O!Init /\ X!Init

\* What a step of each part leaves alone.
OthersKept ==
  /\ part # "mcache" => UNCHANGED vars
  /\ part # "turnstile" => UNCHANGED turnstileVars
  /\ part # "once" => UNCHANGED onceVars
  /\ part # "xchg" => UNCHANGED xchgVars
  /\ UNCHANGED part

MCNext ==
  /\ \/ part = "mcache" /\ Next
     \/ part = "turnstile" /\ T!Next
     \/ part = "once" /\ O!Next
     \/ part = "xchg" /\ X!Next
  /\ OthersKept

\* The run loop of a consumer keeps going, and so does a thread that has
\* reached a turnstile or a block.
MCSpec ==
  /\ MCInit /\ [][MCNext]_mcvars
  /\ \A c \in Consumers : WF_mcvars(part = "mcache" /\ RunLoop(c) /\ OthersKept)
  /\ \A t \in Threads :
       WF_mcvars(/\ \/ part = "turnstile" /\ T!Step(t)
                    \/ part = "once" /\ O!Step(t)
                 /\ OthersKept)
=============================================================================
