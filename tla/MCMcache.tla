------------------------------ MODULE MCMcache ------------------------------
(***************************************************************************)
(* Constants for model checking Mcache.  Sequence numbers have 5 bits and  *)
(* the mcache starts two below the wrap, so every run crosses it.          *)
(***************************************************************************)
EXTENDS Mcache

MCFields == {"sig", "chunk", "tspub"}
MCFewFields == {"sig", "chunk"}
MCSseFields == {"sig"}
=============================================================================
