------------------------------- MODULE SeqNum -------------------------------
(***************************************************************************)
(* Sequence numbers, as the tango headers use them.  A ulong sequence      *)
(* number is the residue modulo SeqMod (2^64) of the integer the models    *)
(* keep for it; the operators below, which are all that the code applies   *)
(* to sequence numbers, look at the residue only.  The integer behind it   *)
(* is what the properties are stated with.                                 *)
(***************************************************************************)
EXTENDS Integers

CONSTANT SeqHalf  \* half the number of sequence numbers (2^63)

SeqMod == 2 * SeqHalf

\* Equality of two ulongs.
SeqEq(a, b) == a % SeqMod = b % SeqMod

\* fd_seq_diff: (long)(a - b), in [-SeqHalf, SeqHalf).
SeqDiff(a, b) == ((a - b + SeqHalf) % SeqMod) - SeqHalf
=============================================================================
