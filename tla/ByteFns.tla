-------------------------------- MODULE ByteFns --------------------------------
(***************************************************************************)
(* The byte functions of lib/bcmp.c as SeaHorn runs them: bcmp, memcmp,    *)
(* memchr and strncmp.  Their loops come in two parts, so that the first   *)
(* can be unrolled: MaxBuffer turns, of which those from n on do nothing,  *)
(* and then whatever is left.  memchr never sets the pointer it reads      *)
(* through: it may point anywhere.  Pointers may be NULL where the code    *)
(* does not read through them.                                             *)
(***************************************************************************)
EXTENDS Integers, FiniteSets

CONSTANTS Bytes,     \* values of a byte, 0 among them
          Size,      \* bytes of a buffer
          MaxBuffer  \* sea_max_buffer_size()

ByteFnsAssumption == Size \in Nat /\ MaxBuffer \in Nat /\ Bytes \subseteq Nat

VARIABLES
  fn,       \* which function runs
  s1, s2,   \* the buffers, [i |-> byte]
  ptrs,     \* how the pointers are: apart, same, null1, null2
  n,        \* bytes to be looked at
  pc,       \* scan (strncmp), begin, pre, rest, done
  i,
  p,        \* what memchr reads: s1 as it should, or something else
  ret

vars == <<fn, s1, s2, ptrs, n, pc, i, p, ret>>

Null == ptrs \in {"null1", "null2"}
Buffers == [0 .. Size - 1 -> Bytes]
NotFound == -2   \* NULL from memchr; indices and signs are greater

Init ==
  /\ fn \in {"bcmp", "memcmp", "memchr", "strncmp"}
  /\ s1 \in Buffers /\ s2 \in Buffers
  /\ ptrs \in {"apart", "same", "null1", "null2"}
  /\ ptrs = "same" => s2 = s1
  /\ n \in 0 .. Size
  /\ Null => fn = "bcmp" \/ (fn # "memchr" /\ n = 0)
  /\ pc = IF fn = "strncmp" THEN "scan" ELSE "begin"
  /\ i = 0 /\ ret = 0
  /\ p \in IF fn = "memchr" THEN {"s1", "elsewhere"} ELSE {"s1"}

Return(v) == ret' = v /\ pc' = "done" /\ UNCHANGED <<fn, s1, s2, ptrs, n, i, p>>

\* strncmp: up to the shorter string's end, which is not compared itself.
Scan ==
  /\ pc = "scan"
  /\ IF i < n /\ s1[i] # 0 /\ s2[i] # 0
       THEN i' = i + 1 /\ UNCHANGED <<n, pc>>
       ELSE n' = i /\ pc' = "begin" /\ i' = 0
  /\ UNCHANGED <<fn, s1, s2, ptrs, p, ret>>

\* The early returns.
Begin ==
  /\ pc = "begin"
  /\ CASE fn # "memchr" /\ ptrs = "same" -> Return(0)
       [] fn = "bcmp" /\ Null -> Return(1)
       [] OTHER -> pc' = "pre" /\ UNCHANGED <<fn, s1, s2, ptrs, n, i, p, ret>>

\* One turn of a loop: what decides the result at i.  Elsewhere there may be
\* the byte that is looked for, or not.
Lost == p = "elsewhere"
Decides == IF fn = "memchr" THEN s1[i] = s2[0] ELSE s1[i] # s2[i]
MayDecide == Lost \/ Decides
MayNot == Lost \/ ~Decides

Result ==
  CASE fn = "memchr" -> i
    [] fn = "bcmp" -> 1
    [] OTHER -> IF s1[i] < s2[i] THEN -1 ELSE 1

Turn ==
  \/ MayDecide /\ Return(Result)
  \/ /\ MayNot
     /\ i' = i + 1
     /\ UNCHANGED <<fn, s1, s2, ptrs, n, pc, p, ret>>

\* for( i=0; i<max_buffer_size; i++ ) if( i<n )
PreUnrolled ==
  /\ pc = "pre"
  /\ IF i < MaxBuffer
       THEN IF i < n THEN Turn
            ELSE i' = i + 1 /\ UNCHANGED <<fn, s1, s2, ptrs, n, pc, p, ret>>
       ELSE pc' = "rest" /\ i' = MaxBuffer /\ UNCHANGED <<fn, s1, s2, ptrs, n, p, ret>>

\* Mutant: the rest starts over one byte late.
RestLate ==
  /\ pc = "rest"
  /\ IF i + 1 < n THEN Turn ELSE Return(IF fn = "memchr" THEN NotFound ELSE 0)

\* for( i=max_buffer_size; i<n; i++ )
Rest ==
  /\ pc = "rest"
  /\ IF i < n THEN Turn ELSE Return(IF fn = "memchr" THEN NotFound ELSE 0)

Done == pc = "done" /\ UNCHANGED vars

Next == Scan \/ Begin \/ PreUnrolled \/ Rest \/ Done

Spec == Init /\ [][Next]_vars

-----------------------------------------------------------------------------
(* Properties *)

Differ == {k \in 0 .. n - 1 : s1[k] # s2[k]}
FirstDiffer == CHOOSE k \in Differ : \A l \in Differ : k <= l
Sign(a, b) == CASE a < b -> -1 [] a = b -> 0 [] a > b -> 1

Wanted == {k \in 0 .. n - 1 : s1[k] = s2[0]}

\* The comparisons say whether n bytes differ and memcmp which of the first
\* ones that do is less, at every n below, at and above the unrolled turns.
\* strncmp answers for as much as both strings have: a string and its
\* beginning are the same to it.  bcmp with one pointer NULL is not 0 even
\* for no bytes at all.  memchr stays below n wherever it reads, but only if
\* that is the string by chance does it answer for it.
ComparesBytes ==
  pc = "done" =>
    /\ fn = "bcmp" => (ret = 0 <=> ~Null /\ Differ = {})
    /\ fn \in {"memcmp", "strncmp"} =>
         ret = IF Differ = {} THEN 0 ELSE Sign(s1[FirstDiffer], s2[FirstDiffer])
    /\ fn = "strncmp" => \A k \in 0 .. n - 1 : s1[k] # 0 /\ s2[k] # 0
    /\ fn = "memchr" =>
         \/ ret = NotFound /\ (p = "s1" => Wanted = {})
         \/ ret \in 0 .. n - 1 /\ (p = "s1" => ret \in Wanted /\ \A k \in Wanted : ret <= k)
=============================================================================
