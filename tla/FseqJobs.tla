------------------------------- MODULE FseqJobs -------------------------------
(***************************************************************************)
(* fseqs in the verification build (stubs/tango/fseq_override.c): a join   *)
(* is not into the shared memory but to a block outside of it, one for the *)
(* whole program, and what a leave returns is the one region that was      *)
(* allocated.  The two fseq harnesses create one fseq, query, update and   *)
(* delete it; here a program may do so for several regions, or more than   *)
(* once for one, with the calls in any order.  fd_fseq_new and             *)
(* fd_fseq_delete are not in the repository: they are modelled from their  *)
(* comments.                                                               *)
(***************************************************************************)
EXTENDS Integers

CONSTANTS Regions,  \* regions the program formats; Hidden is one of them
          Hidden,   \* the region of allocate_fseq
          Seqs,     \* sequence numbers
          Sizes,    \* sizes a harness asks initialize_bounded_seq for
          MaxOps    \* BOUND: calls after the first ones

FseqJobsAssumption == Hidden \in Regions /\ Seqs \subseteq Nat /\ Sizes \subseteq Nat

VARIABLES
  shmem,    \* magic and seq0 of every region
  g_ul_ptr, \* words of the block joins go to, <<>> before it is allocated
  joined,   \* regions with a join
  wrote,    \* the number of each region: its seq0, or what was stored last
  own,      \* the region whose number the block has, if there is one
  made,     \* calls of fd_fseq_new
  got,      \* the last query or accessor: the region, what it was and the answer
  ops

vars == <<shmem, g_ul_ptr, joined, wrote, own, made, got, ops>>

None == -1
Garbage == -2
Outside == -3   \* what lies before or behind the block

Init ==
  /\ shmem = [r \in Regions |-> [magic |-> FALSE, seq0 |-> Garbage]]
  /\ g_ul_ptr = <<>>
  /\ joined = {} /\ own = {} /\ made = 0 /\ wrote = [r \in Regions |-> None]
  /\ got = [r |-> None, what |-> "none", v |-> None]
  /\ ops = 0

Op == ops < MaxOps /\ ops' = ops + 1
Allocated == g_ul_ptr # <<>>

\* Mutant: the first word is left as it was.
InitializeUnset(size, seq0) ==
  g_ul_ptr' = IF Allocated THEN g_ul_ptr ELSE [i \in 0 .. size |-> Garbage]

\* initialize_bounded_seq, the first time: size+1 words, and seq0 in the first.
Initialize(size, seq0) ==
  g_ul_ptr' = IF Allocated THEN g_ul_ptr
              ELSE [i \in 0 .. size |-> IF i = 0 THEN seq0 ELSE Garbage]

\* How a harness starts: initialize_bounded_seq and fd_fseq_new, with the same
\* seq0.  Where there is a block already, it goes on with the number it has.
New(r) ==
  /\ Op /\ r \notin joined /\ made' = made + 1
  /\ \E seq0 \in Seqs, size \in Sizes :
       /\ Initialize(size, seq0)
       /\ shmem' = [shmem EXCEPT ![r] = [magic |-> TRUE, seq0 |-> seq0]]
       /\ wrote' = [wrote EXCEPT ![r] = seq0]
  /\ own' = IF Allocated THEN own \ {r} ELSE {r}
  /\ UNCHANGED <<joined, got>>

\* fd_fseq_join gives the block, whatever the region.
Join(r) ==
  /\ Op /\ shmem[r].magic
  /\ joined' = joined \cup {r}
  /\ UNCHANGED <<shmem, g_ul_ptr, wrote, own, made, got>>

Word(i) == IF i \in DOMAIN g_ul_ptr THEN g_ul_ptr[i] ELSE Outside

\* fd_fseq_query
Query(r) ==
  /\ Op /\ r \in joined
  /\ got' = [r |-> r, what |-> "seq", v |-> Word(0)]
  /\ UNCHANGED <<shmem, g_ul_ptr, joined, wrote, own, made>>

\* fd_fseq_seq0 reads the word before the one a join points to.
Seq0(r) ==
  /\ Op /\ r \in joined
  /\ got' = [r |-> r, what |-> "seq0", v |-> Word(-1)]
  /\ UNCHANGED <<shmem, g_ul_ptr, joined, wrote, own, made>>

\* fd_fseq_update
Update(r) ==
  /\ Op /\ r \in joined
  /\ \E seq \in Seqs :
       /\ g_ul_ptr' = [g_ul_ptr EXCEPT ![0] = seq]
       /\ wrote' = [wrote EXCEPT ![r] = seq]
  /\ own' = {r}
  /\ UNCHANGED <<shmem, joined, made, got>>

\* fd_fseq_leave gives hidden, and that is what the harness deletes.
Leave(r) ==
  /\ Op /\ r \in joined
  /\ joined' = joined \ {r}
  /\ got' = [r |-> r, what |-> "left", v |-> Hidden]
  /\ shmem' = [shmem EXCEPT ![Hidden].magic = FALSE]
  /\ UNCHANGED <<g_ul_ptr, wrote, own, made>>

Next ==
  \/ \E r \in Regions : New(r) \/ Join(r) \/ Query(r) \/ Seq0(r) \/ Update(r) \/ Leave(r)
  \/ ops = MaxOps /\ UNCHANGED vars

Spec == Init /\ [][Next]_vars

-----------------------------------------------------------------------------
(* Properties *)

\* The harnesses' assertions: a query finds what was stored last, from seq0 on,
\* the join is of a fseq that is there, and a leave gives its region.  They
\* hold as long as the program has made one fseq, in the region that the stub
\* has allocated.  With several joined at once each finds its number until
\* another one stores, and never if it was not the first; a leave gives the
\* allocated region for all of them, and that one may be deleted while joined.
AssertsHold ==
  /\ \A r \in own : g_ul_ptr[0] = wrote[r]
  /\ made = 1 => joined \subseteq own
  /\ \A r \in joined : shmem[r].magic \/ (r = Hidden /\ made > 1)
  /\ got.what = "left" => got.v = Hidden
=============================================================================
