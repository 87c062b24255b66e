------------------------------- MODULE ChachaRng -------------------------------
(***************************************************************************)
(* The random numbers of fd_chacha20rng.h: a ring buffer of words that is  *)
(* refilled by the block, and rolls of an unbiased number below n by       *)
(* rejection.  A word of the buffer is known by the key it was generated   *)
(* from and its place in the stream of that key; what its W bits are is    *)
(* anybody's guess until it is read.  fd_chacha20rng_init and the refill   *)
(* functions are not in the repository: they are modelled from their       *)
(* comments and from what the harness asserts.                             *)
(***************************************************************************)
EXTENDS Integers, FiniteSets, FiniteSetsExt

CONSTANTS W,          \* bits of a word
          BufWords,   \* words of the buffer (FD_CHACHA20RNG_BUFSZ / 8)
          BlockWords, \* words of a block
          Ns,         \* bounds that are rolled for
          MaxKeys,    \* BOUND: keys that are used one after the other
          MaxWords    \* BOUND: words that are read with one key

\* Powers of two are what they are: the provers do not know it.
PowersOfTwo == \A k \in 0 .. W : 2 ^ (k + 1) = 2 * 2 ^ k

RngAssumption ==
  /\ PowersOfTwo
  /\ {W, BufWords, BlockWords} \subseteq Nat \ {0}
  /\ BufWords % BlockWords = 0
  /\ Ns \subseteq 1 .. 2 ^ W - 1

VARIABLES
  buf,        \* the ring of words
  buf_off,    \* words consumed
  buf_fill,   \* words produced
  mode,
  key,        \* how many times the generator has been started
  n,          \* what is rolled for, 0 if nothing is
  took,       \* the last word that was read
  ret         \* the last number that was rolled

vars == <<buf, buf_off, buf_fill, mode, key, n, took, ret>>

Words == 0 .. 2 ^ W - 1
ULONG_MAX == 2 ^ W - 1
Garbage == [key |-> 0, at |-> 0]
Hi(v, m) == (v * m) \div 2 ^ W
Lo(v, m) == (v * m) % (2 ^ W)

-----------------------------------------------------------------------------
\* Memory is whatever it was; nothing can be rolled before init.
Init ==
  /\ buf = [i \in 0 .. BufWords - 1 |-> Garbage]
  /\ buf_off \in 0 .. 1 /\ buf_fill \in 0 .. 1
  /\ mode \in {"mod", "shift"}
  /\ key = 0 /\ n = 0 /\ took = Garbage /\ ret = 0

\* fd_chacha20rng_init: the stream of another key.
Start ==
  /\ n = 0 /\ key < MaxKeys
  /\ key' = key + 1 /\ buf_off' = 0 /\ buf_fill' = 0
  /\ UNCHANGED <<buf, mode, n, took, ret>>

avail == buf_fill - buf_off

\* fd_chacha20rng_refill_*: at least a block, and as many as there is room for.
Refill(new, fill) ==
  \E blocks \in 1 .. BufWords \div BlockWords :
    /\ fill = buf_fill + blocks * BlockWords
    /\ fill - buf_off <= BufWords
    /\ new = [i \in 0 .. BufWords - 1 |->
         LET at == {k \in buf_fill .. fill - 1 : k % BufWords = i} IN
         IF at = {} THEN buf[i] ELSE [key |-> key, at |-> Max(at)]]

\* Mutant: the buffer is refilled a word early.
TakeEarly(word, b, fill) ==
  /\ \/ avail >= 2 /\ b = buf /\ fill = buf_fill
     \/ /\ avail < 2
        /\ fill = buf_fill + BufWords
        /\ b = [i \in 0 .. BufWords - 1 |->
             LET at == {k \in buf_fill .. fill - 1 : k % BufWords = i} IN
             [key |-> key, at |-> Max(at)]]
  /\ word = b[buf_off % BufWords]

\* fd_chacha20rng_ulong, but for the step of buf_off: the word that is read,
\* and what the buffer is like then.
Take(word, b, fill) ==
  /\ \/ avail >= 1 /\ b = buf /\ fill = buf_fill
     \/ avail < 1 /\ Refill(b, fill)
  /\ word = b[buf_off % BufWords]

Msb(m) == CHOOSE b \in 0 .. W - 1 : 2 ^ b <= m /\ m < 2 ^ (b + 1)

\* Mutant: the zone is not a multiple of n.
ZoneHalf(m, md) ==
  IF md = "mod" THEN ULONG_MAX - ((ULONG_MAX - m + 1) % m) ELSE 2 ^ (W - 1)

Zone(m, md) ==
  IF md = "mod" THEN ULONG_MAX - ((ULONG_MAX - m + 1) % m)
  ELSE ((m * 2 ^ (W - 1 - Msb(m))) % (2 ^ W)) - 1

\* fd_chacha20rng_ulong_roll: a call ...
Call(m) ==
  /\ key > 0 /\ n = 0 /\ n' = m
  /\ UNCHANGED <<buf, buf_off, buf_fill, mode, key, took, ret>>

\* ... and each turn of its loop.
Attempt ==
  \E v \in Words :
    /\ n # 0 /\ buf_off < MaxWords
    /\ Take(took', buf', buf_fill')
    /\ buf_off' = buf_off + 1
    /\ IF Lo(v, n) <= Zone(n, mode)
         THEN ret' = Hi(v, n) /\ n' = 0
         ELSE UNCHANGED <<ret, n>>
    /\ UNCHANGED <<mode, key>>

Next ==
  \/ Start \/ (\E m \in Ns : Call(m)) \/ Attempt
  \/ buf_off = MaxWords /\ UNCHANGED vars

Spec == Init /\ [][Next]_vars

-----------------------------------------------------------------------------
(* Properties *)

\* The words are those of the stream of the last key, each read once and in
\* order, across refills and turns of the ring and whatever an earlier key
\* has left in the buffer.
StreamInOrder ==
  [][buf_off' > buf_off =>
       took' = [key |-> key, at |-> buf_off] /\ took' # took]_vars

\* Every number below n is rolled for as many words as every other one.
Uniform ==
  LET hits(h) == Cardinality({v \in Words : Hi(v, n) = h /\ Lo(v, n) <= Zone(n, mode)}) IN
  n # 0 => \A h \in 0 .. n - 1 : hits(h) = hits(0) /\ hits(h) > 0

\* At least half of the words are accepted, so a roll takes two words or less
\* on average: "the smallest power of two such that k*n >= 2^63".
HalfAccepted ==
  n # 0 => 2 * Cardinality({v \in Words : Lo(v, n) <= Zone(n, mode)}) >= 2 ^ W
=============================================================================
