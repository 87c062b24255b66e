--------------------------------- MODULE Svw ---------------------------------
(***************************************************************************)
(* Symmetric variable width integers (fd_bits.h): an integer takes 1 to 9  *)
(* bytes, and both its first and its last byte tell how many.              *)
(*                                                                         *)
(* A word is the set of the positions of its one bits, and so is memory:   *)
(* bit i of byte a is at position 8 * a + i (little endian).  Or is union, *)
(* and is intersection, and a shift moves every position.                  *)
(***************************************************************************)
EXTENDS Integers

Shl(x, n) == {i + n : i \in x}
Shr(x, n) == {i - n : i \in {j \in x : j >= n}}
Low(x, n) == x \cap (0 .. n - 1)

Bytes(b, n) == 8 * b .. 8 * (b + n) - 1

\* FD_STORE of the low n bytes of w at b, and fd_ulong_load_n.
Store(m, b, n, w) == (m \ Bytes(b, n)) \cup Shl(Low(w, 8 * n), 8 * b)
Load(m, b, n) == Shr(m \cap Bytes(b, n), 8 * b)

\* Where unaligned access is direct, an odd size is two loads put together.
Join(m, b, k, n) == Load(m, b, k) \cup Shl(Load(m, b + k, n - k), 8 * k)

LoadDirect(m, b, n) ==
  CASE n = 3 -> Join(m, b, 2, 3)
    [] n \in {5, 6} -> Join(m, b, 4, n)
    [] n = 7 -> Join(m, b, 4, 6) \cup Shl(Load(m, b + 6, 1), 48)
    [] OTHER -> Load(m, b, n)

\* The fast loads read more bytes and mask the ones that are not asked for.
LoadFast(m, b, n) ==
  CASE n = 3 -> Low(Load(m, b, 4), 24)
    [] n \in {5, 6, 7} -> Low(Load(m, b, 8), 8 * n)
    [] OTHER -> Load(m, b, n)

-----------------------------------------------------------------------------
\* How many bits of integer there are in 1, 2, 3, 4, 5, 8 and 9 bytes.
Room == [csz \in {1, 2, 3, 4, 5, 8, 9} |->
  CASE csz = 1 -> 6  [] csz = 2 -> 10 [] csz = 3 -> 18 [] csz = 4 -> 24
    [] csz = 5 -> 32 [] csz = 8 -> 56 [] csz = 9 -> 64]

Fits(x, csz) == x \subseteq 0 .. Room[csz] - 1

\* fd_ulong_svw_enc_sz
EncSz(x) ==
  CHOOSE csz \in DOMAIN Room :
    Fits(x, csz) /\ \A c \in DOMAIN Room : Fits(x, c) => csz <= c

EncFixed(m, b, csz, x) ==
  CASE csz = 1 -> Store(m, b, 1, Shl(x, 1))
    [] csz = 2 -> Store(m, b, 2, {0, 15} \cup Shl(x, 3))
    [] csz = 3 -> Store(Store(m, b, 2, {0, 2} \cup Shl(x, 3)),
                        b + 2, 1, {5, 7} \cup Shr(x, 13))
    [] csz = 4 -> Store(m, b, 4, {0, 1, 30, 31} \cup Shl(x, 4))
    [] csz = 5 -> Store(Store(m, b, 4, {0, 1, 3} \cup Shl(x, 4)),
                        b + 4, 1, {4, 6, 7} \cup Shr(x, 28))
    [] csz = 8 -> Store(m, b, 8, {0, 1, 2, 61, 62, 63} \cup Shl(x, 4))
    [] csz = 9 -> Store(Store(m, b, 8, {0, 1, 2, 3} \cup Shl(x, 4)),
                        b + 8, 1, {4, 5, 6, 7} \cup Shr(x, 60))

\* fd_ulong_svw_enc: as many bytes as the integer needs.
Enc(m, b, x) == EncFixed(m, b, EncSz(x), x)

\* The table of sizes, by the upper four bits of a byte.
SizeOf(m, b) ==
  LET byte == Load(m, b, 1) IN
  CASE 7 \notin byte -> 1
    [] 7 \in byte /\ 6 \notin byte -> IF 5 \in byte THEN 3 ELSE 2
    [] {6, 7} \subseteq byte /\ 5 \notin byte -> IF 4 \in byte THEN 5 ELSE 4
    [] {5, 6, 7} \subseteq byte -> IF 4 \in byte THEN 9 ELSE 8

\* b is the first byte of the integer.
DecSz(m, b) == SizeOf(m, b)

\* Read from its first byte x has the size csz that it was written in.  A first
\* byte holds bits of the integer where the table of sizes is looked up, and
\* only if they happen to be right is the size.
Legible(x, csz) ==
  CASE csz = 1 -> TRUE
    [] csz = 2 -> x \cap (2 .. 4) = {4}
    [] csz = 3 -> x \cap (2 .. 4) = {2, 4}
    [] csz = 4 -> x \cap (0 .. 3) = {2, 3}
    [] csz = 5 -> x \cap (0 .. 3) = {0, 2, 3}
    [] csz = 8 -> x \cap (0 .. 3) = {1, 2, 3}
    [] csz = 9 -> x \cap (0 .. 3) = {0, 1, 2, 3}

\* Mutant: the size is looked up in the byte after the integer.
DecTailSzLate(m, e) == SizeOf(m, e)

\* e is the byte after the integer's last one.
DecTailSz(m, e) == SizeOf(m, e - 1)

DecFixed(m, b, csz) ==
  CASE csz = 1 -> Shr(Load(m, b, 1), 1)
    [] csz = 2 -> Low(Shr(Load(m, b, 2), 3), 10)
    [] csz = 3 -> Shr(Load(m, b, 2), 3) \cup Shl(Low(Load(m, b + 2, 1), 5), 13)
    [] csz = 4 -> Low(Shr(Load(m, b, 4), 4), 24)
    [] csz = 5 -> Shr(Load(m, b, 4), 4) \cup Shl(Low(Load(m, b + 4, 1), 4), 28)
    [] csz = 8 -> Low(Shr(Load(m, b, 8), 4), 56)
    [] csz = 9 -> Shr(Load(m, b, 8), 4) \cup Low(Shl(Load(m, b + 8, 1), 60), 64)

\* fd_ulong_svw_dec: forwards, from the first byte.
DecSvw(m, b) == DecFixed(m, b, DecSz(m, b))
=============================================================================
