---------------------------- MODULE Codecs_proofs ----------------------------
(***************************************************************************)
(* Proofs about Codecs.  The streams of integers: for any number of any    *)
(* 64-bit integers, in memory that held anything, appended and updated in  *)
(* any order, a reader gets them back from the end of the stream.  The     *)
(* layouts: for any regions, in any block of the address space, the        *)
(* footprint is enough.  The bit operations: for words of 8 to 128 bits    *)
(* they compute what the comments say, whatever the word.  The pods: for   *)
(* any inputs and any sequence of insertions, subpods and resets, a pod    *)
(* gives back what was put into it.                                        *)
(***************************************************************************)
EXTENDS Codecs, ModularLemmas, FiniteSetTheorems

-----------------------------------------------------------------------------
(* Bits of memory: which bit a shift, a load or a store makes of which      *)

LEMMA InShl ==
  ASSUME NEW x \in SUBSET Nat, NEW n \in Nat, NEW j \in Int
  PROVE  j \in S!Shl(x, n) <=> j - n \in x
BY DEF S!Shl

LEMMA InShr ==
  ASSUME NEW x \in SUBSET Nat, NEW n \in Nat, NEW j \in Int
  PROVE  j \in S!Shr(x, n) <=> j >= 0 /\ j + n \in x
<1>1. ASSUME j >= 0, j + n \in x PROVE j \in S!Shr(x, n)
  <2>1. j + n \in {k \in x : k >= n} /\ (j + n) - n = j
    BY <1>1
  <2> QED BY <2>1 DEF S!Shr
<1>2. ASSUME j \in S!Shr(x, n) PROVE j >= 0 /\ j + n \in x
  <2>1. PICK i \in {k \in x : k >= n} : j = i - n
    BY <1>2 DEF S!Shr
  <2> QED BY <2>1
<1> QED BY <1>1, <1>2

LEMMA InLow ==
  ASSUME NEW x, NEW n \in Nat, NEW j \in Int
  PROVE  j \in S!Low(x, n) <=> j \in x /\ 0 <= j /\ j < n
BY DEF S!Low

\* Shifts, loads and stores make bits at natural positions of such bits.
LEMMA BitsNat ==
  ASSUME NEW x \in SUBSET Nat, NEW n \in Nat
  PROVE  S!Shl(x, n) \in SUBSET Nat /\ S!Shr(x, n) \in SUBSET Nat
         /\ S!Low(x, n) \in SUBSET Nat
<1>1. S!Shl(x, n) \in SUBSET Nat
  BY DEF S!Shl
<1>2. S!Shr(x, n) \in SUBSET Nat
  BY DEF S!Shr
<1>3. S!Low(x, n) \in SUBSET Nat
  BY DEF S!Low
<1> QED BY <1>1, <1>2, <1>3

LEMMA StoreNat ==
  ASSUME NEW m \in SUBSET Nat, NEW b \in Nat, NEW n \in Nat, NEW w \in SUBSET Nat
  PROVE  S!Store(m, b, n, w) \in SUBSET Nat
<1>1. S!Low(w, 8 * n) \in SUBSET Nat
  BY DEF S!Low
<1>2. S!Shl(S!Low(w, 8 * n), 8 * b) \in SUBSET Nat
  BY <1>1, 8 * b \in Nat, BitsNat, Zenon
<1> QED BY <1>2 DEF S!Store

\* A store replaces the bits of its bytes and no others.
LEMMA InStore ==
  ASSUME NEW m \in SUBSET Nat, NEW b \in Nat, NEW n \in Nat, NEW w \in SUBSET Nat,
         NEW j \in Nat
  PROVE  j \in S!Store(m, b, n, w)
           <=> IF 8 * b <= j /\ j < 8 * b + 8 * n THEN j - 8 * b \in w ELSE j \in m
<1>1. S!Low(w, 8 * n) \in SUBSET Nat /\ 8 * b \in Nat /\ 8 * n \in Nat
  BY BitsNat
<1>2. j \in S!Shl(S!Low(w, 8 * n), 8 * b) <=> j - 8 * b \in S!Low(w, 8 * n)
  BY <1>1, InShl
<1>3. j - 8 * b \in S!Low(w, 8 * n)
        <=> j - 8 * b \in w /\ 0 <= j - 8 * b /\ j - 8 * b < 8 * n
  BY <1>1, InLow
<1>4. j \in S!Bytes(b, n) <=> 8 * b <= j /\ j < 8 * b + 8 * n
  BY DEF S!Bytes
<1> QED BY <1>2, <1>3, <1>4 DEF S!Store

LEMMA LoadNat ==
  ASSUME NEW m \in SUBSET Nat, NEW b \in Nat, NEW n \in Nat
  PROVE  S!Load(m, b, n) \in SUBSET Nat
<1>1. m \cap S!Bytes(b, n) \in SUBSET Nat
  OBVIOUS
<1> QED BY <1>1, 8 * b \in Nat, BitsNat, Zenon DEF S!Load

LEMMA InLoad ==
  ASSUME NEW m \in SUBSET Nat, NEW b \in Nat, NEW n \in Nat, NEW j \in Int
  PROVE  j \in S!Load(m, b, n) <=> 0 <= j /\ j < 8 * n /\ j + 8 * b \in m
<1>1. m \cap S!Bytes(b, n) \in SUBSET Nat
  OBVIOUS
<1>2. j \in S!Load(m, b, n) <=> j >= 0 /\ j + 8 * b \in m \cap S!Bytes(b, n)
  BY <1>1, InShr DEF S!Load
<1>3. j + 8 * b \in S!Bytes(b, n) <=> 8 * b <= j + 8 * b /\ j < 8 * n
  BY DEF S!Bytes
<1> QED BY <1>2, <1>3

-----------------------------------------------------------------------------
(* An integer in its bytes.  Whatever their number, its bits are next to    *)
(* each other, and the bits of the tag before and behind them.              *)

Sz == {1, 2, 3, 4, 5, 8, 9}
Integers64 == SUBSET (0 .. 63)

TagOf(csz) ==
  CASE csz = 1 -> {}                   [] csz = 2 -> {0, 15}
    [] csz = 3 -> {0, 2, 21, 23}       [] csz = 4 -> {0, 1, 30, 31}
    [] csz = 5 -> {0, 1, 3, 36, 38, 39} [] csz = 8 -> {0, 1, 2, 61, 62, 63}
    [] csz = 9 -> {0, 1, 2, 3, 68, 69, 70, 71}
ShiftOf(csz) == IF csz = 1 THEN 1 ELSE IF csz \in {2, 3} THEN 3 ELSE 4

CodeBit(csz, x, i) == i \in TagOf(csz) \/ i - ShiftOf(csz) \in x

\* The csz bytes at b hold the integer x.
Coded(m, b, csz, x) ==
  \A i \in 0 .. 8 * csz - 1 : 8 * b + i \in m <=> CodeBit(csz, x, i)

\* e is the memory m with the integer x written into the csz bytes at b.
Written(e, m, b, csz, x) ==
  /\ e \in SUBSET Nat
  /\ Coded(e, b, csz, x)
  /\ \A j \in Nat : ~(8 * b <= j /\ j < 8 * b + 8 * csz) => (j \in e <=> j \in m)

LEMMA Rooms ==
  /\ DOMAIN S!Room = Sz
  /\ S!Room[1] = 6 /\ S!Room[2] = 10 /\ S!Room[3] = 18 /\ S!Room[4] = 24
  /\ S!Room[5] = 32 /\ S!Room[8] = 56 /\ S!Room[9] = 64
BY DEF S!Room, Sz

\* Where the integer ends within its bytes.
LEMMA FitsIs ==
  ASSUME NEW x \in Integers64, NEW csz \in Sz, S!Fits(x, csz)
  PROVE  \A k \in x : k \in Nat /\ k <= CASE csz = 1 -> 5 [] csz = 2 -> 9 [] csz = 3 -> 17
                       [] csz = 4 -> 23 [] csz = 5 -> 31 [] csz = 8 -> 55 [] csz = 9 -> 63
BY Rooms DEF S!Fits, Sz, Integers64

\* A store of a whole number of bytes whose bits are those of the code.
LEMMA StoreCodes ==
  ASSUME NEW m \in SUBSET Nat, NEW b \in Nat, NEW csz \in Sz, NEW x,
         NEW w \in SUBSET Nat,
         \A i \in 0 .. 8 * csz - 1 : i \in w <=> CodeBit(csz, x, i)
  PROVE  Written(S!Store(m, b, csz, w), m, b, csz, x)
<1>1. csz \in Nat
  BY DEF Sz
<1>2. S!Store(m, b, csz, w) \in SUBSET Nat
  BY <1>1, StoreNat
<1>3. \A j \in Nat : j \in S!Store(m, b, csz, w)
        <=> IF 8 * b <= j /\ j < 8 * b + 8 * csz THEN j - 8 * b \in w ELSE j \in m
  BY <1>1, InStore
<1>4. ASSUME NEW i \in 0 .. 8 * csz - 1
      PROVE  8 * b + i \in S!Store(m, b, csz, w) <=> CodeBit(csz, x, i)
  <2>1. /\ 8 * b + i \in Nat /\ 8 * b <= 8 * b + i
        /\ 8 * b + i < 8 * b + 8 * csz /\ (8 * b + i) - 8 * b = i
    BY <1>1
  <2>2. 8 * b + i \in S!Store(m, b, csz, w) <=> i \in w
    BY <2>1, <1>3
  <2> QED BY <2>2
<1> QED BY <1>2, <1>3, <1>4 DEF Coded, Written

\* The same for two stores one behind the other.
LEMMA StoresCode ==
  ASSUME NEW m \in SUBSET Nat, NEW b \in Nat, NEW csz \in Sz, NEW x, NEW k \in Nat,
         NEW v \in SUBSET Nat, NEW w \in SUBSET Nat, k + 1 = csz,
         \A i \in 0 .. 8 * k - 1 : i \in v <=> CodeBit(csz, x, i),
         \A i \in 0 .. 7 : i \in w <=> CodeBit(csz, x, 8 * k + i)
  PROVE  Written(S!Store(S!Store(m, b, k, v), b + k, 1, w), m, b, csz, x)
<1> DEFINE d == S!Store(m, b, k, v)
           e == S!Store(d, b + k, 1, w)
<1>1. d \in SUBSET Nat
  BY StoreNat
<1>2. \A j \in Nat : j \in d
        <=> IF 8 * b <= j /\ j < 8 * b + 8 * k THEN j - 8 * b \in v ELSE j \in m
  BY InStore
<1> HIDE DEF d
<1>3. e \in SUBSET Nat
  BY <1>1, b + k \in Nat, StoreNat
<1>4. \A j \in Nat : j \in e
        <=> IF 8 * (b + k) <= j /\ j < 8 * (b + k) + 8 * 1
              THEN j - 8 * (b + k) \in w ELSE j \in d
  BY <1>1, b + k \in Nat, InStore
<1> HIDE DEF e
<1>5. ASSUME NEW j \in Nat, ~(8 * b <= j /\ j < 8 * b + 8 * csz)
      PROVE  j \in e <=> j \in m
  <2>1. j \in e <=> j \in d
    BY <1>4, <1>5
  <2>2. j \in d <=> j \in m
    BY <1>2, <1>5
  <2> QED BY <2>1, <2>2
<1>6. ASSUME NEW i \in 0 .. 8 * csz - 1
      PROVE  8 * b + i \in e <=> CodeBit(csz, x, i)
  <2>1. CASE i < 8 * k
    <3>1. 8 * b + i \in e <=> 8 * b + i \in d
      BY <2>1, <1>4, 8 * b + i \in Nat
    <3>2. 8 * b + i \in d <=> (8 * b + i) - 8 * b \in v
      BY <2>1, <1>2, 8 * b + i \in Nat
    <3>3. (8 * b + i) - 8 * b = i /\ i \in 0 .. 8 * k - 1
      BY <2>1
    <3> QED BY <3>1, <3>2, <3>3
  <2>2. CASE i >= 8 * k
    <3> DEFINE h == i - 8 * k
    <3>1. h \in 0 .. 7 /\ 8 * k + h = i /\ (8 * b + i) - 8 * (b + k) = h
      BY <2>2
    <3>2. 8 * b + i \in e <=> h \in w
      BY <2>2, <1>4, <3>1, 8 * b + i \in Nat
    <3> QED BY <3>1, <3>2
  <2> QED BY <2>1, <2>2
<1>7. Coded(e, b, csz, x)
  BY <1>6 DEF Coded
<1> QED BY <1>3, <1>5, <1>7 DEF d, e, Written

\* What fd_ulong_svw_enc_fixed stores at once: a tag, and the integer shifted
\* up, or the rest of it shifted down.
Up(tag, x, s) == tag \cup S!Shl(x, s)
Down(tag, x, s) == tag \cup S!Shr(x, s)

LEMMA InUp ==
  ASSUME NEW tag \in SUBSET Nat, NEW x \in SUBSET Nat, NEW s \in Nat, NEW i \in Int
  PROVE  i \in Up(tag, x, s) <=> i \in tag \/ i - s \in x
BY InShl DEF Up

LEMMA InDown ==
  ASSUME NEW tag \in SUBSET Nat, NEW x \in SUBSET Nat, NEW s \in Nat, NEW i \in Nat
  PROVE  i \in Down(tag, x, s) <=> i \in tag \/ i + s \in x
BY InShr DEF Down

LEMMA UpDownNat ==
  ASSUME NEW tag \in SUBSET Nat, NEW x \in SUBSET Nat, NEW s \in Nat
  PROVE  Up(tag, x, s) \in SUBSET Nat /\ Down(tag, x, s) \in SUBSET Nat
<1>1. S!Shl(x, s) \in SUBSET Nat /\ S!Shr(x, s) \in SUBSET Nat
  BY BitsNat, Zenon
<1> QED BY <1>1 DEF Up, Down

\* fd_ulong_svw_enc_fixed writes the code and nothing else.
LEMMA EncWrites ==
  ASSUME NEW m \in SUBSET Nat, NEW b \in Nat, NEW csz \in Sz, NEW x \in Integers64,
         S!Fits(x, csz)
  PROVE  Written(S!EncFixed(m, b, csz, x), m, b, csz, x)
<1>1. x \in SUBSET Nat
  BY DEF Integers64
<1>2. \A k \in x : k \in Nat /\ k <= CASE csz = 1 -> 5 [] csz = 2 -> 9 [] csz = 3 -> 17
                       [] csz = 4 -> 23 [] csz = 5 -> 31 [] csz = 8 -> 55 [] csz = 9 -> 63
  BY FitsIs
<1>3. CASE csz = 1
  <2> DEFINE w == S!Shl(x, 1)
  <2>1. w \in SUBSET Nat
    BY <1>1, BitsNat, Zenon
  <2>2. \A i \in Nat : i \in w <=> i - 1 \in x
    BY <1>1, InShl
  <2>3. \A i \in 0 .. 8 * csz - 1 : i \in w <=> CodeBit(csz, x, i)
    BY <2>2, <1>3 DEF CodeBit, TagOf, ShiftOf
  <2> HIDE DEF w
  <2>4. S!EncFixed(m, b, csz, x) = S!Store(m, b, csz, w)
    BY <1>3 DEF S!EncFixed, w, Up
  <2> QED BY <2>1, <2>3, <2>4, StoreCodes, Zenon
<1>4. CASE csz = 2
  <2> DEFINE w == Up({0, 15}, x, 3)
  <2>1. w \in SUBSET Nat
    BY <1>1, {0, 15} \in SUBSET Nat, 3 \in Nat, UpDownNat, Zenon
  <2>1a. \A i \in Nat : i \in w <=> i \in {0, 15} \/ i - 3 \in x
    BY <1>1, InUp
  <2>2. \A i \in 0 .. 8 * csz - 1 : i \in w <=> CodeBit(csz, x, i)
    BY <2>1a, <1>4 DEF CodeBit, TagOf, ShiftOf
  <2> HIDE DEF w
  <2>3. S!EncFixed(m, b, csz, x) = S!Store(m, b, csz, w)
    BY <1>4 DEF S!EncFixed, w, Up
  <2> QED BY <2>1, <2>2, <2>3, StoreCodes, Zenon
<1>5. CASE csz = 3
  <2> DEFINE v == Up({0, 2}, x, 3)
             w == Down({5, 7}, x, 13)
  <2>1. v \in SUBSET Nat
    BY <1>1, UpDownNat
  <2>1a. \A i \in Nat : i \in v <=> i \in {0, 2} \/ i - 3 \in x
    BY <1>1, InUp
  <2>2. w \in SUBSET Nat
    BY <1>1, UpDownNat
  <2>2a. \A i \in Nat : i \in w <=> i \in {5, 7} \/ i + 13 \in x
    BY <1>1, InDown
  <2>3. \A i \in 0 .. 8 * 2 - 1 : i \in v <=> CodeBit(csz, x, i)
    BY <2>1a, <1>5 DEF CodeBit, TagOf, ShiftOf
  <2>4. ASSUME NEW i \in 0 .. 7 PROVE i \in w <=> CodeBit(csz, x, 8 * 2 + i)
    <3>1. (8 * 2 + i) - 3 = i + 13 /\ (i \in {5, 7} <=> 8 * 2 + i \in {0, 2, 21, 23})
      OBVIOUS
    <3> QED BY <3>1, <2>2a, <1>5 DEF CodeBit, TagOf, ShiftOf
  <2> HIDE DEF v, w
  <2>5. S!EncFixed(m, b, csz, x) = S!Store(S!Store(m, b, 2, v), b + 2, 1, w)
    BY <1>5 DEF S!EncFixed, v, w, Up, Down
  <2>6. 2 \in Nat /\ 2 + 1 = csz
    BY <1>5
  <2> QED BY <2>1, <2>2, <2>3, <2>4, <2>5, <2>6, StoresCode, Zenon
<1>6. CASE csz = 4
  <2> DEFINE w == Up({0, 1, 30, 31}, x, 4)
  <2>1. w \in SUBSET Nat
    BY <1>1, UpDownNat
  <2>1a. \A i \in Nat : i \in w <=> i \in {0, 1, 30, 31} \/ i - 4 \in x
    BY <1>1, InUp
  <2>2. \A i \in 0 .. 8 * csz - 1 : i \in w <=> CodeBit(csz, x, i)
    BY <2>1a, <1>6 DEF CodeBit, TagOf, ShiftOf
  <2> HIDE DEF w
  <2>3. S!EncFixed(m, b, csz, x) = S!Store(m, b, csz, w)
    BY <1>6 DEF S!EncFixed, w, Up
  <2> QED BY <2>1, <2>2, <2>3, StoreCodes, Zenon
<1>7. CASE csz = 5
  <2> DEFINE v == Up({0, 1, 3}, x, 4)
             w == Down({4, 6, 7}, x, 28)
  <2>1. v \in SUBSET Nat
    BY <1>1, UpDownNat
  <2>1a. \A i \in Nat : i \in v <=> i \in {0, 1, 3} \/ i - 4 \in x
    BY <1>1, InUp
  <2>2. w \in SUBSET Nat
    BY <1>1, UpDownNat
  <2>2a. \A i \in Nat : i \in w <=> i \in {4, 6, 7} \/ i + 28 \in x
    BY <1>1, InDown
  <2>3. \A i \in 0 .. 8 * 4 - 1 : i \in v <=> CodeBit(csz, x, i)
    BY <2>1a, <1>7 DEF CodeBit, TagOf, ShiftOf
  <2>4. ASSUME NEW i \in 0 .. 7 PROVE i \in w <=> CodeBit(csz, x, 8 * 4 + i)
    <3>1. (8 * 4 + i) - 4 = i + 28
      OBVIOUS
    <3>2. i \in {4, 6, 7} <=> 8 * 4 + i \in {0, 1, 3, 36, 38, 39}
      OBVIOUS
    <3> QED BY <3>1, <3>2, <2>2a, <1>7 DEF CodeBit, TagOf, ShiftOf
  <2> HIDE DEF v, w
  <2>5. S!EncFixed(m, b, csz, x) = S!Store(S!Store(m, b, 4, v), b + 4, 1, w)
    BY <1>7 DEF S!EncFixed, v, w, Up, Down
  <2>6. 4 \in Nat /\ 4 + 1 = csz
    BY <1>7
  <2> QED BY <2>1, <2>2, <2>3, <2>4, <2>5, <2>6, StoresCode, Zenon
<1>8. CASE csz = 8
  <2> DEFINE w == Up({0, 1, 2, 61, 62, 63}, x, 4)
  <2>1. w \in SUBSET Nat
    BY <1>1, UpDownNat
  <2>1a. \A i \in Nat : i \in w <=> i \in {0, 1, 2, 61, 62, 63} \/ i - 4 \in x
    BY <1>1, InUp
  <2>2. \A i \in 0 .. 8 * csz - 1 : i \in w <=> CodeBit(csz, x, i)
    BY <2>1a, <1>8 DEF CodeBit, TagOf, ShiftOf
  <2> HIDE DEF w
  <2>3. S!EncFixed(m, b, csz, x) = S!Store(m, b, csz, w)
    BY <1>8 DEF S!EncFixed, w, Up
  <2> QED BY <2>1, <2>2, <2>3, StoreCodes, Zenon
<1>9. CASE csz = 9
  <2> DEFINE v == Up({0, 1, 2, 3}, x, 4)
             w == Down({4, 5, 6, 7}, x, 60)
  <2>1. v \in SUBSET Nat
    BY <1>1, UpDownNat
  <2>1a. \A i \in Nat : i \in v <=> i \in {0, 1, 2, 3} \/ i - 4 \in x
    BY <1>1, InUp
  <2>2. w \in SUBSET Nat
    BY <1>1, UpDownNat
  <2>2a. \A i \in Nat : i \in w <=> i \in {4, 5, 6, 7} \/ i + 60 \in x
    BY <1>1, InDown
  <2>3. \A i \in 0 .. 8 * 8 - 1 : i \in v <=> CodeBit(csz, x, i)
    BY <2>1a, <1>9 DEF CodeBit, TagOf, ShiftOf
  <2>4. ASSUME NEW i \in 0 .. 7 PROVE i \in w <=> CodeBit(csz, x, 8 * 8 + i)
    <3>1. (8 * 8 + i) - 4 = i + 60
      OBVIOUS
    <3>2. i \in {4, 5, 6, 7} <=> 8 * 8 + i \in {0, 1, 2, 3, 68, 69, 70, 71}
      OBVIOUS
    <3> QED BY <3>1, <3>2, <2>2a, <1>9 DEF CodeBit, TagOf, ShiftOf
  <2> HIDE DEF v, w
  <2>5. S!EncFixed(m, b, csz, x) = S!Store(S!Store(m, b, 8, v), b + 8, 1, w)
    BY <1>9 DEF S!EncFixed, v, w, Up, Down
  <2>6. 8 \in Nat /\ 8 + 1 = csz
    BY <1>9
  <2> QED BY <2>1, <2>2, <2>3, <2>4, <2>5, <2>6, StoresCode, ZenonT(30)
<1> QED BY <1>3, <1>4, <1>5, <1>6, <1>7, <1>8, <1>9, Zenon DEF Sz

\* Bits of the parts that fd_ulong_svw_dec_fixed puts together.
LEMMA InLoadShr ==
  ASSUME NEW m \in SUBSET Nat, NEW b \in Nat, NEW n \in Nat, NEW s \in Nat, NEW j \in Int
  PROVE  j \in S!Shr(S!Load(m, b, n), s)
           <=> j >= 0 /\ j + s < 8 * n /\ 8 * b + (j + s) \in m
<1>1. S!Load(m, b, n) \in SUBSET Nat
  BY LoadNat
<1>2. j \in S!Shr(S!Load(m, b, n), s) <=> j >= 0 /\ j + s \in S!Load(m, b, n)
  BY <1>1, InShr
<1>3. j + s \in S!Load(m, b, n)
        <=> 0 <= j + s /\ j + s < 8 * n /\ (j + s) + 8 * b \in m
  BY InLoad, j + s \in Int
<1>4. (j + s) + 8 * b = 8 * b + (j + s)
  OBVIOUS
<1> QED BY <1>2, <1>3, <1>4

LEMMA InLowShl ==
  ASSUME NEW m \in SUBSET Nat, NEW b \in Nat, NEW n \in 0 .. 8, NEW u \in Nat, NEW j \in Int
  PROVE  j \in S!Shl(S!Low(S!Load(m, b, 1), n), u)
           <=> 0 <= j - u /\ j - u < n /\ 8 * b + (j - u) \in m
<1> DEFINE l == S!Load(m, b, 1)
<1>1. l \in SUBSET Nat
  BY LoadNat
<1>2. \A i \in Int : i \in l <=> 0 <= i /\ i < 8 * 1 /\ i + 8 * b \in m
  BY InLoad
<1> HIDE DEF l
<1>3. S!Low(l, n) \in SUBSET Nat
  BY <1>1 DEF S!Low
<1>4. j \in S!Shl(S!Low(l, n), u) <=> j - u \in S!Low(l, n)
  BY <1>3, InShl
<1>5. j - u \in S!Low(l, n) <=> j - u \in l /\ 0 <= j - u /\ j - u < n
  BY InLow
<1>6. j - u \in l <=> 0 <= j - u /\ j - u < 8 /\ 8 * b + (j - u) \in m
  BY <1>2
<1> QED BY <1>4, <1>5, <1>6 DEF l

LEMMA InShlLow ==
  ASSUME NEW m \in SUBSET Nat, NEW b \in Nat, NEW j \in Int
  PROVE  j \in S!Low(S!Shl(S!Load(m, b, 1), 60), 64)
           <=> 0 <= j - 60 /\ j - 60 < 4 /\ 8 * b + (j - 60) \in m
<1> DEFINE l == S!Load(m, b, 1)
<1>1. l \in SUBSET Nat
  BY LoadNat
<1>2. \A i \in Int : i \in l <=> 0 <= i /\ i < 8 * 1 /\ i + 8 * b \in m
  BY InLoad
<1> HIDE DEF l
<1>3. j \in S!Shl(l, 60) <=> j - 60 \in l
  BY <1>1, InShl
<1>4. j \in S!Low(S!Shl(l, 60), 64) <=> j \in S!Shl(l, 60) /\ 0 <= j /\ j < 64
  BY InLow
<1>5. j - 60 \in l <=> 0 <= j - 60 /\ j - 60 < 8 /\ 8 * b + (j - 60) \in m
  BY <1>2
<1> QED BY <1>3, <1>4, <1>5 DEF l

\* The bits of DecFixed, for memory whose csz bytes at b hold an integer.
DecBit(m, b, csz, j) ==
  /\ 0 <= j /\ j < S!Room[csz] + (IF csz = 1 THEN 1 ELSE 0)
  /\ 8 * b + (j + ShiftOf(csz)) \in m

LEMMA InDecFixed ==
  ASSUME NEW m \in SUBSET Nat, NEW b \in Nat, NEW csz \in Sz, NEW j \in Int
  PROVE  j \in S!DecFixed(m, b, csz) <=> DecBit(m, b, csz, j)
<1>1. CASE csz = 1
  <2>1. j \in S!Shr(S!Load(m, b, 1), 1) <=> j >= 0 /\ j + 1 < 8 * 1 /\ 8 * b + (j + 1) \in m
    BY InLoadShr
  <2> QED BY <1>1, <2>1, Rooms DEF DecBit, ShiftOf, S!DecFixed
<1>2. CASE csz = 2
  <2>1. j \in S!Shr(S!Load(m, b, 2), 3) <=> j >= 0 /\ j + 3 < 8 * 2 /\ 8 * b + (j + 3) \in m
    BY InLoadShr
  <2>2. j \in S!Low(S!Shr(S!Load(m, b, 2), 3), 10)
          <=> j \in S!Shr(S!Load(m, b, 2), 3) /\ 0 <= j /\ j < 10
    BY InLow
  <2> QED BY <1>2, <2>1, <2>2, Rooms DEF DecBit, ShiftOf, S!DecFixed
<1>3. CASE csz = 3
  <2>1. j \in S!Shr(S!Load(m, b, 2), 3) <=> j >= 0 /\ j + 3 < 8 * 2 /\ 8 * b + (j + 3) \in m
    BY InLoadShr
  <2>2. j \in S!Shl(S!Low(S!Load(m, b + 2, 1), 5), 13)
          <=> 0 <= j - 13 /\ j - 13 < 5 /\ 8 * (b + 2) + (j - 13) \in m
    BY b + 2 \in Nat, 5 \in 0 .. 8, 13 \in Nat, InLowShl, Zenon
  <2>3. 8 * (b + 2) + (j - 13) = 8 * b + (j + 3)
    OBVIOUS
  <2> QED BY <1>3, <2>1, <2>2, <2>3, Rooms DEF DecBit, ShiftOf, S!DecFixed
<1>4. CASE csz = 4
  <2>1. j \in S!Shr(S!Load(m, b, 4), 4) <=> j >= 0 /\ j + 4 < 8 * 4 /\ 8 * b + (j + 4) \in m
    BY InLoadShr
  <2>2. j \in S!Low(S!Shr(S!Load(m, b, 4), 4), 24)
          <=> j \in S!Shr(S!Load(m, b, 4), 4) /\ 0 <= j /\ j < 24
    BY InLow
  <2> QED BY <1>4, <2>1, <2>2, Rooms DEF DecBit, ShiftOf, S!DecFixed
<1>5. CASE csz = 5
  <2>1. j \in S!Shr(S!Load(m, b, 4), 4) <=> j >= 0 /\ j + 4 < 8 * 4 /\ 8 * b + (j + 4) \in m
    BY InLoadShr
  <2>2. j \in S!Shl(S!Low(S!Load(m, b + 4, 1), 4), 28)
          <=> 0 <= j - 28 /\ j - 28 < 4 /\ 8 * (b + 4) + (j - 28) \in m
    BY b + 4 \in Nat, 4 \in 0 .. 8, 28 \in Nat, InLowShl, Zenon
  <2>3. 8 * (b + 4) + (j - 28) = 8 * b + (j + 4)
    OBVIOUS
  <2> QED BY <1>5, <2>1, <2>2, <2>3, Rooms DEF DecBit, ShiftOf, S!DecFixed
<1>6. CASE csz = 8
  <2>1. j \in S!Shr(S!Load(m, b, 8), 4) <=> j >= 0 /\ j + 4 < 8 * 8 /\ 8 * b + (j + 4) \in m
    BY InLoadShr
  <2>2. j \in S!Low(S!Shr(S!Load(m, b, 8), 4), 56)
          <=> j \in S!Shr(S!Load(m, b, 8), 4) /\ 0 <= j /\ j < 56
    BY InLow
  <2> QED BY <1>6, <2>1, <2>2, Rooms DEF DecBit, ShiftOf, S!DecFixed
<1>7. CASE csz = 9
  <2>1. j \in S!Shr(S!Load(m, b, 8), 4) <=> j >= 0 /\ j + 4 < 8 * 8 /\ 8 * b + (j + 4) \in m
    BY InLoadShr
  <2>2. j \in S!Low(S!Shl(S!Load(m, b + 8, 1), 60), 64)
          <=> 0 <= j - 60 /\ j - 60 < 4 /\ 8 * (b + 8) + (j - 60) \in m
    BY b + 8 \in Nat, InShlLow
  <2>3. 8 * (b + 8) + (j - 60) = 8 * b + (j + 4)
    OBVIOUS
  <2> QED BY <1>7, <2>1, <2>2, <2>3, Rooms DEF DecBit, ShiftOf, S!DecFixed
<1> QED BY <1>1, <1>2, <1>3, <1>4, <1>5, <1>6, <1>7, Zenon DEF Sz

LEMMA DecFixedNat ==
  ASSUME NEW m \in SUBSET Nat, NEW b \in Nat, NEW csz \in Sz
  PROVE  S!DecFixed(m, b, csz) \subseteq Int
<1>1. ASSUME NEW y \in SUBSET Nat, NEW s \in Nat
      PROVE  S!Shr(y, s) \in SUBSET Nat /\ S!Shl(y, s) \in SUBSET Nat
  BY BitsNat, Zenon
<1>2. ASSUME NEW y, NEW n \in Nat PROVE S!Low(y, n) \in SUBSET Nat
  BY DEF S!Low
<1>3. \A a \in Nat, n \in Nat : S!Load(m, a, n) \in SUBSET Nat
  BY LoadNat
<1>4. CASE csz = 1
  <2>1. S!Load(m, b, 1) \in SUBSET Nat
    BY <1>3
  <2>2. S!Shr(S!Load(m, b, 1), 1) \in SUBSET Nat
    BY <2>1, 1 \in Nat, <1>1, Zenon
  <2> QED BY <1>4, <2>2 DEF S!DecFixed
<1>5. CASE csz \in {2, 4, 8}
  BY <1>5, <1>2 DEF S!DecFixed
<1>6. CASE csz = 3
  <2>1. S!Load(m, b, 2) \in SUBSET Nat
    BY <1>3
  <2>2. S!Shr(S!Load(m, b, 2), 3) \in SUBSET Nat
    BY <2>1, 3 \in Nat, <1>1, Zenon
  <2>3. S!Low(S!Load(m, b + 2, 1), 5) \in SUBSET Nat
    BY <1>2
  <2>4. S!Shl(S!Low(S!Load(m, b + 2, 1), 5), 13) \in SUBSET Nat
    BY <2>3, 13 \in Nat, <1>1, Zenon
  <2> QED BY <1>6, <2>2, <2>4 DEF S!DecFixed
<1>7. CASE csz = 5
  <2>1. S!Load(m, b, 4) \in SUBSET Nat
    BY <1>3
  <2>2. S!Shr(S!Load(m, b, 4), 4) \in SUBSET Nat
    BY <2>1, 4 \in Nat, <1>1, Zenon
  <2>3. S!Low(S!Load(m, b + 4, 1), 4) \in SUBSET Nat
    BY <1>2
  <2>4. S!Shl(S!Low(S!Load(m, b + 4, 1), 4), 28) \in SUBSET Nat
    BY <2>3, 28 \in Nat, <1>1, Zenon
  <2> QED BY <1>7, <2>2, <2>4 DEF S!DecFixed
<1>8. CASE csz = 9
  <2>1. S!Load(m, b, 8) \in SUBSET Nat
    BY <1>3
  <2>2. S!Shr(S!Load(m, b, 8), 4) \in SUBSET Nat
    BY <2>1, 4 \in Nat, <1>1, Zenon
  <2>3. S!Low(S!Shl(S!Load(m, b + 8, 1), 60), 64) \in SUBSET Nat
    BY <1>2
  <2> QED BY <1>8, <2>2, <2>3 DEF S!DecFixed
<1> QED BY <1>4, <1>5, <1>6, <1>7, <1>8, Zenon DEF Sz

\* fd_ulong_svw_dec_fixed reads the integer that is there ...
LEMMA DecReads ==
  ASSUME NEW m \in SUBSET Nat, NEW b \in Nat, NEW csz \in Sz, NEW x \in Integers64,
         S!Fits(x, csz), Coded(m, b, csz, x)
  PROVE  S!DecFixed(m, b, csz) = x
<1>1. \A k \in x : k \in Nat /\ k <= CASE csz = 1 -> 5 [] csz = 2 -> 9 [] csz = 3 -> 17
                       [] csz = 4 -> 23 [] csz = 5 -> 31 [] csz = 8 -> 55 [] csz = 9 -> 63
  BY FitsIs
<1>2. ASSUME NEW j \in Int PROVE DecBit(m, b, csz, j) <=> j \in x
  <2> DEFINE i == j + ShiftOf(csz)
             top == S!Room[csz] + (IF csz = 1 THEN 1 ELSE 0)
  <2>1. top \in Nat /\ (j \in x => 0 <= j /\ j < top)
    BY <1>1, Rooms DEF Sz
  <2>2. ASSUME 0 <= j, j < top
        PROVE  i \in 0 .. 8 * csz - 1 /\ i \notin TagOf(csz) /\ i - ShiftOf(csz) = j
    BY <2>2, Rooms DEF Sz, TagOf, ShiftOf
  <2>3. ASSUME 0 <= j, j < top PROVE 8 * b + i \in m <=> j \in x
    <3>1. 8 * b + i \in m <=> CodeBit(csz, x, i)
      BY <2>2, <2>3, Zenon DEF Coded
    <3>2. i \notin TagOf(csz) /\ i - ShiftOf(csz) = j
      BY <2>2, <2>3, Zenon
    <3> QED BY <3>1, <3>2, Zenon DEF CodeBit
  <2> QED BY <2>1, <2>3, Zenon DEF DecBit
<1>3. \A j \in Int : j \in S!DecFixed(m, b, csz) <=> DecBit(m, b, csz, j)
  BY InDecFixed
<1>4. S!DecFixed(m, b, csz) \subseteq Int /\ x \subseteq Int
  BY DecFixedNat DEF Integers64
<1> QED BY <1>2, <1>3, <1>4, Zenon

\* ... and its last byte tells how many bytes it has.
LEMMA TailTells ==
  ASSUME NEW m \in SUBSET Nat, NEW b \in Nat, NEW csz \in Sz, NEW x \in Integers64,
         S!Fits(x, csz), Coded(m, b, csz, x)
  PROVE  S!DecTailSz(m, b + csz) = csz
<1> DEFINE last == b + csz - 1
           byte == S!Load(m, last, 1)
           low == 8 * (csz - 1)
<1>1. last \in Nat /\ 8 * last = 8 * b + low /\ low \in Nat
  BY DEF Sz
<1>2. ASSUME NEW k \in {4, 5, 6, 7}
      PROVE  k \in byte <=> CodeBit(csz, x, low + k)
  <2>1. k \in byte <=> 0 <= k /\ k < 8 * 1 /\ k + 8 * last \in m
    BY <1>1, InLoad
  <2>2. k + 8 * last = 8 * b + (low + k) /\ low + k \in 0 .. 8 * csz - 1
    BY <1>1 DEF Sz
  <2>3. 8 * b + (low + k) \in m <=> CodeBit(csz, x, low + k)
    BY <2>2 DEF Coded
  <2> QED BY <2>1, <2>2, <2>3
<1>3. \A k \in x : k \in Nat /\ k <= CASE csz = 1 -> 5 [] csz = 2 -> 9 [] csz = 3 -> 17
                       [] csz = 4 -> 23 [] csz = 5 -> 31 [] csz = 8 -> 55 [] csz = 9 -> 63
  BY FitsIs
<1>4. ASSUME NEW k \in {4, 5, 6, 7}, csz # 1 => k # 4 \/ csz \in {5, 9, 8, 4},
             csz = 1 => k = 7
      PROVE  CodeBit(csz, x, low + k) <=> low + k \in TagOf(csz)
  BY <1>3, <1>4 DEF CodeBit, Sz, ShiftOf
<1> HIDE DEF byte
<1>5. S!DecTailSz(m, b + csz) = S!SizeOf(m, last)
  <2>1. (b + csz) - 1 = last
    BY DEF Sz
  <2> QED BY <2>1, Zenon DEF S!DecTailSz
<1>6. CASE csz = 1
  <2>1. 7 \notin byte
    BY <1>2, <1>4, <1>6 DEF TagOf
  <2> QED BY <2>1, <1>5, <1>6 DEF S!SizeOf, byte
<1>7. CASE csz = 2
  <2>1. 7 \in byte /\ 6 \notin byte /\ 5 \notin byte
    BY <1>2, <1>4, <1>7 DEF TagOf
  <2> QED BY <2>1, <1>5, <1>7 DEF S!SizeOf, byte
<1>8. CASE csz = 3
  <2>1. 7 \in byte /\ 6 \notin byte /\ 5 \in byte
    BY <1>2, <1>4, <1>8 DEF TagOf
  <2> QED BY <2>1, <1>5, <1>8 DEF S!SizeOf, byte
<1>9. CASE csz = 4
  <2>1. 7 \in byte /\ 6 \in byte /\ 5 \notin byte /\ 4 \notin byte
    BY <1>2, <1>4, <1>9 DEF TagOf
  <2> QED BY <2>1, <1>5, <1>9 DEF S!SizeOf, byte
<1>10. CASE csz = 5
  <2>1. 7 \in byte /\ 6 \in byte /\ 5 \notin byte /\ 4 \in byte
    BY <1>2, <1>4, <1>10 DEF TagOf
  <2> QED BY <2>1, <1>5, <1>10 DEF S!SizeOf, byte
<1>11. CASE csz = 8
  <2>1. 7 \in byte /\ 6 \in byte /\ 5 \in byte /\ 4 \notin byte
    BY <1>2, <1>4, <1>11 DEF TagOf
  <2> QED BY <2>1, <1>5, <1>11 DEF S!SizeOf, byte
<1>12. CASE csz = 9
  <2>1. 7 \in byte /\ 6 \in byte /\ 5 \in byte /\ 4 \in byte
    BY <1>2, <1>4, <1>12 DEF TagOf
  <2> QED BY <2>1, <1>5, <1>12 DEF S!SizeOf, byte
<1> QED BY <1>6, <1>7, <1>8, <1>9, <1>10, <1>11, <1>12, Zenon DEF Sz

\* What the first byte tells is the size if and only if the integer is legible.
LEMMA FirstTells ==
  ASSUME NEW m \in SUBSET Nat, NEW b \in Nat, NEW csz \in Sz, NEW x \in Integers64,
         S!Fits(x, csz), Coded(m, b, csz, x)
  PROVE  S!DecSz(m, b) = csz <=> S!Legible(x, csz)
<1> DEFINE byte == S!Load(m, b, 1)
<1>1. ASSUME NEW k \in {4, 5, 6, 7}
      PROVE  k \in byte <=> CodeBit(csz, x, k)
  <2>1. k \in byte <=> 0 <= k /\ k < 8 * 1 /\ k + 8 * b \in m
    BY InLoad
  <2>2. k + 8 * b = 8 * b + k /\ k \in 0 .. 8 * csz - 1
    BY DEF Sz
  <2>3. 8 * b + k \in m <=> CodeBit(csz, x, k)
    BY <2>2 DEF Coded
  <2> QED BY <2>1, <2>2, <2>3
<1>2. \A k \in x : k \in Nat /\ k <= CASE csz = 1 -> 5 [] csz = 2 -> 9 [] csz = 3 -> 17
                       [] csz = 4 -> 23 [] csz = 5 -> 31 [] csz = 8 -> 55 [] csz = 9 -> 63
  BY FitsIs
<1>3. /\ 4 \in byte <=> CodeBit(csz, x, 4)
      /\ 5 \in byte <=> CodeBit(csz, x, 5)
      /\ 6 \in byte <=> CodeBit(csz, x, 6)
      /\ 7 \in byte <=> CodeBit(csz, x, 7)
  BY <1>1
<1> HIDE DEF byte
<1>4. S!DecSz(m, b) =
        IF 7 \notin byte THEN 1
        ELSE IF 6 \notin byte THEN IF 5 \in byte THEN 3 ELSE 2
        ELSE IF 5 \notin byte THEN IF 4 \in byte THEN 5 ELSE 4
        ELSE IF 4 \in byte THEN 9 ELSE 8
  BY DEF S!DecSz, S!SizeOf, byte
<1>5. CASE csz = 1
  <2>1. 7 \notin byte
    BY <1>2, <1>3, <1>5 DEF CodeBit, TagOf, ShiftOf
  <2> QED BY <2>1, <1>4, <1>5 DEF S!Legible
<1>6. CASE csz \in {2, 3}
  <2>1. /\ 4 \in byte <=> 1 \in x
        /\ 5 \in byte <=> 2 \in x
        /\ 6 \in byte <=> 3 \in x
        /\ 7 \in byte <=> 4 \in x
    BY <1>3, <1>6 DEF CodeBit, TagOf, ShiftOf
  <2>2. CASE csz = 2
    <3>1. S!Legible(x, csz) <=> 4 \in x /\ 3 \notin x /\ 2 \notin x
      BY <2>2 DEF S!Legible
    <3> QED BY <3>1, <2>1, <2>2, <1>4
  <2>3. CASE csz = 3
    <3>1. S!Legible(x, csz) <=> 4 \in x /\ 3 \notin x /\ 2 \in x
      BY <2>3 DEF S!Legible
    <3> QED BY <3>1, <2>1, <2>3, <1>4
  <2> QED BY <2>2, <2>3, <1>6
<1>7. CASE csz \in {4, 5, 8, 9}
  <2>1. /\ 4 \in byte <=> 0 \in x
        /\ 5 \in byte <=> 1 \in x
        /\ 6 \in byte <=> 2 \in x
        /\ 7 \in byte <=> 3 \in x
    BY <1>3, <1>7 DEF CodeBit, TagOf, ShiftOf
  <2>2. CASE csz = 4
    <3>1. S!Legible(x, csz) <=> 3 \in x /\ 2 \in x /\ 1 \notin x /\ 0 \notin x
      BY <2>2 DEF S!Legible
    <3> QED BY <3>1, <2>1, <2>2, <1>4
  <2>3. CASE csz = 5
    <3>1. S!Legible(x, csz) <=> 3 \in x /\ 2 \in x /\ 1 \notin x /\ 0 \in x
      BY <2>3 DEF S!Legible
    <3> QED BY <3>1, <2>1, <2>3, <1>4
  <2>4. CASE csz = 8
    <3>1. S!Legible(x, csz) <=> 3 \in x /\ 2 \in x /\ 1 \in x /\ 0 \notin x
      BY <2>4 DEF S!Legible
    <3> QED BY <3>1, <2>1, <2>4, <1>4
  <2>5. CASE csz = 9
    <3>1. S!Legible(x, csz) <=> 3 \in x /\ 2 \in x /\ 1 \in x /\ 0 \in x
      BY <2>5 DEF S!Legible
    <3> QED BY <3>1, <2>1, <2>5, <1>4
  <2> QED BY <2>2, <2>3, <2>4, <2>5, <1>7
<1> QED BY <1>5, <1>6, <1>7 DEF Sz

\* fd_ulong_svw_enc_sz finds a size in which the integer fits.
LEMMA EncSzFits ==
  ASSUME NEW x \in Integers64
  PROVE  S!EncSz(x) \in Sz /\ S!Fits(x, S!EncSz(x))
<1> DEFINE Best(c) == S!Fits(x, c) /\ \A d \in Sz : S!Fits(x, d) => c <= d
<1>1. S!Fits(x, 9)
  BY Rooms DEF S!Fits, Integers64
<1>2. \E c \in Sz : Best(c)
  <2> DEFINE F == {c \in Sz : S!Fits(x, c)}
  <2>1. 9 \in F /\ F \subseteq Sz
    BY <1>1 DEF Sz
  <2> HIDE DEF F
  <2>2. \E c \in F : \A d \in F : c <= d
    BY <2>1 DEF Sz
  <2> QED BY <2>2 DEF F
<1>3. S!EncSz(x) = CHOOSE c \in Sz : Best(c)
  BY Rooms DEF S!EncSz
<1> QED BY <1>2, <1>3

-----------------------------------------------------------------------------
(* The stream.  Its integers lie end to end, each one holds its bytes, and  *)
(* the reader stands behind the ones it has not read.                       *)

Entries == [at : Nat, csz : Sz, val : Integers64]

\* Where the first k integers end.
EndOf(k) == IF k = 0 THEN 0 ELSE ents[k].at + ents[k].csz

StreamTypes ==
  /\ mem \in SUBSET Nat /\ ents \in Seq(Entries)
  /\ end \in Nat /\ cursor \in Nat /\ out \in Seq(Integers64)

StreamLaidOut ==
  /\ end = EndOf(Len(ents))
  /\ \A k \in 1 .. Len(ents) : ents[k].at = EndOf(k - 1)
  /\ \A k, l \in 1 .. Len(ents) : k < l => ents[k].at + ents[k].csz <= ents[l].at

StreamHolds ==
  \A k \in 1 .. Len(ents) :
    /\ S!Fits(ents[k].val, ents[k].csz)
    /\ Coded(mem, ents[k].at, ents[k].csz, ents[k].val)

ReaderInPlace ==
  /\ Len(out) <= Len(ents)
  /\ cursor = EndOf(Len(ents) - Len(out))
  /\ \A k \in 1 .. Len(out) : out[k] = ents[Len(ents) + 1 - k].val

StreamInv == StreamTypes /\ StreamLaidOut /\ StreamHolds /\ ReaderInPlace

LEMMA EntryTypes ==
  ASSUME StreamTypes, NEW k \in 1 .. Len(ents)
  PROVE  /\ ents[k] \in Entries /\ ents[k].at \in Nat /\ ents[k].csz \in Sz
         /\ ents[k].csz \in Nat \ {0} /\ ents[k].val \in Integers64
<1>1. ents[k] \in Entries
  BY DEF StreamTypes
<1> QED BY <1>1 DEF Entries, Sz

\* Every integer ends where the stream does or before.
LEMMA EndIsLast ==
  ASSUME StreamTypes, StreamLaidOut, NEW k \in 1 .. Len(ents)
  PROVE  ents[k].at + ents[k].csz <= end
<1> DEFINE n == Len(ents)
<1>1. n \in Nat /\ k \in 1 .. n /\ n \in 1 .. n /\ n # 0
  BY DEF StreamTypes
<1>2. end = ents[n].at + ents[n].csz
  BY <1>1 DEF StreamLaidOut, EndOf
<1>3. ents[n].at \in Nat /\ ents[n].csz \in Nat
  BY <1>1, EntryTypes
<1>4. CASE k < n
  <2>1. ents[k].at + ents[k].csz <= ents[n].at
    BY <1>1, <1>4 DEF StreamLaidOut
  <2>2. ents[k].at \in Nat /\ ents[k].csz \in Nat
    BY EntryTypes
  <2> QED BY <2>1, <2>2, <1>2, <1>3
<1>5. CASE k = n
  BY <1>2, <1>3, <1>5
<1> QED BY <1>1, <1>4, <1>5

\* Bytes that are not written hold what they held.
LEMMA CodedKept ==
  ASSUME NEW m \in SUBSET Nat, NEW e, NEW b \in Nat, NEW csz \in Sz, NEW x,
         NEW at \in Nat, NEW sz \in Sz, NEW y,
         Written(e, m, at, sz, y), Coded(m, b, csz, x),
         b + csz <= at \/ at + sz <= b
  PROVE  Coded(e, b, csz, x)
<1> SUFFICES ASSUME NEW i \in 0 .. 8 * csz - 1
             PROVE  8 * b + i \in e <=> CodeBit(csz, x, i)
  BY DEF Coded
<1>1. 8 * b + i \in Nat /\ ~(8 * at <= 8 * b + i /\ 8 * b + i < 8 * at + 8 * sz)
  BY DEF Sz
<1>2. 8 * b + i \in e <=> 8 * b + i \in m
  BY <1>1 DEF Written
<1>3. 8 * b + i \in m <=> CodeBit(csz, x, i)
  BY DEF Coded
<1> QED BY <1>2, <1>3

LEMMA StreamInit ==
  ASSUME S!Init, CodecsAssumption
  PROVE  StreamInv
<1>1. mem \in SUBSET Nat
  BY DEF S!Init, CodecsAssumption, S!SvwAssumption
<1>2. ents = <<>> /\ end = 0 /\ cursor = 0 /\ out = <<>>
  BY DEF S!Init
<1>3. Len(ents) = 0 /\ Len(out) = 0
  BY <1>2
<1> QED BY <1>1, <1>2, <1>3
        DEF StreamInv, StreamTypes, StreamLaidOut, StreamHolds, ReaderInPlace, EndOf

LEMMA StreamAppend ==
  ASSUME StreamInv, NEW x \in Integers64, S!Append1(x)
  PROVE  StreamInv'
<1>0. PICK n \in Nat : n = Len(ents)
  BY DEF StreamInv, StreamTypes
<1> DEFINE csz == S!EncSz(x)
           new == [at |-> end, csz |-> csz, val |-> x]
<1>1. csz \in Sz /\ S!Fits(x, csz)
  BY EncSzFits
<1>2. StreamTypes /\ StreamLaidOut /\ StreamHolds /\ Len(ents) = n
  BY <1>0 DEF StreamInv
<1>3. /\ mem' = S!EncFixed(mem, end, csz, x)
      /\ ents' = Append(ents, new)
      /\ end' = end + csz /\ cursor' = end' /\ out' = <<>>
  BY Zenon DEF S!Append1, S!Enc
<1> HIDE DEF csz
<1>4. Written(mem', mem, end, csz, x)
  BY <1>1, <1>2, <1>3, EncWrites, Zenon DEF StreamTypes
<1>5. new \in Entries /\ new.at = end /\ new.csz = csz /\ new.val = x
  BY <1>1, <1>2 DEF StreamTypes, Entries
<1> HIDE DEF new
<1>6. /\ ents' \in Seq(Entries) /\ Len(ents') = n + 1 /\ ents'[n + 1] = new
      /\ \A k \in 1 .. n : ents'[k] = ents[k]
  BY <1>2, <1>3, <1>5 DEF StreamTypes
<1>7. StreamTypes'
  BY <1>1, <1>2, <1>3, <1>4, <1>6 DEF StreamTypes, Written, Sz
<1>8. \A k \in 0 .. n : EndOf(k)' = EndOf(k)
  BY <1>6, <1>2 DEF EndOf
<1>9. EndOf(n + 1)' = end + csz
  BY <1>2, <1>5, <1>6 DEF EndOf
<1>10. StreamLaidOut'
  <2>1. end' = EndOf(Len(ents))'
    BY <1>3, <1>6, <1>9
  <2>2. ASSUME NEW k \in 1 .. n + 1 PROVE ents'[k].at = EndOf(k - 1)'
    <3>1. CASE k = n + 1
      <4>1. ents'[k].at = end /\ EndOf(k - 1)' = EndOf(n)
        BY <3>1, <1>2, <1>5, <1>6, <1>8
      <4> QED BY <4>1, <1>2 DEF StreamLaidOut
    <3>2. CASE k \in 1 .. n
      <4>1. k - 1 \in 0 .. n
        BY <3>2, <1>2
      <4>2. ents'[k].at = ents[k].at /\ EndOf(k - 1)' = EndOf(k - 1)
        BY <3>2, <4>1, <1>6, <1>8
      <4> QED BY <4>2, <3>2, <1>2 DEF StreamLaidOut
    <3> QED BY <3>1, <3>2, <1>2
  <2>3. ASSUME NEW k \in 1 .. n + 1, NEW l \in 1 .. n + 1, k < l
        PROVE  ents'[k].at + ents'[k].csz <= ents'[l].at
    <3>1. k \in 1 .. n /\ ents'[k] = ents[k]
      BY <2>3, <1>2, <1>6
    <3>2. CASE l = n + 1
      BY <3>1, <3>2, <1>2, <1>5, <1>6, EndIsLast
    <3>3. CASE l \in 1 .. n
      <4>1. ents'[l] = ents[l]
        BY <3>3, <1>6
      <4> QED BY <4>1, <3>1, <3>3, <2>3, <1>2 DEF StreamLaidOut
    <3> QED BY <3>2, <3>3, <1>2
  <2> QED BY <2>1, <2>2, <2>3, <1>6 DEF StreamLaidOut
<1>11. StreamHolds'
  <2> SUFFICES ASSUME NEW k \in 1 .. n + 1
               PROVE  /\ S!Fits(ents'[k].val, ents'[k].csz)
                      /\ Coded(mem', ents'[k].at, ents'[k].csz, ents'[k].val)
    BY <1>6 DEF StreamHolds
  <2>1. CASE k = n + 1
    BY <2>1, <1>1, <1>4, <1>5, <1>6, Zenon DEF Written
  <2>2. CASE k \in 1 .. n
    <3>1. ents'[k] = ents[k]
      BY <2>2, <1>6
    <3>2. /\ S!Fits(ents[k].val, ents[k].csz)
          /\ Coded(mem, ents[k].at, ents[k].csz, ents[k].val)
      BY <2>2, <1>2 DEF StreamHolds
    <3>3. ents[k].at + ents[k].csz <= end
      BY <2>2, <1>2, EndIsLast
    <3>4. ents[k].at \in Nat /\ ents[k].csz \in Sz
      BY <2>2, <1>2, EntryTypes
    <3>5. mem \in SUBSET Nat /\ end \in Nat
      BY <1>2 DEF StreamTypes
    <3>6. Coded(mem', ents[k].at, ents[k].csz, ents[k].val)
      BY <3>2, <3>3, <3>4, <3>5, <1>1, <1>4, CodedKept, Zenon
    <3> QED BY <3>1, <3>2, <3>6
  <2> QED BY <2>1, <2>2, <1>2
<1>12. ReaderInPlace'
  <2>1. Len(out') = 0 /\ n + 1 - 0 = n + 1
    BY <1>3, <1>2
  <2>2. cursor' = EndOf(n + 1)'
    BY <1>3, <1>9
  <2> QED BY <2>1, <2>2, <1>2, <1>6 DEF ReaderInPlace
<1> QED BY <1>7, <1>10, <1>11, <1>12, Zenon DEF StreamInv

LEMMA StreamUpdate ==
  ASSUME StreamInv, NEW x \in Integers64, NEW k \in 1 .. Len(ents), S!Update(k, x)
  PROVE  StreamInv'
<1>0. PICK n \in Nat : n = Len(ents)
  BY DEF StreamInv, StreamTypes
<1> DEFINE e == ents[k]
<1>1. StreamTypes /\ StreamLaidOut /\ StreamHolds /\ Len(ents) = n /\ k \in 1 .. n
  BY <1>0 DEF StreamInv
<1>2. /\ S!Fits(x, e.csz)
      /\ mem' = S!EncFixed(mem, e.at, e.csz, x)
      /\ ents' = [ents EXCEPT ![k].val = x]
      /\ end' = end /\ cursor' = end /\ out' = <<>>
  BY Zenon DEF S!Update
<1>3. e \in Entries /\ e.at \in Nat /\ e.csz \in Sz /\ e.csz \in Nat
  BY <1>1, EntryTypes
<1>4. mem \in SUBSET Nat /\ end \in Nat
  BY <1>1 DEF StreamTypes
<1>5. Written(mem', mem, e.at, e.csz, x)
  BY <1>2, <1>3, <1>4, EncWrites, Zenon
<1>6. /\ ents' \in Seq(Entries) /\ Len(ents') = n
      /\ \A j \in 1 .. n :
           /\ ents'[j].at = ents[j].at /\ ents'[j].csz = ents[j].csz
           /\ ents'[j].val = IF j = k THEN x ELSE ents[j].val
  <2>1. /\ [e EXCEPT !.val = x] \in Entries
        /\ [e EXCEPT !.val = x].at = e.at /\ [e EXCEPT !.val = x].csz = e.csz
        /\ [e EXCEPT !.val = x].val = x
    BY <1>3 DEF Entries
  <2>2. ents' = [ents EXCEPT ![k] = [e EXCEPT !.val = x]]
    BY <1>2
  <2> DEFINE u == [e EXCEPT !.val = x]
  <2> HIDE DEF u
  <2>3. ents' = [ents EXCEPT ![k] = u] /\ u \in Entries
    BY <2>1, <2>2 DEF u
  <2>4. ents \in Seq(Entries) /\ Len(ents) = n /\ k \in 1 .. n
    BY <1>1 DEF StreamTypes
  <2>5. /\ ents' \in Seq(Entries) /\ Len(ents') = n /\ ents'[k] = u
        /\ \A j \in 1 .. n : j # k => ents'[j] = ents[j]
    BY <2>3, <2>4
  <2> QED BY <2>1, <2>4, <2>5 DEF u
<1> HIDE DEF e
<1>7. StreamTypes'
  BY <1>1, <1>2, <1>5, <1>6 DEF StreamTypes, Written
<1>8. \A j \in 0 .. n : EndOf(j)' = EndOf(j)
  BY <1>1, <1>6 DEF EndOf
<1>9. StreamLaidOut'
  <2>1. end' = EndOf(Len(ents))'
    BY <1>1, <1>2, <1>6, <1>8 DEF StreamLaidOut
  <2>2. ASSUME NEW j \in 1 .. n PROVE ents'[j].at = EndOf(j - 1)'
    <3>1. EndOf(j - 1)' = EndOf(j - 1) /\ ents'[j].at = ents[j].at
      BY <1>6, <1>8
    <3> QED BY <3>1, <1>1 DEF StreamLaidOut
  <2>3. ASSUME NEW j \in 1 .. n, NEW l \in 1 .. n, j < l
        PROVE  ents'[j].at + ents'[j].csz <= ents'[l].at
    BY <2>3, <1>1, <1>6 DEF StreamLaidOut
  <2> QED BY <2>1, <2>2, <2>3, <1>6 DEF StreamLaidOut
<1>10. StreamHolds'
  <2> SUFFICES ASSUME NEW j \in 1 .. n
               PROVE  /\ S!Fits(ents'[j].val, ents'[j].csz)
                      /\ Coded(mem', ents'[j].at, ents'[j].csz, ents'[j].val)
    BY <1>6 DEF StreamHolds
  <2>1. CASE j = k
    <3>1. ents'[j].at = e.at /\ ents'[j].csz = e.csz /\ ents'[j].val = x
      BY <2>1, <1>6 DEF e
    <3> QED BY <3>1, <1>2, <1>5, Zenon DEF Written
  <2>2. CASE j # k
    <3>1. ents'[j].at = ents[j].at /\ ents'[j].csz = ents[j].csz /\ ents'[j].val = ents[j].val
      BY <2>2, <1>6
    <3>2. /\ S!Fits(ents[j].val, ents[j].csz)
          /\ Coded(mem, ents[j].at, ents[j].csz, ents[j].val)
      BY <1>1 DEF StreamHolds
    <3>3. ents[j].at \in Nat /\ ents[j].csz \in Sz /\ ents[j].csz \in Nat
      BY <1>1, EntryTypes
    <3>4. ents[j].at + ents[j].csz <= e.at \/ e.at + e.csz <= ents[j].at
      BY <2>2, <1>1 DEF StreamLaidOut, e
    <3>5. Coded(mem', ents[j].at, ents[j].csz, ents[j].val)
      BY <3>2, <3>3, <3>4, <1>3, <1>4, <1>5, CodedKept, Zenon
    <3> QED BY <3>1, <3>2, <3>5, Zenon
  <2> QED BY <2>1, <2>2
<1>11. ReaderInPlace'
  <2>1. Len(out') = 0 /\ n - 0 = n
    BY <1>2
  <2>2. cursor' = EndOf(n)'
    BY <1>1, <1>2, <1>8 DEF StreamLaidOut
  <2> QED BY <2>1, <2>2, <1>6 DEF ReaderInPlace
<1> QED BY <1>7, <1>9, <1>10, <1>11, Zenon DEF StreamInv

\* Where the reader stands before it has read everything.
LEMMA ReaderAt ==
  ASSUME StreamInv, Len(out) < Len(ents)
  PROVE  LET k == Len(ents) - Len(out) IN
         /\ k \in 1 .. Len(ents)
         /\ cursor = ents[k].at + ents[k].csz /\ cursor > 0
         /\ S!DecTailSz(mem, cursor) = ents[k].csz
         /\ cursor - ents[k].csz = ents[k].at /\ ents[k].at = EndOf(k - 1)
         /\ S!DecFixed(mem, ents[k].at, ents[k].csz) = ents[k].val
<1> DEFINE k == Len(ents) - Len(out)
<1>1. StreamTypes /\ StreamLaidOut /\ StreamHolds /\ ReaderInPlace
  BY DEF StreamInv
<1>2. k \in 1 .. Len(ents) /\ k # 0
  BY <1>1 DEF StreamTypes
<1>3. cursor = ents[k].at + ents[k].csz
  BY <1>1, <1>2 DEF ReaderInPlace, EndOf
<1> HIDE DEF k
<1>4. /\ ents[k].at \in Nat /\ ents[k].csz \in Sz /\ ents[k].csz \in Nat \ {0}
      /\ ents[k].val \in Integers64
  BY <1>1, <1>2, EntryTypes
<1>5. /\ S!Fits(ents[k].val, ents[k].csz)
      /\ Coded(mem, ents[k].at, ents[k].csz, ents[k].val)
  BY <1>1, <1>2 DEF StreamHolds
<1>6. mem \in SUBSET Nat
  BY <1>1 DEF StreamTypes
<1>7. S!DecTailSz(mem, cursor) = ents[k].csz
  BY <1>3, <1>4, <1>5, <1>6, TailTells, Zenon
<1>8. S!DecFixed(mem, ents[k].at, ents[k].csz) = ents[k].val
  BY <1>4, <1>5, <1>6, DecReads, Zenon
<1>9. ents[k].at = EndOf(k - 1)
  BY <1>1, <1>2 DEF StreamLaidOut
<1> QED BY <1>2, <1>3, <1>4, <1>7, <1>8, <1>9, SMTT(30) DEF k

LEMMA StreamReadBack ==
  ASSUME StreamInv, S!ReadBack
  PROVE  StreamInv'
<1>0. PICK n \in Nat : n = Len(ents)
  BY DEF StreamInv, StreamTypes
<1>1. PICK r \in Nat : r = Len(out)
  BY DEF StreamInv, StreamTypes
<1>2. StreamTypes /\ ReaderInPlace /\ r <= n
  BY <1>0, <1>1 DEF StreamInv, ReaderInPlace
<1>3. r < n
  <2>1. CASE r = n
    <3>1. cursor = 0
      BY <2>1, <1>0, <1>1, <1>2 DEF ReaderInPlace, EndOf
    <3> QED BY <3>1 DEF S!ReadBack
  <2> QED BY <2>1, <1>2
<1> DEFINE k == n - r
<1>4. /\ k \in 1 .. n
      /\ S!DecTailSz(mem, cursor) = ents[k].csz
      /\ cursor - ents[k].csz = ents[k].at /\ ents[k].at = EndOf(k - 1)
      /\ S!DecFixed(mem, ents[k].at, ents[k].csz) = ents[k].val
  BY <1>0, <1>1, <1>3, ReaderAt
<1>5. /\ cursor' = ents[k].at /\ out' = Append(out, ents[k].val)
      /\ mem' = mem /\ ents' = ents /\ end' = end
  BY <1>4, Zenon DEF S!ReadBack
<1>6. ents[k].at \in Nat /\ ents[k].val \in Integers64
  BY <1>0, <1>2, <1>4, EntryTypes
<1>7. /\ out' \in Seq(Integers64) /\ Len(out') = r + 1
      /\ out'[r + 1] = ents[k].val /\ \A j \in 1 .. r : out'[j] = out[j]
  BY <1>1, <1>2, <1>5, <1>6 DEF StreamTypes
<1>8. StreamTypes'
  BY <1>2, <1>5, <1>6, <1>7 DEF StreamTypes
<1>9. \A j \in 0 .. n : EndOf(j)' = EndOf(j)
  BY <1>5 DEF EndOf
<1>10. StreamLaidOut' /\ StreamHolds'
  BY <1>5 DEF StreamInv, StreamLaidOut, StreamHolds, EndOf
<1>11. ReaderInPlace'
  <2>1. cursor' = EndOf(n - (r + 1))'
    <3>1. n - (r + 1) = k - 1 /\ k - 1 \in 0 .. n
      BY <1>4
    <3> QED BY <3>1, <1>4, <1>5, <1>9
  <2>2. ASSUME NEW j \in 1 .. r + 1 PROVE out'[j] = ents'[n + 1 - j].val
    <3>1. CASE j = r + 1
      <4>1. n + 1 - j = k
        BY <3>1
      <4> QED BY <4>1, <3>1, <1>5, <1>7
    <3>2. CASE j \in 1 .. r
      BY <3>2, <1>0, <1>1, <1>2, <1>5, <1>7 DEF ReaderInPlace
    <3> QED BY <3>1, <3>2
  <2> QED BY <2>1, <2>2, <1>0, <1>3, <1>5, <1>7 DEF ReaderInPlace
<1> QED BY <1>8, <1>10, <1>11 DEF StreamInv

-----------------------------------------------------------------------------
(* The ways to load bytes                                                   *)

LEMMA JoinIsLoad ==
  ASSUME NEW m \in SUBSET Nat, NEW b \in Nat, NEW k \in Nat, NEW n \in Nat, k <= n
  PROVE  S!Join(m, b, k, n) = S!Load(m, b, n)
<1> DEFINE hi == S!Load(m, b + k, n - k)
<1>1. hi \in SUBSET Nat /\ S!Load(m, b, k) \in SUBSET Nat /\ S!Load(m, b, n) \in SUBSET Nat
  <2>1. b + k \in Nat /\ n - k \in Nat
    OBVIOUS
  <2> QED BY <2>1, LoadNat, Zenon
<1>2. \A j \in Int : j \in hi <=> 0 <= j /\ j < 8 * (n - k) /\ j + 8 * (b + k) \in m
  BY InLoad, b + k \in Nat, n - k \in Nat
<1> HIDE DEF hi
<1>3. \A j \in Int : j \in S!Shl(hi, 8 * k) <=> j - 8 * k \in hi
  BY <1>1, InShl, 8 * k \in Nat
<1>4. S!Shl(hi, 8 * k) \in SUBSET Nat
  BY <1>1, BitsNat, 8 * k \in Nat, Zenon
<1>5. \A j \in Int : j \in S!Load(m, b, k) <=> 0 <= j /\ j < 8 * k /\ j + 8 * b \in m
  BY InLoad
<1>6. \A j \in Int : j \in S!Load(m, b, n) <=> 0 <= j /\ j < 8 * n /\ j + 8 * b \in m
  BY InLoad
<1>7. ASSUME NEW j \in Int
      PROVE  j \in S!Load(m, b, k) \cup S!Shl(hi, 8 * k) <=> j \in S!Load(m, b, n)
  <2>1. j \in S!Shl(hi, 8 * k)
          <=> 8 * k <= j /\ j < 8 * n /\ (j - 8 * k) + 8 * (b + k) \in m
    BY <1>2, <1>3, j - 8 * k \in Int
  <2>2. (j - 8 * k) + 8 * (b + k) = j + 8 * b
    OBVIOUS
  <2> QED BY <2>1, <2>2, <1>5, <1>6
<1>8. S!Load(m, b, k) \cup S!Shl(hi, 8 * k) = S!Load(m, b, n)
  <2>1. /\ S!Load(m, b, k) \cup S!Shl(hi, 8 * k) \subseteq Int
        /\ S!Load(m, b, n) \subseteq Int
    BY <1>1, <1>4
  <2> QED BY <2>1, <1>7, Zenon
<1> QED BY <1>8, Zenon DEF S!Join, hi

\* The low bytes of a longer load.
LEMMA LowIsLoad ==
  ASSUME NEW m \in SUBSET Nat, NEW b \in Nat, NEW k \in Nat, NEW n \in Nat, n <= k
  PROVE  S!Low(S!Load(m, b, k), 8 * n) = S!Load(m, b, n)
<1>1. S!Load(m, b, k) \in SUBSET Nat /\ S!Load(m, b, n) \in SUBSET Nat
  BY LoadNat, Zenon
<1>2. \A j \in Int : j \in S!Load(m, b, k) <=> 0 <= j /\ j < 8 * k /\ j + 8 * b \in m
  BY InLoad
<1>3. \A j \in Int : j \in S!Load(m, b, n) <=> 0 <= j /\ j < 8 * n /\ j + 8 * b \in m
  BY InLoad
<1> DEFINE l == S!Load(m, b, k)
<1> HIDE DEF l
<1>4. \A j \in Int : j \in S!Low(l, 8 * n) <=> j \in l /\ 0 <= j /\ j < 8 * n
  BY InLow, 8 * n \in Nat
<1>5. S!Low(l, 8 * n) \subseteq Int
  BY DEF S!Low
<1>6. \A j \in Int : j \in S!Low(l, 8 * n) <=> j \in S!Load(m, b, n)
  BY <1>2, <1>3, <1>4 DEF l
<1> QED BY <1>1, <1>5, <1>6 DEF l

LEMMA LoadsAreOne ==
  ASSUME NEW m \in SUBSET Nat, NEW b \in Nat, NEW n \in 1 .. 8
  PROVE  S!LoadFast(m, b, n) = S!Load(m, b, n) /\ S!LoadDirect(m, b, n) = S!Load(m, b, n)
<1>1. S!LoadFast(m, b, n) = S!Load(m, b, n)
  <2>1. CASE n = 3
    <3>1. S!Low(S!Load(m, b, 4), 8 * 3) = S!Load(m, b, 3)
      BY 3 \in Nat, 4 \in Nat, 3 <= 4, LowIsLoad, Zenon
    <3> QED BY <3>1, <2>1, 8 * 3 = 24 DEF S!LoadFast
  <2>2. CASE n \in {5, 6, 7}
    <3>1. S!Low(S!Load(m, b, 8), 8 * n) = S!Load(m, b, n)
      BY <2>2, LowIsLoad
    <3> QED BY <3>1, <2>2 DEF S!LoadFast
  <2>3. CASE n \in {1, 2, 4, 8}
    BY <2>3 DEF S!LoadFast
  <2> QED BY <2>1, <2>2, <2>3
<1>2. S!LoadDirect(m, b, n) = S!Load(m, b, n)
  <2>1. CASE n = 3
    <3>1. S!Join(m, b, 2, 3) = S!Load(m, b, 3)
      BY JoinIsLoad
    <3> QED BY <3>1, <2>1 DEF S!LoadDirect
  <2>2. CASE n \in {5, 6}
    <3>1. S!Join(m, b, 4, n) = S!Load(m, b, n)
      BY <2>2, JoinIsLoad
    <3> QED BY <3>1, <2>2 DEF S!LoadDirect
  <2>3. CASE n = 7
    <3>1. S!Join(m, b, 4, 6) = S!Load(m, b, 6) /\ S!Join(m, b, 6, 7) = S!Load(m, b, 7)
      BY JoinIsLoad
    <3>2. S!Join(m, b, 6, 7) = S!Load(m, b, 6) \cup S!Shl(S!Load(m, b + 6, 1), 48)
      BY 7 - 6 = 1, 8 * 6 = 48 DEF S!Join
    <3>3. S!LoadDirect(m, b, 7) = S!Join(m, b, 4, 6) \cup S!Shl(S!Load(m, b + 6, 1), 48)
      BY DEF S!LoadDirect
    <3> QED BY <3>1, <3>2, <3>3, <2>3
  <2>4. CASE n \in {1, 2, 4, 8}
    BY <2>4 DEF S!LoadDirect
  <2> QED BY <2>1, <2>2, <2>3, <2>4
<1> QED BY <1>1, <1>2

-----------------------------------------------------------------------------
(* The theorem about the streams                                            *)

LEMMA StreamNext ==
  ASSUME StreamInv, [S!Next]_svwVars, CodecsAssumption
  PROVE  StreamInv'
<1>1. ASSUME NEW x \in Values, S!Append1(x) PROVE StreamInv'
  <2>1. x \in Integers64
    BY DEF CodecsAssumption, S!SvwAssumption, Integers64
  <2> QED BY <1>1, <2>1, StreamAppend
<1>2. ASSUME NEW x \in Values, NEW k \in DOMAIN ents, S!Update(k, x) PROVE StreamInv'
  <2>1. x \in Integers64
    BY DEF CodecsAssumption, S!SvwAssumption, Integers64
  <2>2. k \in 1 .. Len(ents)
    BY DEF StreamInv, StreamTypes
  <2> QED BY <1>2, <2>1, <2>2, StreamUpdate
<1>3. CASE S!ReadBack
  BY <1>3, StreamReadBack
<1>4. CASE UNCHANGED svwVars
  BY <1>4 DEF svwVars, StreamInv, StreamTypes, StreamLaidOut, StreamHolds, ReaderInPlace,
              EndOf
<1> QED BY <1>1, <1>2, <1>3, <1>4, Zenon DEF S!Next

LEMMA StreamInvImplies ==
  ASSUME StreamInv
  PROVE  /\ S!ReadsBack /\ S!EachInItsPlace /\ S!ForwardsIfLegible
         /\ S!LoadsAgree
<1>1. StreamTypes /\ StreamLaidOut /\ StreamHolds /\ ReaderInPlace
  BY DEF StreamInv
<1>2. S!ReadsBack
  <2>1. Len(out) = Len(ents) => cursor = 0
    BY <1>1 DEF ReaderInPlace, EndOf, StreamTypes
  <2>2. Len(out) # Len(ents) => cursor # 0
    <3>1. Len(out) # Len(ents) => Len(out) < Len(ents)
      BY <1>1 DEF ReaderInPlace, StreamTypes
    <3> QED BY <3>1, ReaderAt, <1>1 DEF StreamTypes
  <2>3. DOMAIN out = 1 .. Len(out)
    BY <1>1 DEF StreamTypes
  <2> QED BY <1>1, <2>1, <2>2, <2>3 DEF S!ReadsBack, ReaderInPlace
<1>3. S!EachInItsPlace
  <2> SUFFICES ASSUME NEW k \in 1 .. Len(ents)
               PROVE  S!DecFixed(mem, ents[k].at, ents[k].csz) = ents[k].val
    BY <1>1 DEF S!EachInItsPlace, StreamTypes
  <2>1. ents[k].at \in Nat /\ ents[k].csz \in Sz /\ ents[k].val \in Integers64
    BY <1>1, EntryTypes
  <2>2. /\ S!Fits(ents[k].val, ents[k].csz)
        /\ Coded(mem, ents[k].at, ents[k].csz, ents[k].val)
    BY <1>1 DEF StreamHolds
  <2>3. mem \in SUBSET Nat
    BY <1>1 DEF StreamTypes
  <2> QED BY <2>1, <2>2, <2>3, DecReads, Zenon
<1>4. S!LoadsAgree
  <2>1. mem \in SUBSET Nat /\ 0 \in Nat /\ end \in Nat
    BY <1>1 DEF StreamTypes
  <2> QED BY <2>1, LoadsAreOne DEF S!LoadsAgree
<1>5. S!ForwardsIfLegible
  <2> SUFFICES ASSUME NEW k \in 1 .. Len(ents)
               PROVE  LET e == ents[k] IN
                      /\ S!DecSz(mem, e.at) = e.csz <=> S!Legible(e.val, e.csz)
                      /\ S!Legible(e.val, e.csz) => S!DecSvw(mem, e.at) = e.val
    BY <1>1 DEF S!ForwardsIfLegible, StreamTypes
  <2>1. ents[k].at \in Nat /\ ents[k].csz \in Sz /\ ents[k].val \in Integers64
    BY <1>1, EntryTypes
  <2>2. /\ S!Fits(ents[k].val, ents[k].csz)
        /\ Coded(mem, ents[k].at, ents[k].csz, ents[k].val)
    BY <1>1 DEF StreamHolds
  <2>3. mem \in SUBSET Nat
    BY <1>1 DEF StreamTypes
  <2>4. S!DecSz(mem, ents[k].at) = ents[k].csz <=> S!Legible(ents[k].val, ents[k].csz)
    BY <2>1, <2>2, <2>3, FirstTells, Zenon
  <2>5. S!DecFixed(mem, ents[k].at, ents[k].csz) = ents[k].val
    BY <2>1, <2>2, <2>3, DecReads, Zenon
  <2> QED BY <2>4, <2>5, Zenon DEF S!DecSvw
<1> QED BY <1>2, <1>3, <1>4, <1>5

\* For any number of any 64-bit integers, appended to a stream and updated in
\* place in any order, in memory that held anything before: a reader that
\* starts at the end gets all of them back, last one first, and stops at the
\* start; each can be read where it is by who knows its size; a reader that
\* takes the size from the first byte gets exactly the legible ones right; and
\* all ways of loading bytes agree.
THEOREM StreamsReadBack == CodecsSpec => []ReadsBack
<1> DEFINE I == part = "svw" => StreamInv
<1>1. CodecsInit => I
  BY StreamInit, CodecsAssumption DEF CodecsInit
<1>2. I /\ [CodecsNext]_codecsVars => I'
  <2> SUFFICES ASSUME I, [CodecsNext]_codecsVars, part' = "svw" PROVE StreamInv'
    OBVIOUS
  <2>1. part = "svw" /\ [S!Next]_svwVars
    BY DEF CodecsNext, codecsVars
  <2> QED BY <2>1, StreamNext, CodecsAssumption
<1>3. I => ReadsBack
  BY StreamInvImplies DEF ReadsBack
<1> QED BY <1>1, <1>2, <1>3, PTL DEF CodecsSpec

-----------------------------------------------------------------------------
(* Layouts.  An aligned region of a layout is where the next multiple of    *)
(* its alignment is; in a block that is aligned to the largest alignment    *)
(* the regions are as far apart as in the layout.                           *)

Exponents == 0 .. AddrBits - 1
Alignments == {2 ^ k : k \in Exponents}

\* The next multiple, without a wrap.
NextMult(x, a) == a * ((x + (a - 1)) \div a)

LEMMA ScratchFacts ==
  /\ AddrBits \in Nat \ {0} /\ Doubling(AddrBits)
  /\ Aligns \subseteq Alignments /\ Sizes \subseteq Nat /\ MaxRegions \in Nat
BY CodecsAssumption
   DEF L!ScratchAssumption, L!PowersOfTwo, Doubling, Alignments, Exponents, CodecsAssumption

LEMMA AlignmentIs ==
  ASSUME NEW a \in Alignments
  PROVE  /\ a \in Nat \ {0} /\ L!Top \in Nat \ {0}
         /\ \E q \in Nat \ {0} : L!Top = a * q
<1>1. PICK k \in Exponents : a = 2 ^ k
  BY DEF Alignments
<1>2. k \in 0 .. AddrBits /\ AddrBits \in 0 .. AddrBits /\ k <= AddrBits /\ AddrBits \in Nat
  BY ScratchFacts DEF Exponents
<1>3. Doubling(AddrBits)
  BY ScratchFacts
<1>4. 2 ^ k \in Nat \ {0} /\ 2 ^ AddrBits \in Nat \ {0}
  BY <1>2, <1>3, PowNat
<1>5. 2 ^ AddrBits = 2 ^ k * 2 ^ (AddrBits - k) /\ 2 ^ (AddrBits - k) \in Nat \ {0}
  BY <1>2, <1>3, PowDivides
<1> QED BY <1>1, <1>4, <1>5, Zenon DEF L!Top

\* The larger of two alignments is a multiple of the other one.
LEMMA AlignmentsDivide ==
  ASSUME NEW a \in Alignments, NEW c \in Alignments, a <= c
  PROVE  \E q \in Nat \ {0} : c = a * q
<1>1. PICK i \in Exponents : a = 2 ^ i
  BY DEF Alignments
<1>2. PICK j \in Exponents : c = 2 ^ j
  BY DEF Alignments
<1>3. i \in 0 .. AddrBits /\ j \in 0 .. AddrBits /\ AddrBits \in Nat /\ Doubling(AddrBits)
  BY ScratchFacts DEF Exponents
<1>4. CASE i <= j
  BY <1>1, <1>2, <1>3, <1>4, PowDivides, Zenon
<1>5. CASE j < i
  <2>1. 2 ^ j < 2 ^ i
    BY <1>3, <1>5, PowDivides, Zenon
  <2>2. a \in Nat /\ c \in Nat
    BY AlignmentIs
  <2> QED BY <2>1, <2>2, <1>1, <1>2
<1> QED BY <1>3, <1>4, <1>5

LEMMA NextMultIs ==
  ASSUME NEW x \in Nat, NEW a \in Nat \ {0}
  PROVE  LET q == (x + (a - 1)) \div a IN
         /\ q \in Nat /\ NextMult(x, a) = a * q
         /\ NextMult(x, a) \in Nat /\ x <= NextMult(x, a) /\ NextMult(x, a) <= x + (a - 1)
<1> DEFINE y == x + (a - 1)
           q == y \div a
<1>1. y \in Nat
  OBVIOUS
<1>2. y = a * q + (y % a) /\ y % a \in 0 .. a - 1 /\ q \in Int
  BY <1>1, DivMod
<1> HIDE DEF q
<1>3. a * q >= x /\ a * q <= y
  BY <1>2
<1>4. q >= 0
  <2>1. CASE q <= 0 - 1
    <3>1. a * (0 - 1 - q) >= 0
      BY <2>1, <1>2
    <3>2. a * (0 - 1 - q) = 0 - a - a * q
      BY <1>2
    <3> QED BY <3>1, <3>2, <1>2, <1>3
  <2> QED BY <2>1, <1>2
<1> QED BY <1>2, <1>3, <1>4 DEF NextMult, q

\* It is the only multiple so near.
LEMMA NextMultUnique ==
  ASSUME NEW x \in Nat, NEW a \in Nat \ {0}, NEW q \in Int, x <= a * q, a * q <= x + (a - 1)
  PROVE  NextMult(x, a) = a * q
<1> DEFINE r == (x + (a - 1)) \div a
<1>1. r \in Nat /\ NextMult(x, a) = a * r /\ x <= a * r /\ a * r <= x + (a - 1)
  BY NextMultIs
<1> HIDE DEF r
<1>2. r = q
  <2>1. CASE r - q >= 1
    <3>1. a * (r - q) >= a
      BY <2>1, <1>1
    <3>2. a * (r - q) = a * r - a * q
      BY <1>1
    <3> QED BY <3>1, <3>2, <1>1
  <2>2. CASE q - r >= 1
    <3>1. a * (q - r) >= a
      BY <2>2, <1>1
    <3>2. a * (q - r) = a * q - a * r
      BY <1>1
    <3> QED BY <3>1, <3>2, <1>1
  <2> QED BY <2>1, <2>2, <1>1
<1> QED BY <1>1, <1>2

\* In a block that starts at a multiple.
LEMMA NextMultShift ==
  ASSUME NEW x \in Nat, NEW a \in Nat \ {0}, NEW p \in Nat
  PROVE  NextMult(a * p + x, a) = a * p + NextMult(x, a)
<1> DEFINE q == (x + (a - 1)) \div a
<1>1. q \in Nat /\ NextMult(x, a) = a * q /\ x <= a * q /\ a * q <= x + (a - 1)
  BY NextMultIs
<1> HIDE DEF q
<1>2. a * p \in Nat /\ a * (p + q) = a * p + a * q /\ p + q \in Int
  BY <1>1
<1>3. a * p + x \in Nat /\ a * p + x <= a * (p + q) /\ a * (p + q) <= (a * p + x) + (a - 1)
  BY <1>1, <1>2
<1>4. NextMult(a * p + x, a) = a * (p + q)
  BY <1>2, <1>3, NextMultUnique
<1> QED BY <1>1, <1>2, <1>4

\* fd_ulong_align_up, if that is in range.
LEMMA AlignUpIs ==
  ASSUME NEW a \in Alignments, NEW x \in Nat, x <= L!Top - a
  PROVE  L!AlignUp(x, a) = NextMult(x, a)
<1>1. a \in Nat \ {0} /\ L!Top \in Nat \ {0}
  BY AlignmentIs
<1> DEFINE y == x + (a - 1)
<1>2. y \in Nat /\ y < L!Top /\ x + a - 1 = y
  BY <1>1
<1>3. y % L!Top = y
  BY <1>1, <1>2, ModSmall
<1>4. y = a * (y \div a) + (y % a) /\ y % a \in 0 .. a - 1 /\ y \div a \in Int
  BY <1>1, <1>2, DivMod, SMTT(30)
<1>5. y - (y % a) = a * (y \div a)
  BY <1>1, <1>2, <1>4
<1>6. L!AlignUp(x, a) = y - (y % a)
  BY <1>2, <1>3, Zenon DEF L!AlignUp
<1> QED BY <1>5, <1>6 DEF NextMult

\* A number below a multiple that is in range.
LEMMA BelowMultiple ==
  ASSUME NEW a \in Alignments, NEW q \in Nat, a * q < L!Top
  PROVE  a * q <= L!Top - a
<1>1. a \in Nat \ {0}
  BY AlignmentIs
<1>2. PICK r \in Nat \ {0} : L!Top = a * r
  BY AlignmentIs
<1>3. q < r
  <2>1. CASE q >= r
    <3>1. a * (q - r) >= 0
      BY <2>1, <1>1
    <3>2. a * (q - r) = a * q - a * r
      BY <1>1
    <3> QED BY <3>1, <3>2, <1>1, <1>2
  <2> QED BY <2>1
<1>4. a * (r - q - 1) >= 0
  BY <1>1, <1>3
<1>5. a * (r - q - 1) = a * r - a * q - a
  BY <1>1
<1>6. a * q \in Int /\ a * r \in Int
  BY <1>1
<1> QED BY <1>1, <1>2, <1>4, <1>5, <1>6

Plans == [align : Aligns, sz : Sizes]

ScratchTypes ==
  /\ plan \in Seq(Plans) /\ layout \in Nat /\ align \in Alignments
  /\ next \in Nat /\ regions \in Seq([at : Nat, sz : Nat]) /\ failed = FALSE

\* The caller keeps the promise.
WithinPromise ==
  /\ \A k \in 1 .. Len(plan) : plan[k].align <= align
  /\ layout <= L!Top - align

\* off[k] is the layout of the first k regions.
LaidOut(off) ==
  /\ off \in [0 .. Len(plan) -> Nat] /\ off[0] = 0 /\ off[Len(plan)] = layout
  /\ \A k \in 1 .. Len(plan) :
       off[k] = NextMult(off[k - 1], plan[k].align) + plan[k].sz /\ off[k] <= layout

Whole == NextMult(layout, align)

\* The regions handed out so far are as far apart as in the layout.
HandedOut(off) ==
  /\ base \in Nat /\ (\E p \in Nat : base = align * p) /\ base + Whole < L!Top
  /\ Len(regions) <= Len(plan)
  /\ Len(regions) < Len(plan) => next = base + off[Len(regions)]
  /\ Len(regions) = Len(plan) => next \in {base + layout, base + Whole}
  /\ \A k \in 1 .. Len(regions) :
       regions[k] = [at |-> base + NextMult(off[k - 1], plan[k].align), sz |-> plan[k].sz]

ScratchInv ==
  /\ ScratchTypes /\ WithinPromise
  /\ \E off : LaidOut(off) /\ IF base = -1 THEN regions = <<>> ELSE HandedOut(off)

LEMMA PlanTypes ==
  ASSUME ScratchTypes, NEW k \in 1 .. Len(plan)
  PROVE  plan[k] \in Plans /\ plan[k].align \in Alignments /\ plan[k].sz \in Nat
<1>1. plan[k] \in Plans
  BY DEF ScratchTypes
<1> QED BY <1>1, ScratchFacts DEF Plans

LEMMA WholeIs ==
  ASSUME ScratchTypes, WithinPromise
  PROVE  /\ L!Footprint = Whole /\ Whole \in Nat /\ layout <= Whole
         /\ \E q \in Nat : Whole = align * q
<1>1. align \in Alignments /\ layout \in Nat /\ layout <= L!Top - align
  BY DEF ScratchTypes, WithinPromise
<1>2. L!Footprint = Whole
  BY <1>1, AlignUpIs DEF L!Footprint, Whole
<1>3. align \in Nat \ {0}
  BY <1>1, AlignmentIs
<1>4. /\ (layout + (align - 1)) \div align \in Nat
      /\ Whole = align * ((layout + (align - 1)) \div align)
      /\ Whole \in Nat /\ layout <= Whole
  BY <1>1, <1>3, NextMultIs DEF Whole
<1> QED BY <1>2, <1>4

LEMMA ScratchStart ==
  ASSUME L!Init
  PROVE  ScratchInv
<1>1. /\ plan = <<>> /\ layout = 0 /\ align = 1 /\ base = -1
      /\ next = 0 /\ regions = <<>> /\ failed = FALSE
  BY DEF L!Init
<1>2. 2 ^ 0 = 1 /\ 0 \in Exponents
  BY ScratchFacts DEF Exponents
<1>3. 1 \in Alignments
  BY <1>2, Zenon DEF Alignments
<1>4. ScratchTypes
  BY <1>1, <1>3 DEF ScratchTypes
<1>5. L!Top \in Nat \ {0}
  BY <1>3, AlignmentIs
<1>6. WithinPromise
  BY <1>1, <1>5 DEF WithinPromise
<1>7. LaidOut([k \in {0} |-> 0])
  <2>1. 0 .. Len(plan) = {0} /\ Len(plan) = 0
    BY <1>1
  <2> QED BY <2>1, <1>1 DEF LaidOut
<1> QED BY <1>1, <1>4, <1>6, <1>7, Zenon DEF ScratchInv

LEMMA LayoutKeeps ==
  ASSUME ScratchInv, NEW a \in Aligns, NEW s \in Sizes, L!LayoutAppend(a, s)
  PROVE  ScratchInv'
<1>1. PICK n \in Nat : n = Len(plan)
  BY DEF ScratchInv, ScratchTypes
<1>2. PICK off : LaidOut(off) /\ IF base = -1 THEN regions = <<>> ELSE HandedOut(off)
  BY DEF ScratchInv
<1> DEFINE reg == [align |-> a, sz |-> s]
           at == NextMult(layout, a)
           top == L!Top
<1>3. /\ base = -1 /\ layout <= top - a /\ L!AlignUp(layout, a) + s <= top - align'
      /\ plan' = Append(plan, reg) /\ layout' = L!AlignUp(layout, a) + s
      /\ align' = L!Larger(a, align)
      /\ base' = base /\ next' = next /\ regions' = regions /\ failed' = failed
  BY Zenon DEF L!LayoutAppend, L!Promised
<1>4. /\ a \in Alignments /\ s \in Nat /\ align \in Alignments /\ layout \in Nat
      /\ a \in Nat \ {0} /\ align \in Nat \ {0} /\ top \in Nat
  BY ScratchFacts, AlignmentIs DEF ScratchInv, ScratchTypes
<1>5. L!AlignUp(layout, a) = at
  BY <1>3, <1>4, AlignUpIs
<1>6. at \in Nat /\ layout <= at
  BY <1>4, NextMultIs
<1>7. align' \in Alignments /\ align' \in Nat /\ a <= align' /\ align <= align'
  BY <1>3, <1>4 DEF L!Larger
<1> HIDE DEF at, top
<1>8. layout' = at + s /\ layout' \in Nat /\ layout <= layout' /\ layout' <= top - align'
  BY <1>3, <1>4, <1>5, <1>6
<1>9. reg \in Plans /\ reg.align = a /\ reg.sz = s
  BY DEF Plans
<1> HIDE DEF reg
<1>10. /\ plan' \in Seq(Plans) /\ Len(plan') = n + 1 /\ plan'[n + 1] = reg
       /\ \A k \in 1 .. n : plan'[k] = plan[k]
  BY <1>1, <1>3, <1>9 DEF ScratchInv, ScratchTypes
<1>11. ScratchTypes'
  BY <1>3, <1>7, <1>8, <1>10 DEF ScratchInv, ScratchTypes
<1>12. WithinPromise'
  <2>1. ASSUME NEW k \in 1 .. n + 1 PROVE plan'[k].align <= align'
    <3>1. CASE k = n + 1
      BY <3>1, <1>7, <1>9, <1>10
    <3>2. CASE k \in 1 .. n
      <4>1. plan'[k] = plan[k] /\ plan[k].align <= align
        BY <3>2, <1>1, <1>10 DEF ScratchInv, WithinPromise
      <4>2. plan[k].align \in Nat
        BY <3>2, <1>1, PlanTypes, AlignmentIs DEF ScratchInv
      <4> QED BY <4>1, <4>2, <1>4, <1>7
    <3> QED BY <3>1, <3>2
  <2>2. layout' <= L!Top - align'
    BY <1>8 DEF top
  <2> QED BY <2>1, <2>2, <1>10 DEF WithinPromise, L!Top
<1>13. /\ off \in [0 .. n -> Nat] /\ off[0] = 0 /\ off[n] = layout
       /\ \A k \in 1 .. n :
            off[k] = NextMult(off[k - 1], plan[k].align) + plan[k].sz /\ off[k] <= layout
  BY <1>1, <1>2 DEF LaidOut
<1>14. PICK new : /\ new \in [0 .. n + 1 -> Nat] /\ new[n + 1] = layout'
                  /\ \A k \in 0 .. n : new[k] = off[k]
  <2> DEFINE f == [k \in 0 .. n + 1 |-> IF k = n + 1 THEN layout' ELSE off[k]]
  <2>1. /\ f \in [0 .. n + 1 -> Nat] /\ f[n + 1] = layout'
        /\ \A k \in 0 .. n : f[k] = off[k]
    BY <1>8, <1>13
  <2> QED BY <2>1, Zenon
<1>15. LaidOut(new)'
  <2>1. new[0] = 0
    BY <1>13, <1>14
  <2>2. ASSUME NEW k \in 1 .. n + 1
        PROVE  /\ new[k] = NextMult(new[k - 1], plan'[k].align) + plan'[k].sz
               /\ new[k] <= layout'
    <3>1. CASE k = n + 1
      <4>1. new[k - 1] = layout
        BY <3>1, <1>13, <1>14
      <4> QED BY <4>1, <3>1, <1>8, <1>9, <1>10, <1>14 DEF at
    <3>2. CASE k \in 1 .. n
      <4>1. new[k] = off[k] /\ new[k - 1] = off[k - 1] /\ plan'[k] = plan[k]
        BY <3>2, <1>10, <1>14
      <4>2. off[k] \in Nat /\ off[k] <= layout
        BY <3>2, <1>13
      <4> QED BY <4>1, <4>2, <3>2, <1>4, <1>8, <1>13
    <3> QED BY <3>1, <3>2
  <2> QED BY <2>1, <2>2, <1>10, <1>14 DEF LaidOut
<1>16. IF base' = -1 THEN regions' = <<>> ELSE HandedOut(new)'
  BY <1>2, <1>3
<1> QED BY <1>11, <1>12, <1>15, <1>16, Zenon DEF ScratchInv

LEMMA BlockGiven ==
  ASSUME ScratchInv, NEW b \in 0 .. L!Top - 1, L!ScratchInit(b)
  PROVE  ScratchInv'
<1>1. ScratchTypes /\ WithinPromise
  BY DEF ScratchInv
<1>2. /\ base = -1 /\ plan # <<>> /\ b % align = 0 /\ b + L!Footprint < L!Top
      /\ base' = b /\ next' = b
      /\ plan' = plan /\ layout' = layout /\ align' = align
      /\ regions' = regions /\ failed' = failed
  BY Zenon DEF L!ScratchInit
<1>3. align \in Alignments /\ align \in Nat \ {0} /\ L!Top \in Nat
  BY <1>1, AlignmentIs DEF ScratchTypes
<1>4. b \in Nat /\ b # -1
  BY <1>3
<1>5. b = align * (b \div align) /\ b \div align \in Nat
  <2>1. b = align * (b \div align) + (b % align) /\ b \div align \in Int
    <3>1. b \in Int /\ align \in Nat \ {0}
      BY <1>3, <1>4
    <3> QED BY <3>1, DivMod, Zenon
  <2>2. CASE b = 0
    <3>1. align * 0 = 0 /\ 0 \in Int
      BY <1>3
    <3>2. align * (b \div align) + 0 = align * 0 + 0 /\ 0 \in 0 .. align - 1
      BY <2>1, <2>2, <3>1, <1>2, <1>3
    <3>3. b \div align = 0
      BY <2>1, <3>1, <3>2, <1>3, DivUnique
    <3> QED BY <3>1, <3>3, <2>2
  <2>3. CASE b # 0
    BY <2>3, <1>2, <1>3, <1>4, Quotient
  <2> QED BY <2>2, <2>3
<1>6. L!Footprint = Whole
  BY <1>1, WholeIs
<1>7. PICK off : LaidOut(off) /\ regions = <<>>
  BY <1>2 DEF ScratchInv
<1>8. Len(regions) = 0 /\ Len(plan) \in Nat /\ Len(plan) # 0 /\ off[0] = 0
  BY <1>1, <1>2, <1>7 DEF ScratchTypes, LaidOut
<1>9. HandedOut(off)'
  <2>1. Whole' = Whole
    BY <1>2 DEF Whole
  <2>2. base' \in Nat /\ (\E p \in Nat : base' = align' * p)
    BY <1>2, <1>4, <1>5, Zenon
  <2>3. base' + Whole' < L!Top
    BY <1>2, <1>6, <2>1
  <2>4. Len(regions') = 0 /\ Len(plan') # 0 /\ Len(plan') \in Nat
    BY <1>2, <1>8
  <2>5. next' = base' + off[0]
    BY <1>2, <1>4, <1>8
  <2> QED BY <2>2, <2>3, <2>4, <2>5 DEF HandedOut, L!Top
<1>10. LaidOut(off)'
  BY <1>2, <1>7 DEF LaidOut
<1>11. ScratchTypes' /\ WithinPromise'
  BY <1>1, <1>2, <1>4 DEF ScratchTypes, WithinPromise, L!Top
<1> QED BY <1>2, <1>4, <1>9, <1>10, <1>11, Zenon DEF ScratchInv

\* What FD_SCRATCH_ALLOC_APPEND computes for a region: its place in the layout,
\* moved to where the block is, without an overflow.
LEMMA RegionPlace ==
  ASSUME ScratchTypes, WithinPromise, NEW off, LaidOut(off), HandedOut(off),
         NEW k \in 1 .. Len(plan)
  PROVE  LET a == plan[k].align
             at == base + NextMult(off[k - 1], a)
         IN  /\ L!AlignUp(base + off[k - 1], a) = at
             /\ at \in Nat /\ off[k - 1] \in Nat /\ off[k] \in Nat /\ off[k] <= layout
             /\ at >= base + off[k - 1] /\ at + plan[k].sz = base + off[k]
             /\ base + off[k] < L!Top /\ base + off[k] <= base + Whole
             /\ at % a = 0
<1> DEFINE a == plan[k].align
           o == off[k - 1]
           t == NextMult(o, a)
           s == plan[k].sz
<1>1. a \in Alignments /\ s \in Nat /\ a \in Nat \ {0} /\ L!Top \in Nat
  BY PlanTypes, AlignmentIs
<1>2. k - 1 \in 0 .. Len(plan) /\ k \in 0 .. Len(plan) /\ Len(plan) \in Nat
  BY DEF ScratchTypes
<1>3. o \in Nat /\ off[k] \in Nat /\ off[k] = t + s /\ off[k] <= layout
  BY <1>2 DEF LaidOut
<1>4. align \in Alignments /\ a <= align /\ layout \in Nat
  BY DEF ScratchTypes, WithinPromise
<1>5. PICK q \in Nat \ {0} : align = a * q
  BY <1>1, <1>4, AlignmentsDivide
<1>6. PICK p \in Nat : base = align * p
  BY DEF HandedOut
<1> DEFINE m == q * p
<1>7. base = a * m /\ m \in Nat
  BY <1>1, <1>5, <1>6
<1> DEFINE r == (o + (a - 1)) \div a
<1> HIDE DEF a, o, s
<1>8. r \in Nat /\ t = a * r /\ t \in Nat /\ o <= t
  BY <1>1, <1>3, NextMultIs
<1>9. NextMult(base + o, a) = base + t
  BY <1>1, <1>3, <1>7, NextMultShift
<1>10. base \in Nat /\ base + Whole < L!Top /\ layout <= Whole /\ Whole \in Nat
  BY WholeIs DEF HandedOut
<1> HIDE DEF t, m, r
<1>11. a * (m + r) = base + t /\ m + r \in Nat
  BY <1>1, <1>7, <1>8
<1>12. base + t <= L!Top - a
  <2>1. base + t < L!Top
    BY <1>1, <1>3, <1>4, <1>8, <1>10
  <2> QED BY <2>1, <1>1, <1>11, BelowMultiple
<1>13. base + o \in Nat /\ base + o <= L!Top - a
  BY <1>1, <1>3, <1>8, <1>10, <1>12
<1>14. L!AlignUp(base + o, a) = base + t
  BY <1>1, <1>9, <1>13, AlignUpIs
<1>15. (base + t) % a = 0
  <2>1. a * (m + r) + 0 = base + t /\ 0 \in 0 .. a - 1
    BY <1>1, <1>11, <1>8, <1>10
  <2>2. (a * (m + r) + 0) % a = 0
    BY <2>1, <1>1, <1>11, m + r \in Int, DivModOf, Zenon
  <2> QED BY <2>1, <2>2
<1>16. /\ base + t \in Nat /\ base + t >= base + o /\ (base + t) + s = base + off[k]
       /\ base + off[k] < L!Top /\ base + off[k] <= base + Whole
  BY <1>1, <1>3, <1>4, <1>8, <1>10
<1> QED BY <1>3, <1>14, <1>15, <1>16 DEF a, o, s, t

LEMMA RegionGiven ==
  ASSUME ScratchInv, L!ScratchAppend
  PROVE  ScratchInv'
<1>1. ScratchTypes /\ WithinPromise
  BY DEF ScratchInv
<1>2. base # -1
  BY DEF L!ScratchAppend
<1>3. PICK off : LaidOut(off) /\ HandedOut(off)
  BY <1>2 DEF ScratchInv
<1>4. PICK n \in Nat : n = Len(plan)
  BY <1>1 DEF ScratchTypes
<1>5. PICK k \in Nat : k = Len(regions) + 1
  BY <1>1 DEF ScratchTypes
<1>6. k \in 1 .. n /\ Len(regions) < Len(plan) /\ Len(regions) = k - 1
  <2>1. Len(regions) + 1 <= Len(plan)
    BY Zenon DEF L!ScratchAppend
  <2> QED BY <2>1, <1>1, <1>4, <1>5 DEF ScratchTypes
<1> DEFINE a == plan[k].align
           s == plan[k].sz
           at == base + NextMult(off[k - 1], a)
           fin == base + off[k]
<1>7. next = base + off[k - 1]
  BY <1>3, <1>6 DEF HandedOut
<1>8. /\ L!AlignUp(base + off[k - 1], a) = at /\ at \in Nat /\ off[k] \in Nat
      /\ at >= base + off[k - 1] /\ at + s = fin /\ fin < L!Top
  BY <1>1, <1>3, <1>4, <1>6, RegionPlace
<1>9. s \in Nat /\ base \in Nat /\ fin \in Nat /\ L!Top \in Nat \ {0}
  <2>1. base \in Nat /\ align \in Alignments
    BY <1>1, <1>3 DEF HandedOut, ScratchTypes
  <2>2. s \in Nat
    BY <1>1, <1>4, <1>6, PlanTypes
  <2>3. L!Top \in Nat \ {0}
    BY <2>1, AlignmentIs
  <2> QED BY <2>1, <2>2, <2>3, <1>8
<1> HIDE DEF a, s, at, fin
<1>10. (at + s) % L!Top = fin
  BY <1>8, <1>9, ModSmall
<1>11. ~(fin < at)
  BY <1>8, <1>9
<1>12. /\ next' = fin /\ regions' = Append(regions, [at |-> at, sz |-> s])
       /\ failed' = failed /\ plan' = plan /\ layout' = layout /\ align' = align
       /\ base' = base
  <2>1. L!AlignUp(next, plan[k].align) = at
    BY <1>7, <1>8 DEF a
  <2> QED BY <2>1, <1>5, <1>10, <1>11, Zenon DEF L!ScratchAppend, s
<1> DEFINE reg == [at |-> at, sz |-> s]
<1>13. reg \in [at : Nat, sz : Nat]
  BY <1>8, <1>9
<1> HIDE DEF reg
<1>14. /\ regions' \in Seq([at : Nat, sz : Nat]) /\ Len(regions') = k /\ regions'[k] = reg
       /\ \A j \in 1 .. k - 1 : regions'[j] = regions[j]
  BY <1>1, <1>5, <1>6, <1>12, <1>13 DEF ScratchTypes, reg
<1>15. ScratchTypes' /\ WithinPromise'
  BY <1>1, <1>9, <1>12, <1>14 DEF ScratchTypes, WithinPromise, L!Top
<1>16. LaidOut(off)'
  BY <1>3, <1>12 DEF LaidOut
<1>17. HandedOut(off)'
  <2>1. Whole' = Whole
    BY <1>12 DEF Whole
  <2>2. /\ base' \in Nat /\ (\E p \in Nat : base' = align' * p) /\ base' + Whole' < L!Top
        /\ Len(regions') <= Len(plan')
    BY <1>3, <1>4, <1>6, <1>12, <1>14, <2>1 DEF HandedOut
  <2>3. Len(regions') < Len(plan') => next' = base' + off[Len(regions')]
    BY <1>12, <1>14 DEF fin
  <2>4. Len(regions') = Len(plan') => next' = base' + layout'
    <3>1. off[n] = layout
      BY <1>3, <1>4 DEF LaidOut
    <3> QED BY <3>1, <1>4, <1>12, <1>14 DEF fin
  <2>5. ASSUME NEW j \in 1 .. k
        PROVE  regions'[j] = [at |-> base' + NextMult(off[j - 1], plan'[j].align),
                              sz |-> plan'[j].sz]
    <3>1. CASE j = k
      BY <3>1, <1>12, <1>14, Zenon DEF reg, at, a, s
    <3>2. CASE j \in 1 .. k - 1
      BY <3>2, <1>3, <1>6, <1>12, <1>14 DEF HandedOut
    <3> QED BY <3>1, <3>2
  <2> QED BY <2>2, <2>3, <2>4, <2>5, <1>14, Zenon DEF HandedOut, L!Top
<1> QED BY <1>2, <1>12, <1>15, <1>16, <1>17, Zenon DEF ScratchInv

LEMMA LayoutDone ==
  ASSUME ScratchInv, L!ScratchFini
  PROVE  ScratchInv'
<1>1. ScratchTypes /\ WithinPromise
  BY DEF ScratchInv
<1>2. /\ base # -1 /\ Len(regions) = Len(plan) /\ next' = L!AlignUp(next, align)
      /\ plan' = plan /\ layout' = layout /\ align' = align /\ base' = base
      /\ regions' = regions /\ failed' = failed
  BY Zenon DEF L!ScratchFini
<1>3. PICK off : LaidOut(off) /\ HandedOut(off)
  BY <1>2 DEF ScratchInv
<1>4. PICK p \in Nat : base = align * p
  BY <1>3 DEF HandedOut
<1>5. PICK q \in Nat : Whole = align * q
  BY <1>1, WholeIs
<1>6. /\ align \in Alignments /\ align \in Nat \ {0} /\ L!Top \in Nat \ {0}
      /\ layout \in Nat /\ Whole \in Nat /\ layout <= Whole
  BY <1>1, AlignmentIs, WholeIs DEF ScratchTypes
<1>7. base \in Nat /\ base + Whole < L!Top /\ next \in {base + layout, base + Whole}
  BY <1>2, <1>3 DEF HandedOut
<1>8. align * (p + q) = base + Whole /\ p + q \in Nat
  BY <1>4, <1>5, <1>6
<1>9. base + Whole <= L!Top - align
  BY <1>6, <1>7, <1>8, BelowMultiple
<1>10. L!AlignUp(next, align) = NextMult(next, align)
  <2>1. next \in Nat /\ next <= L!Top - align
    BY <1>6, <1>7, <1>9
  <2> QED BY <2>1, <1>6, AlignUpIs
<1>11. NextMult(next, align) = base + Whole
  <2>1. CASE next = base + layout
    <3>1. NextMult(align * p + layout, align) = align * p + NextMult(layout, align)
      BY <1>6, NextMultShift, Zenon
    <3> QED BY <3>1, <2>1, <1>4 DEF Whole
  <2>2. CASE next = base + Whole
    <3>1. /\ next \in Nat /\ p + q \in Int
          /\ next <= align * (p + q) /\ align * (p + q) <= next + (align - 1)
      BY <2>2, <1>6, <1>7, <1>8
    <3>2. NextMult(next, align) = align * (p + q)
      BY <3>1, <1>6, NextMultUnique
    <3> QED BY <3>2, <1>8
  <2> QED BY <2>1, <2>2, <1>7
<1>12. next' = base + Whole /\ next' \in Nat
  BY <1>2, <1>6, <1>7, <1>10, <1>11
<1>13. ScratchTypes' /\ WithinPromise'
  BY <1>1, <1>2, <1>12 DEF ScratchTypes, WithinPromise, L!Top
<1>14. LaidOut(off)'
  BY <1>2, <1>3 DEF LaidOut
<1>15. HandedOut(off)'
  <2>1. Whole' = Whole
    BY <1>2 DEF Whole
  <2>2. /\ base' \in Nat /\ (\E i \in Nat : base' = align' * i) /\ base' + Whole' < L!Top
        /\ Len(regions') = Len(plan')
    BY <2>1, <1>2, <1>4, <1>7, Zenon
  <2>3. Len(plan) \in Nat
    BY <1>1 DEF ScratchTypes
  <2>4. next' = base' + Whole'
    BY <2>1, <1>2, <1>12
  <2>5. ~(Len(regions') < Len(plan')) /\ Len(regions') <= Len(plan')
    BY <2>2, <2>3, <1>2
  <2> QED BY <2>2, <2>4, <2>5, <1>2, <1>3 DEF HandedOut, L!Top
<1> QED BY <1>2, <1>13, <1>14, <1>15, Zenon DEF ScratchInv

LEMMA ScratchInvImplies ==
  ASSUME ScratchInv
  PROVE  L!RegionsFit
<1>1. ScratchTypes /\ WithinPromise /\ ~failed
  BY DEF ScratchInv, ScratchTypes
<1>2. CASE base = -1
  <2>1. regions = <<>>
    BY <1>2 DEF ScratchInv
  <2> QED BY <2>1, <1>1, <1>2 DEF L!RegionsFit
<1>3. CASE base # -1
  <2>1. PICK off : LaidOut(off) /\ HandedOut(off)
    BY <1>3 DEF ScratchInv
  <2>2. /\ L!Footprint = Whole /\ Whole \in Nat /\ layout <= Whole
        /\ layout \in Nat /\ base \in Nat /\ Len(plan) \in Nat /\ Len(regions) \in Nat
    <3>1. layout \in Nat /\ Len(plan) \in Nat /\ Len(regions) \in Nat
      BY <1>1 DEF ScratchTypes
    <3>2. base \in Nat
      BY <2>1, Zenon DEF HandedOut
    <3>3. L!Footprint = Whole /\ Whole \in Nat /\ layout <= Whole
      BY <1>1, WholeIs, Zenon
    <3> QED BY <3>1, <3>2, <3>3
  <2>3. next <= base + Whole
    <3>1. CASE Len(regions) = Len(plan)
      BY <3>1, <2>1, <2>2 DEF HandedOut
    <3>2. CASE Len(regions) < Len(plan)
      <4>1. next = base + off[Len(regions)] /\ Len(regions) \in 0 .. Len(plan)
        BY <3>2, <2>1, <2>2 DEF HandedOut
      <4>2. off[Len(regions)] \in Nat /\ off[Len(regions)] <= layout
        BY <4>1, <2>1, <2>2 DEF LaidOut
      <4> QED BY <4>1, <4>2, <2>2
    <3> QED BY <3>1, <3>2, <2>1, <2>2 DEF HandedOut
  <2>4. ASSUME NEW k \in 1 .. Len(regions)
        PROVE  /\ regions[k].at % plan[k].align = 0
               /\ regions[k].at >= IF k = 1 THEN base
                                   ELSE regions[k - 1].at + regions[k - 1].sz
    <3>1. k \in 1 .. Len(plan) /\ (k # 1 => k - 1 \in 1 .. Len(plan) /\ k - 1 \in 1 .. Len(regions))
      BY <2>1, <2>2 DEF HandedOut
    <3>2. regions[k].at = base + NextMult(off[k - 1], plan[k].align)
      <4>1. regions[k] = [at |-> base + NextMult(off[k - 1], plan[k].align), sz |-> plan[k].sz]
        BY <2>1, Zenon DEF HandedOut
      <4> QED BY <4>1
    <3>3. /\ regions[k].at % plan[k].align = 0 /\ regions[k].at >= base + off[k - 1]
          /\ off[k - 1] \in Nat /\ regions[k].at \in Nat
      BY <3>1, <3>2, <2>1, <1>1, RegionPlace
    <3>4. CASE k = 1
      BY <3>3, <3>4, <2>2
    <3>5. CASE k # 1
      <4> DEFINE j == k - 1
      <4>1. j \in 1 .. Len(plan) /\ j \in 1 .. Len(regions)
        BY <3>1, <3>5
      <4> HIDE DEF j
      <4>2. regions[j].at = base + NextMult(off[j - 1], plan[j].align)
            /\ regions[j].sz = plan[j].sz
        <5>1. regions[j] = [at |-> base + NextMult(off[j - 1], plan[j].align), sz |-> plan[j].sz]
          BY <4>1, <2>1, Zenon DEF HandedOut
        <5> QED BY <5>1
      <4>3. base + NextMult(off[j - 1], plan[j].align) + plan[j].sz = base + off[j]
        BY <4>1, <2>1, <1>1, RegionPlace
      <4> QED BY <4>2, <4>3, <3>3, <3>5 DEF j
    <3> QED BY <3>3, <3>4, <3>5
  <2>5. DOMAIN regions = 1 .. Len(regions)
    BY <1>1 DEF ScratchTypes
  <2> QED BY <2>2, <2>3, <2>4, <2>5, <1>1 DEF L!RegionsFit
<1> QED BY <1>2, <1>3

LEMMA ScratchNext ==
  ASSUME ScratchInv, [L!Next]_scratchVars
  PROVE  ScratchInv'
<1>1. CASE UNCHANGED scratchVars
  <2>1. /\ plan' = plan /\ layout' = layout /\ align' = align /\ base' = base
        /\ next' = next /\ regions' = regions /\ failed' = failed
    BY <1>1 DEF scratchVars
  <2>2. \A off : LaidOut(off) => LaidOut(off)'
    BY <2>1 DEF LaidOut
  <2>3. \A off : HandedOut(off) => HandedOut(off)'
    BY <2>1 DEF HandedOut, Whole, L!Top
  <2>4. (ScratchTypes /\ WithinPromise)'
    BY <2>1 DEF ScratchInv, ScratchTypes, WithinPromise, L!Top
  <2> QED BY <2>1, <2>2, <2>3, <2>4, Zenon DEF ScratchInv
<1> QED BY <1>1, LayoutKeeps, BlockGiven, RegionGiven, LayoutDone, Zenon DEF L!Next

\* However regions of any sizes, aligned to any powers of two, are appended,
\* if the caller keeps the promise: in a block that has the layout's footprint
\* and alignment, wherever in the address space it is, the regions come out
\* aligned, disjoint and within the block, and no address overflows.
THEOREM LayoutIsEnough == CodecsSpec => []RegionsFit
<1> DEFINE I == part = "scratch" => ScratchInv
<1>1. CodecsInit => I
  BY ScratchStart DEF CodecsInit
<1>2. I /\ [CodecsNext]_codecsVars => I'
  <2> SUFFICES ASSUME I, [CodecsNext]_codecsVars, part' = "scratch" PROVE ScratchInv'
    OBVIOUS
  <2>1. part = "scratch" /\ [L!Next]_scratchVars
    BY DEF CodecsNext, codecsVars
  <2> QED BY <2>1, ScratchNext
<1>3. I => RegionsFit
  BY ScratchInvImplies DEF RegionsFit
<1> QED BY <1>1, <1>2, <1>3, PTL DEF CodecsSpec

-----------------------------------------------------------------------------
(* Words of bits.  Bit i of a number; what arithmetic does to it            *)

Bit(a, i) == (a \div 2 ^ i) % 2
Positions == 0 .. WordBits - 1

LEMMA WordFacts ==
  /\ WordBits \in {8, 16, 32, 64, 128} /\ WordBits \in Nat \ {0}
  /\ 2 * WordBits \in Nat /\ Doubling(2 * WordBits)
  /\ B!Pos = Positions
<1>1. WordBits \in {8, 16, 32, 64, 128} /\ B!Powers
  BY CodecsAssumption, Zenon DEF CodecsAssumption, B!WAssumption
<1>2. WordBits \in Nat \ {0} /\ 2 * WordBits \in Nat
  BY <1>1, SMT
<1>3. Doubling(2 * WordBits)
  BY <1>1, Zenon DEF B!Powers, Doubling
<1>4. B!Pos = Positions
  BY DEF B!Pos, Positions
<1> QED BY <1>1, <1>2, <1>3, <1>4, Zenon

LEMMA TwoTo ==
  ASSUME NEW i \in 0 .. 2 * WordBits
  PROVE  2 ^ i \in Nat \ {0}
BY WordFacts, PowNat, Zenon

LEMMA TwoOrder ==
  ASSUME NEW i \in 0 .. 2 * WordBits, NEW j \in 0 .. 2 * WordBits
  PROVE  /\ i <= j => /\ 2 ^ j = 2 ^ i * 2 ^ (j - i) /\ 2 ^ (j - i) \in Nat \ {0}
                      /\ 2 ^ i <= 2 ^ j
         /\ i < j => 2 ^ i < 2 ^ j
BY WordFacts, PowDivides, Zenon

LEMMA BitIs ==
  ASSUME NEW a \in Int, NEW i \in 0 .. 2 * WordBits
  PROVE  a \div 2 ^ i \in Int /\ Bit(a, i) \in {0, 1}
<1>1. 2 ^ i \in Nat \ {0}
  BY TwoTo
<1>2. a \div 2 ^ i \in Int
  BY <1>1, DivMod
<1> DEFINE q == a \div 2 ^ i
<1> HIDE DEF q
<1>3. q % 2 \in {0, 1}
  BY <1>2 DEF q
<1> QED BY <1>2, <1>3 DEF Bit, q

LEMMA BitShr ==
  ASSUME NEW a \in Int, NEW n \in 0 .. 2 * WordBits, NEW i \in 0 .. 2 * WordBits - n
  PROVE  Bit(a \div 2 ^ n, i) = Bit(a, i + n)
<1>1. /\ n + i \in 0 .. 2 * WordBits /\ i \in 0 .. 2 * WordBits /\ n <= n + i
      /\ (n + i) - n = i /\ i + n = n + i
  BY WordFacts
<1>2. 2 ^ (n + i) = 2 ^ n * 2 ^ i
  BY <1>1, TwoOrder, Zenon
<1>3. 2 ^ n \in Nat \ {0} /\ 2 ^ i \in Nat \ {0}
  BY <1>1, TwoTo, Zenon
<1>4. a \div (2 ^ n * 2 ^ i) = (a \div 2 ^ n) \div 2 ^ i
  BY <1>3, DivProduct, Zenon
<1> QED BY <1>1, <1>2, <1>4, Zenon DEF Bit

LEMMA BitLow ==
  ASSUME NEW a \in Int, NEW n \in 0 .. 2 * WordBits, NEW i \in 0 .. 2 * WordBits
  PROVE  Bit(a % 2 ^ n, i) = IF i < n THEN Bit(a, i) ELSE 0
<1>0. 2 ^ n \in Nat \ {0} /\ 2 ^ i \in Nat \ {0}
  BY TwoTo, Zenon
<1>1. CASE i < n
  <2> DEFINE j == n - i - 1
  <2>1. /\ j \in 0 .. 2 * WordBits - 1 /\ n - i = j + 1 /\ i <= n
        /\ j \in 0 .. 2 * WordBits /\ i < n
    BY <1>1, WordFacts
  <2> HIDE DEF j
  <2>2. 2 ^ n = 2 ^ i * 2 ^ (n - i)
    BY <2>1, TwoOrder, Zenon
  <2>3. 2 ^ (n - i) = 2 * 2 ^ j
    BY <2>1, WordFacts, Zenon DEF Doubling
  <2> DEFINE m == 2 ^ i  h == 2 ^ j  p == 2 ^ n  q == a \div m
  <2>4. m \in Nat \ {0} /\ h \in Nat \ {0} /\ p = m * (2 * h)
    BY <2>1, <2>2, <2>3, TwoTo, Zenon
  <2> HIDE DEF m, h, p
  <2>5. 2 * h \in Nat \ {0} /\ q \in Int /\ 2 \in Nat \ {0}
    BY <2>4, DivMod
  <2>6. (a % (m * (2 * h))) \div m = q % (2 * h)
    BY <2>4, <2>5, DivProduct, Zenon
  <2> HIDE DEF q
  <2>7. (q % (2 * h)) % 2 = q % 2
    BY <2>4, <2>5, ModMod, Zenon
  <2>8. ((a % p) \div m) % 2 = q % 2
    BY <2>4, <2>6, <2>7, Zenon
  <2> QED BY <2>8, <1>1, Zenon DEF Bit, m, p, q
<1>2. CASE ~(i < n)
  <2>1. n <= i
    BY <1>2
  <2> DEFINE r == a % 2 ^ n  m == 2 ^ i  p == 2 ^ n
  <2>2. p <= m
    BY <2>1, TwoOrder, Zenon
  <2>3. m \in Nat \ {0} /\ p \in Nat \ {0} /\ r \in 0 .. p - 1
    BY <1>0, DivMod, Zenon
  <2> HIDE DEF m, p, r
  <2>4. r \in 0 .. m - 1 /\ m * 0 + r = r /\ 0 \in Int
    BY <2>2, <2>3
  <2>5. r \div m = 0
    BY <2>3, <2>4, DivModOf, Zenon
  <2>6. 0 % 2 = 0
    OBVIOUS
  <2> QED BY <2>5, <2>6, <1>2, Zenon DEF Bit, m, r
<1> QED BY <1>1, <1>2

LEMMA BitShl ==
  ASSUME NEW a \in Int, NEW n \in 0 .. 2 * WordBits, NEW i \in 0 .. 2 * WordBits
  PROVE  Bit(a * 2 ^ n, i) = IF i < n THEN 0 ELSE Bit(a, i - n)
<1>0. 2 ^ n \in Nat \ {0} /\ 2 ^ i \in Nat \ {0}
  BY TwoTo, Zenon
<1>1. CASE i < n
  <2> DEFINE j == n - i - 1
  <2>1. /\ j \in 0 .. 2 * WordBits - 1 /\ n - i = j + 1 /\ i <= n
        /\ j \in 0 .. 2 * WordBits /\ i < n
    BY <1>1, WordFacts
  <2> HIDE DEF j
  <2>2. 2 ^ n = 2 ^ i * 2 ^ (n - i)
    BY <2>1, TwoOrder, Zenon
  <2>3. 2 ^ (n - i) = 2 * 2 ^ j
    BY <2>1, WordFacts, Zenon DEF Doubling
  <2> DEFINE m == 2 ^ i  h == 2 ^ j  p == 2 ^ n
  <2>4. m \in Nat \ {0} /\ h \in Nat \ {0} /\ p = m * (2 * h)
    BY <2>1, <2>2, <2>3, TwoTo, Zenon
  <2> HIDE DEF m, h, p
  <2>5. a * p = m * (2 * (a * h)) + 0 /\ 2 * (a * h) \in Int /\ 0 \in 0 .. m - 1
    BY <2>4
  <2>6. (a * p) \div m = 2 * (a * h)
    BY <2>4, <2>5, DivModOf
  <2>7. (2 * (a * h)) % 2 = 0
    <3> DEFINE t == a * h
    <3>1. t \in Int
      BY <2>4
    <3> HIDE DEF t
    <3>2. (2 * t) % 2 = 0
      BY <3>1
    <3> QED BY <3>2 DEF t
  <2> QED BY <2>6, <2>7, <1>1, Zenon DEF Bit, m, p
<1>2. CASE ~(i < n)
  <2>1. n <= i
    BY <1>2
  <2>2. 2 ^ i = 2 ^ n * 2 ^ (i - n) /\ 2 ^ (i - n) \in Nat \ {0}
    BY <2>1, TwoOrder, Zenon
  <2> DEFINE p == 2 ^ n  h == 2 ^ (i - n)
  <2>3. p \in Nat \ {0} /\ h \in Nat \ {0} /\ 2 ^ i = p * h
    BY <2>2, <1>0, Zenon
  <2> HIDE DEF p, h
  <2>4. a * p \in Int /\ a * p = p * a + 0 /\ 0 \in 0 .. p - 1
    BY <2>3
  <2>5. (a * p) \div p = a
    BY <2>3, <2>4, DivModOf
  <2>6. (a * p) \div (p * h) = ((a * p) \div p) \div h
    BY <2>3, <2>4, DivProduct, Zenon
  <2>7. (a * p) \div 2 ^ i = a \div h
    BY <2>3, <2>5, <2>6, Zenon
  <2> QED BY <2>7, <1>2, Zenon DEF Bit, p, h
<1> QED BY <1>1, <1>2

LEMMA BitNot ==
  ASSUME NEW a \in Int, NEW i \in 0 .. 2 * WordBits
  PROVE  Bit(-1 - a, i) = 1 - Bit(a, i)
<1>1. 2 ^ i \in Nat \ {0} /\ a \div 2 ^ i \in Int
  BY TwoTo, BitIs
<1>2. (-1 - a) \div 2 ^ i = -1 - (a \div 2 ^ i)
  BY <1>1, DivNot
<1> DEFINE q == a \div 2 ^ i
<1>3. q \in Int
  BY <1>1
<1> HIDE DEF q
<1>4. (-1 - q) % 2 = 1 - (q % 2)
  BY <1>3
<1> QED BY <1>2, <1>4 DEF Bit, q

-----------------------------------------------------------------------------
(* The number a word stands for, and the word that a number is cast to      *)

\* One step of the sum.
Added(x, n, p) == p + (IF n - 1 \in x THEN 2 ^ (n - 1) ELSE 0)
SumsTo(s, x, n) ==
  s \in [0 .. n -> Nat] /\ s[0] = 0 /\ \A k \in 1 .. n : s[k] = Added(x, k, s[k - 1])

LEMMA AddedNat ==
  ASSUME NEW x, NEW n \in 1 .. WordBits, NEW p \in Nat
  PROVE  Added(x, n, p) \in Nat
<1>1. n - 1 \in 0 .. 2 * WordBits
  BY WordFacts
<1>2. 2 ^ (n - 1) \in Nat \ {0}
  BY <1>1, TwoTo, Zenon
<1> DEFINE t == 2 ^ (n - 1)
<1>3. Added(x, n, p) = p + (IF n - 1 \in x THEN t ELSE 0)
  BY DEF Added
<1>4. t \in Nat
  BY <1>2
<1> HIDE DEF t
<1> QED BY <1>3, <1>4

LEMMA SumExists ==
  ASSUME NEW x
  PROVE  \E s : SumsTo(s, x, WordBits)
<1> DEFINE Bad == {n \in 0 .. WordBits : ~\E s : SumsTo(s, x, n)}
<1>0. WordBits \in 0 .. WordBits
  BY WordFacts
<1> SUFFICES ASSUME Bad # {} PROVE FALSE
  BY <1>0, Zenon
<1>1. Bad \in SUBSET Nat
  BY WordFacts
<1>2. PICK b \in Bad : \A j \in Bad : b <= j
  BY <1>1, HasLeast, Zenon
<1>3. b \in 0 .. WordBits /\ ~\E s : SumsTo(s, x, b)
  BY Zenon
<1>4. b # 0
  <2> SUFFICES ASSUME b = 0 PROVE FALSE
    OBVIOUS
  <2>1. SumsTo([k \in 0 .. 0 |-> 0], x, 0)
    BY DEF SumsTo
  <2> QED BY <2>1, <1>3, Zenon
<1> DEFINE c == b - 1
<1>5. c \in 0 .. WordBits /\ c + 1 = b /\ ~(b <= c) /\ b \in 1 .. WordBits /\ b \in Nat
  BY <1>3, <1>4, WordFacts
<1>6. c \notin Bad
  BY <1>2, <1>5, Zenon
<1> HIDE DEF c
<1>7. PICK g : SumsTo(g, x, c)
  BY <1>5, <1>6, Zenon
<1> HIDE DEF Bad
<1> DEFINE h == [k \in 0 .. b |-> IF k = b THEN Added(x, b, g[c]) ELSE g[k]]
<1>8. g \in [0 .. c -> Nat] /\ g[0] = 0 /\ \A k \in 1 .. c : g[k] = Added(x, k, g[k - 1])
  BY <1>7, Zenon DEF SumsTo
<1>9. c \in 0 .. c /\ c \in Nat
  BY <1>5
<1>10. Added(x, b, g[c]) \in Nat
  <2>1. g[c] \in Nat
    BY <1>8, <1>9, Zenon
  <2> QED BY <2>1, <1>5, AddedNat, Zenon
<1>11. h \in [0 .. b -> Nat]
  <2> SUFFICES ASSUME NEW k \in 0 .. b
               PROVE  (IF k = b THEN Added(x, b, g[c]) ELSE g[k]) \in Nat
    OBVIOUS
  <2>1. k # b => k \in 0 .. c
    BY <1>5, <1>9
  <2> QED BY <2>1, <1>8, <1>10
<1>12. h[0] = 0
  BY <1>4, <1>5, <1>8
<1>13. \A k \in 1 .. b : h[k] = Added(x, k, h[k - 1])
  <2> SUFFICES ASSUME NEW k \in 1 .. b PROVE h[k] = Added(x, k, h[k - 1])
    OBVIOUS
  <2>1. /\ k \in 0 .. b /\ k - 1 \in 0 .. b /\ k - 1 # b
        /\ k # b => k \in 1 .. c
        /\ k = b => k - 1 = c
    BY <1>5, <1>9
  <2>2. h[k - 1] = g[k - 1]
    BY <2>1, Zenon
  <2>3. CASE k = b
    <3>1. h[k] = Added(x, b, g[c])
      BY <2>1, <2>3, Zenon
    <3> QED BY <2>1, <2>2, <2>3, <3>1, Zenon
  <2>4. CASE k # b
    <3>1. h[k] = g[k]
      BY <2>1, <2>4, Zenon
    <3> QED BY <2>1, <2>2, <2>4, <3>1, <1>8, Zenon
  <2> QED BY <2>3, <2>4, Zenon
<1> HIDE DEF h
<1>14. SumsTo(h, x, b)
  BY <1>11, <1>12, <1>13, Zenon DEF SumsTo
<1> QED BY <1>14, <1>3, Zenon

LEMMA NumSums ==
  ASSUME NEW x
  PROVE  \E s : SumsTo(s, x, WordBits) /\ B!Num(x) = s[WordBits]
<1> DEFINE F(s) == [n \in 0 .. WordBits |->
                      IF n = 0 THEN 0
                      ELSE s[n - 1] + (IF n - 1 \in x THEN 2 ^ (n - 1) ELSE 0)]
           t == CHOOSE s : s = F(s)
<1>1. PICK g : SumsTo(g, x, WordBits)
  BY SumExists, Zenon
<1>2. g = F(g)
  <2>1. g \in [0 .. WordBits -> Nat] /\ g[0] = 0
        /\ \A k \in 1 .. WordBits : g[k] = Added(x, k, g[k - 1])
    BY <1>1, Zenon DEF SumsTo
  <2>2. \A k \in 0 .. WordBits : g[k] = F(g)[k]
    <3> SUFFICES ASSUME NEW k \in 0 .. WordBits PROVE g[k] = F(g)[k]
      OBVIOUS
    <3>1. k # 0 => k \in 1 .. WordBits
      BY WordFacts
    <3> QED BY <2>1, <3>1, Zenon DEF Added
  <2> QED BY <2>1, <2>2
<1>3. t = F(t)
  <2>1. \E s : s = F(s)
    BY <1>2, Zenon
  <2> QED BY <2>1, Zenon
<1>4. B!Num(x) = t[WordBits]
  BY Zenon DEF B!Num
<1> HIDE DEF t
<1>5. t[0] = 0 /\ \A k \in 1 .. WordBits : t[k] = Added(x, k, t[k - 1])
  <2> DEFINE u == F(t)
  <2>1. t = u
    BY <1>3, Zenon
  <2>2. u[0] = 0
    BY WordFacts
  <2>3. \A k \in 1 .. WordBits : u[k] = Added(x, k, t[k - 1])
    <3> SUFFICES ASSUME NEW k \in 1 .. WordBits PROVE u[k] = Added(x, k, t[k - 1])
      OBVIOUS
    <3>1. k \in 0 .. WordBits /\ k # 0
      BY WordFacts
    <3> QED BY <3>1, Zenon DEF Added
  <2> HIDE DEF u
  <2> QED BY <2>1, <2>2, <2>3, Zenon
<1>6. \A k \in 0 .. WordBits : t[k] = g[k]
  <2> DEFINE Bad == {k \in 0 .. WordBits : t[k] # g[k]}
  <2> SUFFICES ASSUME Bad # {} PROVE FALSE
    BY Zenon
  <2>1. Bad \in SUBSET Nat
    BY WordFacts
  <2>2. PICK b \in Bad : \A j \in Bad : b <= j
    BY <2>1, HasLeast, Zenon
  <2>3. b \in 0 .. WordBits /\ t[b] # g[b]
    BY Zenon
  <2>4. b # 0
    BY <2>3, <1>5, <1>1, Zenon DEF SumsTo
  <2>5. b \in 1 .. WordBits /\ b - 1 \in 0 .. WordBits /\ ~(b <= b - 1)
    BY <2>3, <2>4, WordFacts
  <2>6. t[b - 1] = g[b - 1]
    BY <2>2, <2>5, Zenon
  <2>7. t[b] = Added(x, b, t[b - 1]) /\ g[b] = Added(x, b, g[b - 1])
    BY <2>5, <1>5, <1>1, Zenon DEF SumsTo
  <2> QED BY <2>3, <2>6, <2>7, Zenon
<1>7. WordBits \in 0 .. WordBits
  BY WordFacts
<1> QED BY <1>1, <1>4, <1>6, <1>7, Zenon

\* The sum of the lowest k positions stays below 2^k.
LEMMA SumBelow ==
  ASSUME NEW x, NEW s, SumsTo(s, x, WordBits), NEW k \in 0 .. WordBits
  PROVE  s[k] \in 0 .. 2 ^ k - 1
<1> DEFINE Bad == {j \in 0 .. WordBits : s[j] \notin 0 .. 2 ^ j - 1}
<1> SUFFICES ASSUME Bad # {} PROVE FALSE
  BY Zenon
<1>1. Bad \in SUBSET Nat
  BY WordFacts
<1>2. PICK b \in Bad : \A j \in Bad : b <= j
  BY <1>1, HasLeast, Zenon
<1>3. b \in 0 .. WordBits /\ s[b] \notin 0 .. 2 ^ b - 1
  BY Zenon
<1>4. s[0] = 0 /\ \A j \in 1 .. WordBits : s[j] = Added(x, j, s[j - 1])
  BY Zenon DEF SumsTo
<1>5. b # 0
  <2>1. 0 \in 0 .. 2 ^ 0 - 1
    OBVIOUS
  <2> QED BY <1>3, <1>4, <2>1, Zenon
<1> DEFINE c == b - 1
<1>6. /\ b \in 1 .. WordBits /\ c \in 0 .. WordBits /\ ~(b <= c) /\ c = b - 1
      /\ c \in 0 .. 2 * WordBits - 1 /\ c \in 0 .. 2 * WordBits /\ c + 1 = b
  BY <1>3, <1>5, WordFacts
<1>7. c \notin Bad
  BY <1>2, <1>6, Zenon
<1> HIDE DEF c
<1> DEFINE p == 2 ^ c  q == 2 ^ b
<1>8. s[c] \in 0 .. p - 1
  BY <1>6, <1>7, Zenon
<1>9. p \in Nat \ {0} /\ q = 2 * p
  BY <1>6, TwoTo, WordFacts, Zenon DEF Doubling
<1>10. s[b] = s[c] + (IF c \in x THEN p ELSE 0)
  BY <1>4, <1>6, Zenon DEF Added
<1>11. s[b] \notin 0 .. q - 1
  BY <1>3, Zenon
<1> HIDE DEF p, q, Bad
<1> QED BY <1>8, <1>9, <1>10, <1>11

LEMMA NumRange ==
  ASSUME NEW x
  PROVE  B!Num(x) \in 0 .. 2 ^ WordBits - 1
<1>1. PICK s : SumsTo(s, x, WordBits) /\ B!Num(x) = s[WordBits]
  BY NumSums, Zenon
<1>2. WordBits \in 0 .. WordBits
  BY WordFacts
<1>3. s[WordBits] \in 0 .. 2 ^ WordBits - 1
  BY <1>1, <1>2, SumBelow, Zenon
<1> QED BY <1>1, <1>3, Zenon

\* It is what is left of the number by the power at k.
LEMMA SumIsRest ==
  ASSUME NEW x, NEW s, SumsTo(s, x, WordBits), NEW k \in 0 .. WordBits
  PROVE  s[WordBits] % 2 ^ k = s[k]
<1> DEFINE m == s[WordBits]
           Bad == {j \in 0 .. WordBits : m % 2 ^ (WordBits - j) # s[WordBits - j]}
<1>0. m \in Nat /\ WordBits \in 0 .. WordBits /\ m \in 0 .. 2 ^ WordBits - 1
  <2>1. WordBits \in 0 .. WordBits
    BY WordFacts
  <2>2. m \in 0 .. 2 ^ WordBits - 1
    BY <2>1, SumBelow, Zenon
  <2>3. s \in [0 .. WordBits -> Nat]
    BY Zenon DEF SumsTo
  <2> QED BY <2>1, <2>2, <2>3, Zenon
<1>1. SUFFICES ASSUME Bad # {} PROVE FALSE
  <2>1. Bad = {}
    BY <1>1, Zenon
  <2>2. WordBits - k \in 0 .. WordBits /\ WordBits - (WordBits - k) = k
    BY WordFacts
  <2>3. m % 2 ^ (WordBits - (WordBits - k)) = s[WordBits - (WordBits - k)]
    BY <2>1, <2>2, Zenon
  <2> QED BY <2>2, <2>3, Zenon
<1>2. Bad \in SUBSET Nat
  BY WordFacts
<1>3. PICK b \in Bad : \A j \in Bad : b <= j
  BY <1>1, <1>2, HasLeast, Zenon
<1>4. b \in 0 .. WordBits /\ m % 2 ^ (WordBits - b) # s[WordBits - b]
  BY Zenon
<1>5. b # 0
  <2>1. WordBits - 0 = WordBits /\ WordBits \in 0 .. 2 * WordBits
    BY WordFacts
  <2>2. 2 ^ WordBits \in Nat \ {0}
    BY <2>1, TwoTo, Zenon
  <2> DEFINE t == 2 ^ WordBits
  <2>3. t \in Nat \ {0} /\ m \in 0 .. t - 1
    BY <2>2, <1>0, Zenon
  <2> HIDE DEF t, m
  <2>4. m \in Nat /\ m < t
    BY <2>3
  <2>5. m % t = m
    BY <2>3, <2>4, ModSmall, Zenon
  <2> QED BY <2>1, <2>5, <1>4, Zenon DEF t, m
<1> DEFINE e == WordBits - b
<1>6. /\ b - 1 \in 0 .. WordBits /\ ~(b <= b - 1) /\ WordBits - (b - 1) = e + 1
      /\ e \in 0 .. 2 * WordBits - 1 /\ e \in 0 .. 2 * WordBits /\ e \in 0 .. WordBits
      /\ e + 1 \in 1 .. WordBits /\ (e + 1) - 1 = e
  BY <1>4, <1>5, WordFacts
<1>7. b - 1 \notin Bad
  BY <1>3, <1>6, Zenon
<1> DEFINE p == 2 ^ e
<1>8. m % 2 ^ (e + 1) = s[e + 1]
  BY <1>6, <1>7, Zenon
<1>9. s[e + 1] = s[e] + (IF e \in x THEN p ELSE 0)
  BY <1>6, Zenon DEF SumsTo, Added
<1>10. s[e] \in 0 .. p - 1
  BY <1>6, SumBelow, Zenon
<1>11. p \in Nat \ {0} /\ 2 ^ (e + 1) = 2 * p
  BY <1>6, TwoTo, WordFacts, Zenon DEF Doubling
<1>12. m % p # s[e]
  BY <1>4, Zenon
<1> HIDE DEF p, e, m, Bad
<1>13. m \in Int /\ p * 2 = 2 * p /\ 2 \in Nat \ {0}
  BY <1>0, <1>11
<1>14. (m % (p * 2)) % p = m % p
  BY <1>11, <1>13, ModMod, Zenon
<1>15. s[e + 1] % p = m % p
  BY <1>8, <1>11, <1>13, <1>14, Zenon
<1>16. s[e + 1] % p = s[e]
  <2>1. CASE e \in x
    <3>1. s[e + 1] = p * 1 + s[e] /\ 1 \in Int
      BY <1>9, <1>10, <1>11, <2>1
    <3> QED BY <3>1, <1>10, <1>11, DivModOf, Zenon
  <2>2. CASE e \notin x
    <3>1. s[e + 1] = p * 0 + s[e] /\ 0 \in Int
      BY <1>9, <1>10, <1>11, <2>2
    <3> QED BY <3>1, <1>10, <1>11, DivModOf, Zenon
  <2> QED BY <2>1, <2>2
<1> QED BY <1>12, <1>15, <1>16, Zenon

LEMMA BitOfNum ==
  ASSUME NEW x, NEW i \in Positions
  PROVE  Bit(B!Num(x), i) = 1 <=> i \in x
<1>1. PICK s : SumsTo(s, x, WordBits) /\ B!Num(x) = s[WordBits]
  BY NumSums, Zenon
<1>2. /\ i \in 0 .. WordBits /\ i + 1 \in 1 .. WordBits /\ i + 1 \in 0 .. WordBits
      /\ i \in 0 .. 2 * WordBits /\ i \in 0 .. 2 * WordBits - 1 /\ (i + 1) - 1 = i
  BY WordFacts DEF Positions
<1> DEFINE m == B!Num(x)  p == 2 ^ i
<1>3. m % 2 ^ i = s[i] /\ m % 2 ^ (i + 1) = s[i + 1]
  BY <1>1, <1>2, SumIsRest, Zenon
<1>4. p \in Nat \ {0} /\ 2 ^ (i + 1) = 2 * p
  BY <1>2, TwoTo, WordFacts, Zenon DEF Doubling
<1>5. s[i + 1] = s[i] + (IF i \in x THEN p ELSE 0)
  BY <1>1, <1>2, Zenon DEF SumsTo, Added
<1>6. s[i] \in Nat
  BY <1>1, <1>2, Zenon DEF SumsTo
<1>7. m \in Int
  <2>1. m \in 0 .. 2 ^ WordBits - 1
    BY NumRange, Zenon
  <2> HIDE DEF m
  <2> QED BY <2>1
<1>8. p * 2 = 2 * p /\ 2 \in Nat \ {0}
  BY <1>4
<1>9. m % (p * 2) = p * ((m \div p) % 2) + (m % p)
  BY <1>4, <1>7, <1>8, DivProduct, Zenon
<1> DEFINE b == (m \div p) % 2
<1>10. b \in {0, 1}
  BY <1>2, <1>7, BitIs, Zenon DEF Bit
<1>11. s[i + 1] = p * b + s[i]
  BY <1>3, <1>4, <1>8, <1>9, Zenon
<1>12. Bit(m, i) = b
  BY Zenon DEF Bit
<1> HIDE DEF b, p, m
<1>13. b = 1 <=> i \in x
  <2>1. CASE b = 0
    <3>1. p * b = 0
      BY <1>4, <2>1
    <3> QED BY <3>1, <1>4, <1>5, <1>6, <1>11, <2>1
  <2>2. CASE b = 1
    <3>1. p * b = p
      BY <1>4, <2>2
    <3> QED BY <3>1, <1>4, <1>5, <1>6, <1>11, <2>2
  <2> QED BY <1>10, <2>1, <2>2
<1> QED BY <1>12, <1>13, Zenon DEF m

\* Numbers with the same bits are the same by the power at the next position.
LEMMA SameBits ==
  ASSUME NEW a \in Int, NEW b \in Int,
         \A i \in Positions : Bit(a, i) = Bit(b, i)
  PROVE  a % 2 ^ WordBits = b % 2 ^ WordBits
<1> DEFINE Bad == {k \in 0 .. WordBits : a % 2 ^ k # b % 2 ^ k}
<1>0. WordBits \in 0 .. WordBits
  BY WordFacts
<1> SUFFICES ASSUME Bad # {} PROVE FALSE
  BY <1>0, Zenon
<1>1. Bad \in SUBSET Nat
  BY WordFacts
<1>2. PICK e \in Bad : \A j \in Bad : e <= j
  BY <1>1, HasLeast, Zenon
<1>3. e \in 0 .. WordBits /\ a % 2 ^ e # b % 2 ^ e
  BY Zenon
<1>4. e # 0
  <2>1. 2 ^ 0 = 1 /\ a % 1 = 0 /\ b % 1 = 0
    OBVIOUS
  <2> QED BY <2>1, <1>3, Zenon
<1> DEFINE c == e - 1
<1>5. /\ c \in 0 .. WordBits /\ ~(e <= c) /\ c \in 0 .. 2 * WordBits - 1
      /\ c \in 0 .. 2 * WordBits /\ c + 1 = e /\ c \in 0 .. WordBits - 1
  BY <1>3, <1>4, WordFacts
<1>6. c \notin Bad
  BY <1>2, <1>5, Zenon
<1> HIDE DEF c
<1> DEFINE p == 2 ^ c
<1>7. a % p = b % p /\ (a \div p) % 2 = (b \div p) % 2
  BY <1>5, <1>6, Zenon DEF Bit, Positions
<1>8. p \in Nat \ {0} /\ 2 ^ e = 2 * p
  BY <1>5, TwoTo, WordFacts, Zenon DEF Doubling
<1> HIDE DEF p, Bad
<1>9. p * 2 = 2 * p /\ 2 \in Nat \ {0}
  BY <1>8
<1>10. /\ a % (p * 2) = p * ((a \div p) % 2) + (a % p)
       /\ b % (p * 2) = p * ((b \div p) % 2) + (b % p)
  BY <1>8, <1>9, DivProduct, Zenon
<1> QED BY <1>3, <1>7, <1>8, <1>9, <1>10, Zenon

\* A word whose bits are those of a number.
LEMMA WordIs ==
  ASSUME NEW x \in SUBSET Positions, NEW a \in Int,
         \A i \in Positions : i \in x <=> Bit(a, i) = 1
  PROVE  B!Num(x) = a % 2 ^ WordBits /\ x = B!Cast(a)
<1> DEFINE v == B!Num(x)  t == 2 ^ WordBits
<1>0. v \in 0 .. t - 1 /\ WordBits \in 0 .. 2 * WordBits
  BY NumRange, WordFacts
<1>1. t \in Nat \ {0}
  BY <1>0, TwoTo, Zenon
<1>2. \A i \in Positions : Bit(v, i) = 1 <=> i \in x
  BY BitOfNum, Zenon
<1> HIDE DEF v
<1>3. v \in Int
  BY <1>0, <1>1
<1>4. \A i \in Positions : Bit(v, i) = Bit(a, i)
  <2> SUFFICES ASSUME NEW i \in Positions PROVE Bit(v, i) = Bit(a, i)
    OBVIOUS
  <2>1. i \in 0 .. 2 * WordBits
    BY WordFacts DEF Positions
  <2>2. Bit(v, i) \in {0, 1} /\ Bit(a, i) \in {0, 1}
    BY <2>1, <1>3, BitIs, Zenon
  <2>3. Bit(v, i) = 1 <=> Bit(a, i) = 1
    BY <1>2, Zenon
  <2> QED BY <2>2, <2>3
<1>5. v % t = a % t
  BY <1>3, <1>4, SameBits, Zenon
<1> HIDE DEF t
<1>6. v \in Nat /\ v < t
  BY <1>0, <1>1
<1>7. v % t = v
  BY <1>1, <1>6, ModSmall, Zenon
<1>8. x = B!Cast(a)
  <2>1. \A i : i \in x <=> (i \in B!Pos /\ (a \div 2 ^ i) % 2 = 1)
    BY WordFacts, Zenon DEF Bit
  <2> QED BY <2>1 DEF B!Cast
<1> QED BY <1>5, <1>7, <1>8, Zenon DEF v, t

LEMMA InCast ==
  ASSUME NEW a, NEW i
  PROVE  i \in B!Cast(a) <=> i \in Positions /\ Bit(a, i) = 1
BY WordFacts DEF B!Cast, Bit

LEMMA CastIsWord ==
  ASSUME NEW a \in Int
  PROVE  B!Cast(a) \in SUBSET Positions /\ B!Num(B!Cast(a)) = a % 2 ^ WordBits
<1>1. B!Cast(a) \in SUBSET Positions
  BY InCast, Zenon
<1>2. \A i \in Positions : i \in B!Cast(a) <=> Bit(a, i) = 1
  BY InCast, Zenon
<1> QED BY <1>1, <1>2, WordIs, Zenon

LEMMA CastOfNum ==
  ASSUME NEW x \in SUBSET Positions
  PROVE  B!Cast(B!Num(x)) = x
<1>1. \A i : i \in B!Cast(B!Num(x)) <=> i \in Positions /\ i \in x
  BY InCast, BitOfNum, Zenon
<1> QED BY <1>1

-----------------------------------------------------------------------------
(* What shifts, masks and complements do to the number                      *)

Words == SUBSET Positions
Pow == 2 ^ WordBits

LEMMA PowFacts ==
  /\ Pow \in Nat \ {0}
  /\ \A n \in 0 .. WordBits : 2 ^ n \in Nat \ {0} /\ 2 ^ n <= Pow
  /\ \A n \in Positions : 2 ^ n < Pow
<1>1. \A n \in 0 .. WordBits : n \in 0 .. 2 * WordBits /\ n <= WordBits
  BY WordFacts
<1>2. \A n \in Positions : n \in 0 .. 2 * WordBits /\ n < WordBits
  BY WordFacts DEF Positions
<1>3. WordBits \in 0 .. 2 * WordBits
  BY WordFacts
<1>4. Pow \in Nat \ {0}
  BY <1>3, TwoTo, Zenon DEF Pow
<1>5. \A n \in 0 .. WordBits : 2 ^ n \in Nat \ {0} /\ 2 ^ n <= Pow
  BY <1>1, <1>3, TwoTo, TwoOrder, Zenon DEF Pow
<1>6. \A n \in Positions : 2 ^ n < Pow
  BY <1>2, <1>3, TwoOrder, Zenon DEF Pow
<1> QED BY <1>4, <1>5, <1>6, Zenon

LEMMA NumNat ==
  ASSUME NEW x
  PROVE  B!Num(x) \in 0 .. Pow - 1 /\ B!Num(x) \in Nat /\ B!Num(x) \in Int
         /\ B!Num(x) < Pow /\ B!Num(x) % Pow = B!Num(x)
<1> DEFINE v == B!Num(x)
<1>1. v \in 0 .. Pow - 1
  BY NumRange, Zenon DEF Pow
<1> HIDE DEF v
<1>2. v \in Nat /\ v < Pow /\ v \in Int
  BY <1>1, PowFacts
<1>3. v % Pow = v
  BY <1>2, PowFacts, ModSmall, Zenon
<1> QED BY <1>1, <1>2, <1>3, Zenon DEF v

\* The number is below Pow: it has no bits above those of the word.
LEMMA BitOfWord ==
  ASSUME NEW x \in Words, NEW i \in 0 .. 2 * WordBits
  PROVE  Bit(B!Num(x), i) = 1 <=> i \in x
<1>1. CASE i \in Positions
  BY <1>1, BitOfNum, Zenon
<1>2. CASE i \notin Positions
  <2>1. WordBits \in 0 .. 2 * WordBits /\ ~(i < WordBits)
    BY <1>2, WordFacts DEF Positions
  <2>2. Bit(B!Num(x) % 2 ^ WordBits, i) = 0
    BY <2>1, NumNat, BitLow, Zenon
  <2>3. Bit(B!Num(x), i) = 0
    BY <2>2, NumNat, Zenon DEF Pow
  <2>4. i \notin x
    BY <1>2, Zenon DEF Words
  <2>5. 0 # 1
    OBVIOUS
  <2> QED BY <2>3, <2>4, <2>5, Zenon
<1> QED BY <1>1, <1>2, Zenon

LEMMA ShiftsAreWords ==
  ASSUME NEW x, NEW n
  PROVE  B!Shl(x, n) \in Words /\ B!Shr(x, n) \in Words
BY WordFacts DEF B!Shl, B!Shr, Words

LEMMA InShiftLeft ==
  ASSUME NEW x, NEW n, NEW i
  PROVE  /\ i \in B!Shl(x, n) <=> i \in Positions /\ i - n \in x
         /\ i \in B!Shr(x, n) <=> i \in Positions /\ i + n \in x
BY WordFacts DEF B!Shl, B!Shr

LEMMA NoneShifted ==
  ASSUME NEW n
  PROVE  B!Shl({}, n) = {} /\ B!Shr({}, n) = {}
<1>1. \A i : i \notin B!Shl({}, n) /\ i \notin B!Shr({}, n)
  BY InShiftLeft
<1> QED BY <1>1

LEMMA NumShr ==
  ASSUME NEW x \in Words, NEW n \in 0 .. WordBits
  PROVE  B!Num(B!Shr(x, n)) = B!Num(x) \div 2 ^ n
<1> DEFINE v == B!Num(x)  p == 2 ^ n
<1>0. v \in Nat /\ v < Pow /\ v \in Int /\ p \in Nat \ {0} /\ n \in 0 .. 2 * WordBits
  <2>1. n \in 0 .. 2 * WordBits
    BY WordFacts
  <2> QED BY <2>1, NumNat, PowFacts, Zenon
<1>1. \A i \in Positions : i \in B!Shr(x, n) <=> Bit(v \div p, i) = 1
  <2> SUFFICES ASSUME NEW i \in Positions
               PROVE  i \in B!Shr(x, n) <=> Bit(v \div p, i) = 1
    OBVIOUS
  <2>1. /\ i + n \in 0 .. 2 * WordBits /\ i \in 0 .. 2 * WordBits - n
        /\ n \in 0 .. 2 * WordBits
    BY WordFacts DEF Positions
  <2>2. Bit(v \div p, i) = Bit(v, i + n)
    BY <2>1, <1>0, BitShr, Zenon
  <2>3. Bit(v, i + n) = 1 <=> i + n \in x
    BY <2>1, BitOfWord, Zenon
  <2> QED BY <2>2, <2>3, InShiftLeft, Zenon
<1> HIDE DEF v, p
<1> DEFINE q == v \div p
<1>2. q \in Nat /\ q <= v
  BY <1>0, DivBelow, Zenon
<1> HIDE DEF q
<1>3. q \in Int /\ q < Pow
  BY <1>0, <1>2, PowFacts
<1>4. B!Num(B!Shr(x, n)) = q % Pow
  BY <1>1, <1>3, ShiftsAreWords, WordIs, Zenon DEF q, Pow, Words
<1>5. q % Pow = q
  BY <1>2, <1>3, PowFacts, ModSmall, Zenon
<1> QED BY <1>4, <1>5, Zenon DEF q, v, p

LEMMA NumShl ==
  ASSUME NEW x \in Words, NEW n \in 0 .. WordBits
  PROVE  B!Num(B!Shl(x, n)) = (B!Num(x) * 2 ^ n) % Pow
<1> DEFINE v == B!Num(x)  p == 2 ^ n
<1>0. v \in Nat /\ v \in Int /\ p \in Nat \ {0} /\ n \in 0 .. 2 * WordBits
  <2>1. n \in 0 .. 2 * WordBits
    BY WordFacts
  <2> QED BY <2>1, NumNat, PowFacts, Zenon
<1>1. \A i \in Positions : i \in B!Shl(x, n) <=> Bit(v * p, i) = 1
  <2> SUFFICES ASSUME NEW i \in Positions
               PROVE  i \in B!Shl(x, n) <=> Bit(v * p, i) = 1
    OBVIOUS
  <2>1. i \in 0 .. 2 * WordBits
    BY WordFacts DEF Positions
  <2>2. Bit(v * p, i) = IF i < n THEN 0 ELSE Bit(v, i - n)
    BY <2>1, <1>0, BitShl, Zenon
  <2>3. CASE i < n
    <3>1. i - n \notin Positions
      BY <2>3 DEF Positions
    <3>2. i \notin B!Shl(x, n)
      BY <3>1, InShiftLeft, Zenon DEF Words
    <3>3. 0 # 1
      OBVIOUS
    <3> QED BY <2>2, <2>3, <3>2, <3>3, Zenon
  <2>4. CASE ~(i < n)
    <3>1. i - n \in 0 .. 2 * WordBits
      BY <2>1, <2>4, WordFacts
    <3>2. Bit(v, i - n) = 1 <=> i - n \in x
      BY <3>1, BitOfWord, Zenon
    <3> QED BY <2>2, <2>4, <3>2, InShiftLeft, Zenon
  <2> QED BY <2>3, <2>4, Zenon
<1> HIDE DEF v, p
<1>2. v * p \in Int
  BY <1>0
<1> QED BY <1>1, <1>2, ShiftsAreWords, WordIs, Zenon DEF Pow, Words, v, p

LEMMA NumLow ==
  ASSUME NEW x \in Words, NEW n \in 0 .. WordBits
  PROVE  B!Num(x \cap (0 .. n - 1)) = B!Num(x) % 2 ^ n
<1> DEFINE v == B!Num(x)  p == 2 ^ n  y == x \cap (0 .. n - 1)  r == v % p
<1>0. v \in Int /\ p \in Nat \ {0} /\ n \in 0 .. 2 * WordBits /\ p <= Pow
  <2>1. n \in 0 .. 2 * WordBits
    BY WordFacts
  <2> QED BY <2>1, NumNat, PowFacts, Zenon
<1>1. y \in Words
  BY DEF Words
<1>2. \A i \in Positions : i \in y <=> Bit(r, i) = 1
  <2> SUFFICES ASSUME NEW i \in Positions
               PROVE  i \in y <=> Bit(r, i) = 1
    OBVIOUS
  <2>1. i \in 0 .. 2 * WordBits /\ (i \in 0 .. n - 1 <=> i < n)
    BY WordFacts DEF Positions
  <2>2. Bit(r, i) = IF i < n THEN Bit(v, i) ELSE 0
    BY <2>1, <1>0, BitLow, Zenon
  <2>3. Bit(v, i) = 1 <=> i \in x
    BY BitOfNum, Zenon
  <2>4. 0 # 1
    OBVIOUS
  <2>5. i \in y <=> i \in x /\ i < n
    BY <2>1, Zenon
  <2> HIDE DEF y, r, v
  <2> QED BY <2>2, <2>3, <2>4, <2>5, Zenon
<1> HIDE DEF v, p, y
<1>3. r \in 0 .. p - 1
  BY <1>0, DivMod, Zenon
<1> HIDE DEF r
<1>4. r \in Nat /\ r < Pow /\ r \in Int
  BY <1>0, <1>3, PowFacts
<1>5. B!Num(y) = r % Pow
  BY <1>1, <1>2, <1>4, WordIs, Zenon DEF Pow, Words
<1>6. r % Pow = r
  BY <1>4, PowFacts, ModSmall, Zenon
<1> QED BY <1>5, <1>6, Zenon DEF v, p, y, r

LEMMA NumHigh ==
  ASSUME NEW x \in Words, NEW n \in 0 .. WordBits
  PROVE  B!Num(x \ (0 .. n - 1)) = B!Num(x) - (B!Num(x) % 2 ^ n)
<1> DEFINE v == B!Num(x)  p == 2 ^ n  y == x \ (0 .. n - 1)  q == v \div p  r == v % p
<1>0. v \in Int /\ p \in Nat \ {0} /\ n \in 0 .. 2 * WordBits /\ v \in 0 .. Pow - 1
  <2>1. n \in 0 .. 2 * WordBits
    BY WordFacts
  <2> QED BY <2>1, NumNat, PowFacts, Zenon
<1>1. y \in Words
  BY DEF Words
<1>2. q \in Int /\ q \in Nat /\ r \in 0 .. p - 1 /\ v = p * q + r
  <2>1. v \in Nat
    BY NumNat, Zenon
  <2> HIDE DEF v, p
  <2>2. q \in Nat
    BY <1>0, <2>1, DivBelow, Zenon
  <2>3. v = p * q + r /\ q \in Int /\ r \in 0 .. p - 1
    BY <1>0, DivMod, Zenon
  <2> QED BY <2>2, <2>3, Zenon
<1>3. \A i \in Positions : i \in y <=> Bit(q * p, i) = 1
  <2> SUFFICES ASSUME NEW i \in Positions
               PROVE  i \in y <=> Bit(q * p, i) = 1
    OBVIOUS
  <2>1. i \in 0 .. 2 * WordBits /\ (i \in 0 .. n - 1 <=> i < n) /\ i \in Int /\ n \in Int
    BY WordFacts DEF Positions
  <2>2. Bit(q * p, i) = IF i < n THEN 0 ELSE Bit(q, i - n)
    BY <2>1, <1>0, <1>2, BitShl, Zenon
  <2>3. ~(i < n) => Bit(q, i - n) = Bit(v, i)
    <3> SUFFICES ASSUME ~(i < n) PROVE Bit(q, i - n) = Bit(v, i)
      OBVIOUS
    <3>1. i - n \in 0 .. 2 * WordBits - n /\ (i - n) + n = i
      BY <2>1, WordFacts
    <3>2. Bit(q, i - n) = Bit(v, (i - n) + n)
      BY <1>0, <3>1, BitShr, Zenon
    <3> QED BY <3>1, <3>2, Zenon
  <2>4. Bit(v, i) = 1 <=> i \in x
    BY BitOfNum, Zenon
  <2>5. 0 # 1
    OBVIOUS
  <2>6. i \in y <=> i \in x /\ ~(i < n)
    BY <2>1, Zenon
  <2> HIDE DEF y, q, v, p
  <2> QED BY <2>2, <2>3, <2>4, <2>5, <2>6, Zenon
<1> HIDE DEF v, p, y, q, r
<1> DEFINE w == q * p
<1>4. w \in Nat /\ w = v - r /\ w < Pow /\ w \in Int
  BY <1>0, <1>2, PowFacts
<1>5. \A i \in Positions : i \in y <=> Bit(w, i) = 1
  BY <1>3, Zenon
<1> HIDE DEF w
<1>6. B!Num(y) = w % Pow
  BY <1>1, <1>4, <1>5, WordIs, Zenon DEF Pow, Words
<1>7. w % Pow = w
  BY <1>4, PowFacts, ModSmall, Zenon
<1> QED BY <1>4, <1>6, <1>7, Zenon DEF v, p, y, r

LEMMA NumNot ==
  ASSUME NEW x \in Words
  PROVE  B!Num(Positions \ x) = Pow - 1 - B!Num(x)
         /\ Positions \ x = B!Cast(-1 - B!Num(x))
<1> DEFINE v == B!Num(x)  y == Positions \ x
<1>0. v \in Int /\ v \in 0 .. Pow - 1
  BY NumNat, Zenon
<1>1. \A i \in Positions : i \in y <=> Bit(-1 - v, i) = 1
  <2> SUFFICES ASSUME NEW i \in Positions
               PROVE  i \in y <=> Bit(-1 - v, i) = 1
    OBVIOUS
  <2>1. i \in 0 .. 2 * WordBits
    BY WordFacts DEF Positions
  <2>2. Bit(-1 - v, i) = 1 - Bit(v, i) /\ Bit(v, i) \in {0, 1}
    BY <2>1, <1>0, BitNot, BitIs
  <2>3. Bit(v, i) = 1 <=> i \in x
    BY BitOfNum, Zenon
  <2>4. i \in y <=> i \notin x
    BY Zenon
  <2> HIDE DEF y, v
  <2> QED BY <2>2, <2>3, <2>4
<1>2. y \in SUBSET Positions
  OBVIOUS
<1> HIDE DEF v, y
<1>3. -1 - v \in Int
  BY <1>0
<1>4. B!Num(y) = (-1 - v) % Pow /\ y = B!Cast(-1 - v)
  BY <1>1, <1>2, <1>3, WordIs, Zenon DEF Pow
<1>5. (-1 - v) % Pow = Pow - 1 - v
  <2>1. -1 - v = Pow * (-1) + (Pow - 1 - v) /\ Pow - 1 - v \in 0 .. Pow - 1 /\ -1 \in Int
    BY <1>0, PowFacts
  <2> QED BY <2>1, PowFacts, DivModOf
<1> QED BY <1>4, <1>5, Zenon DEF v, y

-----------------------------------------------------------------------------
(* Particular words: none, all, one bit, the lowest bits                    *)

LEMMA BitOfZeroOne ==
  ASSUME NEW i \in 0 .. 2 * WordBits
  PROVE  /\ Bit(0, i) = 0 /\ Bit(-1, i) = 1
         /\ Bit(1, i) = IF i = 0 THEN 1 ELSE 0
<1>1. 2 ^ 0 = 1 /\ 0 % 1 = 0 /\ ~(i < 0) /\ 0 \in 0 .. 2 * WordBits
  BY WordFacts
<1>2. Bit(0 % 2 ^ 0, i) = IF i < 0 THEN Bit(0, i) ELSE 0
  BY <1>1, 0 \in Int, BitLow, Zenon
<1>3. Bit(0, i) = 0
  BY <1>1, <1>2, Zenon
<1>4. Bit(-1 - 0, i) = 1 - Bit(0, i)
  BY 0 \in Int, BitNot, Zenon
<1>5. -1 - 0 = -1 /\ 1 - 0 = 1
  OBVIOUS
<1>6. Bit(1, i) = IF i = 0 THEN 1 ELSE 0
  <2>1. 1 \in 0 .. 2 * WordBits /\ 1 \in Int
    BY WordFacts
  <2>2. Bit(1 % 2 ^ 1, i) = IF i < 1 THEN Bit(1, i) ELSE 0
    BY <2>1, BitLow, Zenon
  <2>3. 2 ^ 1 = 2 /\ 1 % 2 = 1 /\ (i < 1 <=> i = 0)
    BY <1>1
  <2>4. Bit(1, 0) = 1
    <3>1. 1 \div 1 = 1
      OBVIOUS
    <3> QED BY <3>1, <2>3, <1>1, Zenon DEF Bit
  <2> QED BY <2>2, <2>3, <2>4, Zenon
<1> QED BY <1>3, <1>4, <1>5, <1>6, Zenon

\* Numbers that leave the same remainder are cast to the same word.
LEMMA CastSame ==
  ASSUME NEW a \in Int, NEW b \in Int, a % Pow = b % Pow
  PROVE  B!Cast(a) = B!Cast(b)
<1>1. B!Num(B!Cast(a)) = B!Num(B!Cast(b))
  BY CastIsWord, Zenon DEF Pow
<1>2. B!Cast(a) \in SUBSET Positions /\ B!Cast(b) \in SUBSET Positions
  BY CastIsWord, Zenon
<1> QED BY <1>1, <1>2, CastOfNum, Zenon

\* Words with the same number are the same.
LEMMA SameNum ==
  ASSUME NEW x \in Words, NEW y \in Words, B!Num(x) = B!Num(y)
  PROVE  x = y
BY CastOfNum, Zenon DEF Words

\* A cast keeps the numbers that have room in a word.
LEMMA NumOfCast ==
  ASSUME NEW a \in 0 .. Pow - 1
  PROVE  B!Cast(a) \in Words /\ B!Num(B!Cast(a)) = a
<1>1. a \in Nat /\ a < Pow /\ a \in Int
  BY PowFacts
<1>2. a % Pow = a
  BY <1>1, PowFacts, ModSmall, Zenon
<1> QED BY <1>1, <1>2, CastIsWord, Zenon DEF Words, Pow

LEMMA Constants ==
  /\ B!Zero = {} /\ B!One = {0} /\ {} \in Words /\ {0} \in Words /\ Positions \in Words
  /\ B!Num({}) = 0 /\ B!Num({0}) = 1 /\ B!Num(Positions) = Pow - 1
  /\ B!Cast(0) = {} /\ B!Cast(1) = {0} /\ B!Cast(-1) = Positions
<1>0. B!Zero = {} /\ B!One = {0}
  BY DEF B!Zero, B!One
<1>1. \A i \in Positions : i \in 0 .. 2 * WordBits
  BY WordFacts DEF Positions
<1>2. 0 \in Positions
  BY WordFacts DEF Positions
<1>3. {} \in SUBSET Positions /\ {0} \in SUBSET Positions /\ Positions \in SUBSET Positions
  BY <1>2
<1>4. 0 \in Int /\ 1 \in Int /\ -1 \in Int /\ 0 # 1
  OBVIOUS
<1>5. \A i \in Positions : i \in {} <=> Bit(0, i) = 1
  BY <1>1, <1>4, BitOfZeroOne, Zenon
<1>6. \A i \in Positions : i \in {0} <=> Bit(1, i) = 1
  BY <1>1, <1>4, BitOfZeroOne, Zenon
<1>7. \A i \in Positions : i \in Positions <=> Bit(-1, i) = 1
  BY <1>1, <1>4, BitOfZeroOne, Zenon
<1>8. B!Num({}) = 0 % Pow /\ {} = B!Cast(0)
  BY <1>3, <1>4, <1>5, WordIs, Zenon DEF Pow
<1>9. B!Num({0}) = 1 % Pow /\ {0} = B!Cast(1)
  BY <1>3, <1>4, <1>6, WordIs, Zenon DEF Pow
<1>10. B!Num(Positions) = (-1) % Pow /\ Positions = B!Cast(-1)
  BY <1>3, <1>4, <1>7, WordIs, Zenon DEF Pow
<1>11. Pow >= 2
  <2>1. 2 ^ 0 = 1
    OBVIOUS
  <2>2. 2 ^ 0 < Pow
    BY <1>2, PowFacts, Zenon
  <2> QED BY <2>1, <2>2, PowFacts
<1>12. 0 % Pow = 0 /\ 1 % Pow = 1
  <2>1. 0 \in Nat /\ 1 \in Nat /\ 0 < Pow /\ 1 < Pow
    BY <1>11, PowFacts
  <2> QED BY <2>1, PowFacts, ModSmall, Zenon
<1>13. (-1) % Pow = Pow - 1
  <2>1. -1 = Pow * (-1) + (Pow - 1) /\ Pow - 1 \in 0 .. Pow - 1 /\ -1 \in Int
    BY PowFacts
  <2> QED BY <2>1, PowFacts, DivModOf
<1> QED BY <1>0, <1>3, <1>8, <1>9, <1>10, <1>12, <1>13, Zenon DEF Words

\* One bit.
LEMMA OneBit ==
  ASSUME NEW b \in Positions
  PROVE  /\ {b} \in Words /\ B!Shl({0}, b) = {b} /\ B!Num({b}) = 2 ^ b
         /\ B!Cast(2 ^ b) = {b}
<1>1. b \in 0 .. WordBits /\ b \in Int
  BY WordFacts DEF Positions
<1>2. B!Shl({0}, b) = {b}
  <2> SUFFICES ASSUME NEW i PROVE i \in B!Shl({0}, b) <=> i = b
    BY Zenon
  <2>1. i \in Positions => (i - b \in {0} <=> i = b)
    BY <1>1 DEF Positions
  <2> QED BY <2>1, InShiftLeft, Zenon
<1>3. B!Num(B!Shl({0}, b)) = (B!Num({0}) * 2 ^ b) % Pow
  BY <1>1, Constants, NumShl, Zenon
<1> DEFINE p == 2 ^ b
<1>4. p \in Nat \ {0} /\ p < Pow
  BY <1>1, PowFacts, Zenon
<1> HIDE DEF p
<1>5. 1 * p = p /\ p \in Nat /\ p \in 0 .. Pow - 1
  BY <1>4, PowFacts
<1>6. p % Pow = p
  BY <1>4, <1>5, PowFacts, ModSmall, Zenon
<1>7. B!Num({b}) = p
  BY <1>2, <1>3, <1>5, <1>6, Constants, Zenon DEF p
<1>8. {b} \in Words
  BY DEF Words
<1>9. B!Cast(p) = {b}
  BY <1>7, <1>8, CastOfNum, Zenon DEF Words
<1> QED BY <1>2, <1>7, <1>8, <1>9, Zenon DEF p

\* The n lowest bits.
LEMMA LowBits ==
  ASSUME NEW n \in 0 .. WordBits
  PROVE  /\ 0 .. n - 1 \in Words /\ B!Num(0 .. n - 1) = 2 ^ n - 1
         /\ B!Cast(2 ^ n - 1) = 0 .. n - 1
<1> DEFINE y == 0 .. n - 1  p == 2 ^ n
<1>1. p \in Nat \ {0} /\ p <= Pow
  BY PowFacts, Zenon
<1>2. y \in Words /\ Positions \cap y = y
  BY WordFacts DEF Words, Positions
<1>3. B!Num(Positions \cap y) = (Pow - 1) % p
  BY Constants, NumLow, ZenonT(30)
<1>4. (Pow - 1) % p = p - 1
  <2>1. n \in 0 .. 2 * WordBits /\ WordBits \in 0 .. 2 * WordBits /\ n <= WordBits
    BY WordFacts
  <2>2. Pow = p * 2 ^ (WordBits - n) /\ 2 ^ (WordBits - n) \in Nat \ {0}
    BY <2>1, TwoOrder, Zenon DEF Pow
  <2> DEFINE h == 2 ^ (WordBits - n)
  <2>3. h \in Nat \ {0} /\ Pow = p * h
    BY <2>2, Zenon
  <2> HIDE DEF h, p
  <2>4. Pow - 1 = p * (h - 1) + (p - 1) /\ h - 1 \in Int /\ p - 1 \in 0 .. p - 1
    BY <1>1, <2>3
  <2> QED BY <1>1, <2>4, DivModOf
<1>5. B!Num(y) = p - 1
  BY <1>2, <1>3, <1>4, Zenon
<1>6. B!Cast(p - 1) = y
  BY <1>2, <1>5, CastOfNum, Zenon DEF Words
<1> QED BY <1>2, <1>5, <1>6, Zenon

\* A word that is not empty has a lowest and a highest bit.
LEMMA LowestBit ==
  ASSUME NEW x \in Words, x # {}
  PROVE  \E m \in x : x \cap (0 .. m - 1) = {}
<1>1. PICK e : e \in x
  OBVIOUS
<1>2. x \in SUBSET Nat
  BY WordFacts DEF Words, Positions
<1>3. PICK m \in x : \A k \in x : m <= k
  BY <1>1, <1>2, HasLeast, Zenon
<1>4. x \cap (0 .. m - 1) = {}
  <2> SUFFICES ASSUME NEW k \in x, k \in 0 .. m - 1 PROVE FALSE
    OBVIOUS
  <2>1. m <= k /\ k \in Nat /\ m \in Nat
    BY <1>2, <1>3, Zenon
  <2> QED BY <2>1
<1> QED BY <1>4

LEMMA HighestBit ==
  ASSUME NEW x \in Words, x # {}
  PROVE  \E t \in x : /\ t \in Positions /\ x \subseteq 0 .. t
                      /\ 2 ^ t <= B!Num(x) /\ B!Num(x) < 2 ^ (t + 1)
<1> DEFINE U == {u \in Nat : \A k \in x : k <= u}
<1>1. \A k \in x : k \in Nat /\ k <= WordBits /\ k \in Positions
  BY WordFacts DEF Words, Positions
<1>2. WordBits \in U
  BY <1>1, WordFacts
<1>3. PICK t \in U : \A u \in U : t <= u
  BY <1>2, HasLeast
<1>4. t \in x
  <2> SUFFICES ASSUME t \notin x PROVE FALSE
    OBVIOUS
  <2>1. PICK e : e \in x
    OBVIOUS
  <2>2. e \in Nat /\ e <= t /\ e # t
    BY <2>1, <1>1, <1>3
  <2>3. t - 1 \in Nat
    BY <1>3, <2>2
  <2>4. \A k \in x : k <= t - 1
    <3> SUFFICES ASSUME NEW k \in x PROVE k <= t - 1
      OBVIOUS
    <3>1. k <= t /\ k \in Nat /\ t \in Nat /\ k # t
      BY <1>1, <1>3
    <3> QED BY <3>1
  <2>5. t - 1 \in U
    BY <2>3, <2>4
  <2>6. t <= t - 1
    BY <2>5, <1>3, Zenon
  <2> QED BY <2>6, <1>3
<1>5. x \subseteq 0 .. t
  BY <1>1, <1>3
<1>6. /\ t \in Positions /\ t + 1 \in 0 .. WordBits /\ t \in 0 .. 2 * WordBits
      /\ 0 .. (t + 1) - 1 = 0 .. t /\ t + 1 \in 0 .. 2 * WordBits
  BY <1>1, <1>4, WordFacts DEF Positions
<1> HIDE DEF U
<1> DEFINE v == B!Num(x)  p == 2 ^ t  q == 2 ^ (t + 1)
<1>7. x \cap (0 .. (t + 1) - 1) = x
  BY <1>5, <1>6, Zenon
<1>8. v = v % q
  BY <1>6, <1>7, NumLow, Zenon
<1>9. p \in Nat \ {0} /\ q \in Nat \ {0} /\ v \in Nat
  BY <1>6, TwoTo, NumNat, Zenon
<1>10. (v \div p) % 2 = 1
  BY <1>4, <1>6, BitOfNum, Zenon DEF Bit
<1> HIDE DEF v, p, q
<1>11. v < q
  BY <1>8, <1>9
<1>12. p <= v
  <2> SUFFICES ASSUME v < p PROVE FALSE
    BY <1>9
  <2>1. v = p * 0 + v /\ v \in 0 .. p - 1 /\ 0 \in Int
    BY <1>9
  <2>2. v \div p = 0
    BY <2>1, <1>9, DivModOf, Zenon
  <2>3. 0 % 2 = 0
    OBVIOUS
  <2> QED BY <2>2, <2>3, <1>10
<1> QED BY <1>4, <1>5, <1>6, <1>11, <1>12, Zenon DEF v, p, q

-----------------------------------------------------------------------------
(* Fields                                                                   *)

LEMMA ModIs ==
  /\ \A n \in Positions : B!Mod(n) = n
  /\ B!Mod(WordBits) = 0
<1>1. \A n \in Positions : n \in Nat /\ n < WordBits
  BY WordFacts DEF Positions
<1>2. \A n \in Positions : n % WordBits = n
  BY <1>1, WordFacts, ModSmall, Zenon
<1>3. WordBits % WordBits = 0
  <2>1. WordBits = WordBits * 1 + 0 /\ 0 \in 0 .. WordBits - 1 /\ 1 \in Int
    BY WordFacts
  <2> QED BY <2>1, WordFacts, DivModOf
<1> QED BY <1>2, <1>3, Zenon DEF B!Mod

LEMMA MaskLsbIs ==
  ASSUME NEW n \in 0 .. WordBits
  PROVE  B!MaskLsb(n) = 0 .. n - 1
<1>1. CASE n < WordBits
  <2>1. n \in Positions
    BY <1>1, WordFacts DEF Positions
  <2>2. B!MaskLsb(n) = B!Minus({n}, {0})
    BY <1>1, <2>1, ModIs, Constants, OneBit, Zenon DEF B!MaskLsb
  <2>3. B!Minus({n}, {0}) = B!Cast(2 ^ n - 1)
    BY <2>1, OneBit, Constants, Zenon DEF B!Minus
  <2> QED BY <2>2, <2>3, LowBits, Zenon
<1>2. CASE ~(n < WordBits)
  <2>1. n = WordBits
    BY <1>2, WordFacts
  <2>2. B!Shl({}, 0) = {}
    BY NoneShifted, Zenon
  <2>3. B!MaskLsb(n) = B!Minus({}, {0})
    BY <1>2, <2>1, <2>2, ModIs, Constants, Zenon DEF B!MaskLsb
  <2>4. 0 - 1 = -1
    OBVIOUS
  <2>5. B!Minus({}, {0}) = B!Cast(-1)
    BY <2>4, Constants, Zenon DEF B!Minus
  <2> QED BY <2>1, <2>3, <2>5, Constants, Zenon DEF Positions
<1> QED BY <1>1, <1>2

LEMMA MaskIs ==
  ASSUME NEW n \in 0 .. WordBits, NEW h \in n .. WordBits - 1
  PROVE  B!Mask(n, h) = n .. h
<1>1. h - n + 1 \in 0 .. WordBits /\ (h - n + 1) - 1 = h - n
  BY WordFacts
<1>2. B!MaskLsb(h - n + 1) = 0 .. h - n
  BY <1>1, MaskLsbIs, Zenon
<1>3. \A i : i \in B!Shl(0 .. h - n, n) <=> i \in n .. h
  <2> SUFFICES ASSUME NEW i PROVE i \in B!Shl(0 .. h - n, n) <=> i \in n .. h
    OBVIOUS
  <2>1. i \in Positions /\ i - n \in 0 .. h - n <=> i \in n .. h
    BY WordFacts DEF Positions
  <2> QED BY <2>1, InShiftLeft, Zenon
<1>4. B!Shl(0 .. h - n, n) = n .. h
  BY <1>3, Zenon
<1> QED BY <1>2, <1>4, Zenon DEF B!Mask

LEMMA FieldsHold ==
  ASSUME word \in Words
  PROVE  B!FieldsRight
<1> DEFINE v == B!Num(word)
<1> SUFFICES ASSUME NEW n \in 0 .. WordBits
             PROVE LET f == 0 .. n - 1 IN
    /\ B!MaskLsb(n) = f
    /\ B!ExtractLsb(word, n) = word \cap f
    /\ B!InsertLsb(word, n, f) = word \cup f /\ B!InsertLsb(word, n, B!Zero) = word \ f
    /\ \A h \in n .. WordBits - 1 :
         /\ B!Mask(n, h) = n .. h
         /\ B!Num(B!Extract(word, n, h)) = (v \div 2 ^ n) % 2 ^ (h - n + 1)
         /\ B!Insert(B!Clear(word, B!Mask(n, h)), n, h, B!Extract(word, n, h)) = word
         /\ B!Flip(B!Clear(word, B!Mask(n, h)), B!Mask(n, h)) = B!Set(word, B!Mask(n, h))
    /\ n < WordBits => /\ B!MaskBit(n) = {n}
                       /\ B!ExtractBit(word, n) = B!One <=> n \in word
                       /\ B!InsertBit(word, n, B!ExtractBit(word, n)) = word
  BY Zenon DEF B!FieldsRight
<1> DEFINE f == 0 .. n - 1
<1>0. word \subseteq Positions /\ B!Pos = Positions /\ n \in Int
  BY WordFacts DEF Words
<1>1. B!MaskLsb(n) = f
  BY MaskLsbIs, Zenon
<1>2. B!ExtractLsb(word, n) = word \cap f
  BY <1>1, Zenon DEF B!ExtractLsb
<1>3. B!InsertLsb(word, n, f) = word \cup f /\ B!InsertLsb(word, n, B!Zero) = word \ f
  <2> HIDE DEF f
  <2>1. (word \cap (Positions \ f)) \cup f = word \cup f
    BY <1>0
  <2>2. (word \cap (Positions \ f)) \cup {} = word \ f
    BY <1>0
  <2> QED BY <1>0, <1>1, <2>1, <2>2, Constants, Zenon DEF B!InsertLsb, B!Not
<1>4. ASSUME NEW h \in n .. WordBits - 1
      PROVE  /\ B!Mask(n, h) = n .. h
             /\ B!Num(B!Extract(word, n, h)) = (v \div 2 ^ n) % 2 ^ (h - n + 1)
             /\ B!Insert(B!Clear(word, B!Mask(n, h)), n, h, B!Extract(word, n, h)) = word
             /\ B!Flip(B!Clear(word, B!Mask(n, h)), B!Mask(n, h)) = B!Set(word, B!Mask(n, h))
  <2> DEFINE m == n .. h  e == B!Extract(word, n, h)
  <2>1. B!Mask(n, h) = m
    BY MaskIs, Zenon
  <2>2. h - n + 1 \in 0 .. WordBits /\ (h - n + 1) - 1 = h - n /\ h \in Int
    BY WordFacts
  <2>3. e = B!Shr(word, n) \cap (0 .. (h - n + 1) - 1)
    BY <2>2, MaskLsbIs, Zenon DEF B!Extract
  <2>4. B!Num(e) = (v \div 2 ^ n) % 2 ^ (h - n + 1)
    BY <2>2, <2>3, NumLow, NumShr, ShiftsAreWords, Zenon
  <2>5. B!Shl(e, n) = word \cap m
    <3> SUFFICES ASSUME NEW i PROVE i \in B!Shl(e, n) <=> i \in word \cap m
      BY Zenon
    <3>1. CASE i \in Positions
      <4>1. i - n \in Int /\ (i - n) + n = i /\ i \in Int
        BY <3>1, <1>0, WordFacts DEF Positions
      <4>2. i - n \in Positions /\ i - n \in 0 .. (h - n + 1) - 1 <=> i \in m
        BY <3>1, <4>1, <2>2, WordFacts DEF Positions
      <4>3. i \in B!Shl(e, n) <=> i - n \in e
        BY <3>1, InShiftLeft, Zenon
      <4>4. i - n \in B!Shr(word, n) <=> i - n \in Positions /\ i \in word
        <5>1. /\ i - n \in B!Shr(word, n)
                 <=> i - n \in Positions /\ (i - n) + n \in word
          BY InShiftLeft, Zenon
        <5> QED BY <4>1, <5>1
      <4> HIDE DEF m, e
      <4> QED BY <2>3, <4>2, <4>3, <4>4, Zenon
    <3>2. CASE i \notin Positions
      BY <3>2, <1>0, InShiftLeft, Zenon
    <3> QED BY <3>1, <3>2
  <2> HIDE DEF m, e
  <2>6. (((word \cap (Positions \ m)) \cap (Positions \ m)) \cup (word \cap m)) = word
    BY <1>0
  <2>7. B!Insert(B!Clear(word, m), n, h, e) = word
    BY <1>0, <2>1, <2>5, <2>6, Zenon DEF B!Insert, B!Clear, B!Not
  <2>8. LET c == word \cap (Positions \ m) IN (c \cup m) \ (c \cap m) = word \cup m
    BY <1>0
  <2>9. B!Flip(B!Clear(word, m), m) = B!Set(word, m)
    BY <1>0, <2>8, Zenon DEF B!Flip, B!Clear, B!Not, B!Set, B!Xor
  <2> QED BY <2>1, <2>4, <2>7, <2>9, Zenon DEF m, e
<1>5. ASSUME n < WordBits
      PROVE  /\ B!MaskBit(n) = {n}
             /\ B!ExtractBit(word, n) = B!One <=> n \in word
             /\ B!InsertBit(word, n, B!ExtractBit(word, n)) = word
  <2>1. n \in Positions /\ 0 \in Positions /\ 0 + n = n /\ n - n = 0
    BY <1>5, WordFacts DEF Positions
  <2>2. B!MaskBit(n) = {n}
    BY <2>1, OneBit, Constants, Zenon DEF B!MaskBit
  <2>3. 0 \in B!Shr(word, n) <=> n \in word
    <3>1. 0 \in B!Shr(word, n) <=> 0 \in Positions /\ 0 + n \in word
      BY InShiftLeft, Zenon
    <3> QED BY <2>1, <3>1
  <2>4. B!ExtractBit(word, n) = IF n \in word THEN {0} ELSE {}
    <3>1. B!ExtractBit(word, n) = B!Shr(word, n) \cap {0}
      BY Constants, Zenon DEF B!ExtractBit
    <3> QED BY <2>3, <3>1
  <2>5. B!ExtractBit(word, n) = B!One <=> n \in word
    <3>1. {} # {0}
      OBVIOUS
    <3> QED BY <2>4, <3>1, Constants, Zenon
  <2>6. B!Shl(B!ExtractBit(word, n), n) = word \cap {n}
    <3>1. B!Shl({}, n) = {}
      BY NoneShifted, Zenon
    <3>2. B!Shl({0}, n) = {n}
      BY <2>1, OneBit, Zenon
    <3>3. CASE n \in word
      BY <2>4, <3>2, <3>3
    <3>4. CASE n \notin word
      BY <2>4, <3>1, <3>4
    <3> QED BY <3>3, <3>4
  <2>7. (word \cap (Positions \ {n})) \cup (word \cap {n}) = word
    BY <1>0
  <2>8. B!InsertBit(word, n, B!ExtractBit(word, n)) = word
    BY <1>0, <2>2, <2>6, <2>7, Zenon DEF B!InsertBit, B!Not
  <2> QED BY <2>2, <2>5, <2>8, Zenon
<1> QED BY <1>1, <1>2, <1>3, <1>4, <1>5, Zenon

-----------------------------------------------------------------------------
(* Powers of two                                                            *)

PowersUpTo == {2 ^ n : n \in 0 .. WordBits}

\* Taking one away borrows from the lowest bit and leaves those above it.
LEMMA PopLsbIs ==
  ASSUME NEW x \in Words, NEW m \in x, x \cap (0 .. m - 1) = {}
  PROVE  B!PopLsb(x) = x \ {m}
<1> DEFINE v == B!Num(x)  p == 2 ^ m  q == v \div p
<1>0. /\ x \subseteq Positions /\ m \in Positions /\ m \in 0 .. WordBits
      /\ m \in 0 .. 2 * WordBits /\ m + 1 \in 0 .. 2 * WordBits /\ m \in Int
      /\ m \in 0 .. 2 * WordBits - 1
  BY WordFacts DEF Words, Positions
<1>1. v \in Nat /\ v \in Int /\ p \in Nat \ {0} /\ 2 ^ (m + 1) = 2 * p
  BY <1>0, NumNat, TwoTo, WordFacts, Zenon DEF Doubling
<1>2. v % p = 0
  BY <1>0, NumLow, Constants, ZenonT(30)
<1>3. q % 2 = 1
  BY <1>0, BitOfWord, Zenon DEF Bit
<1> HIDE DEF v, p
<1>4. v = p * q + 0 /\ q \in Int
  BY <1>1, <1>2, DivMod
<1> HIDE DEF q
<1>5. v - 1 = p * (q - 1) + (p - 1) /\ q - 1 \in Int /\ p - 1 \in 0 .. p - 1
  BY <1>1, <1>4
<1>6. (v - 1) \div p = q - 1
  <2> DEFINE q1 == q - 1  r1 == p - 1
  <2>1. v - 1 = p * q1 + r1 /\ q1 \in Int /\ r1 \in 0 .. p - 1
    BY <1>5
  <2> HIDE DEF q1, r1
  <2>2. (v - 1) \div p = q1
    BY <2>1, <1>1, DivModOf
  <2> QED BY <2>2 DEF q1
<1>7. (q - 1) \div 2 = q \div 2 /\ (q - 1) % 2 = 0
  BY <1>3, <1>4
<1>8. v - 1 \in Int /\ B!Minus(x, B!One) = B!Cast(v - 1)
  <2>1. v - 1 \in Int
    BY <1>1
  <2> QED BY <2>1, Constants, Zenon DEF B!Minus, v
<1>9. Bit(v - 1, m) # 1
  <2>1. Bit(v - 1, m) = 0
    BY <1>6, <1>7, Zenon DEF Bit, p
  <2> QED BY <2>1
<1>10. (v - 1) \div 2 ^ (m + 1) = v \div 2 ^ (m + 1)
  <2>1. 2 \in Nat \ {0} /\ 2 * p = p * 2
    BY <1>1
  <2>2. /\ (v - 1) \div (p * 2) = ((v - 1) \div p) \div 2
        /\ v \div (p * 2) = (v \div p) \div 2
    BY <2>1, <1>1, <1>8, DivProduct, Zenon
  <2> QED BY <2>1, <2>2, <1>1, <1>6, <1>7, Zenon DEF q
<1>11. ASSUME NEW i \in x, i # m PROVE Bit(v - 1, i) = 1
  <2>1. /\ i \in 0 .. 2 * WordBits /\ i - (m + 1) \in 0 .. 2 * WordBits - (m + 1)
        /\ (i - (m + 1)) + (m + 1) = i
    <3>1. i \notin 0 .. m - 1 /\ i \in Positions
      BY <1>0, <1>11, Zenon
    <3> QED BY <3>1, <1>0, <1>11, WordFacts DEF Positions
  <2> DEFINE k == i - (m + 1)
  <2>2. /\ Bit((v - 1) \div 2 ^ (m + 1), k) = Bit(v - 1, k + (m + 1))
        /\ Bit(v \div 2 ^ (m + 1), k) = Bit(v, k + (m + 1))
    BY <2>1, <1>0, <1>1, <1>8, BitShr, Zenon
  <2>3. Bit(v - 1, i) = Bit(v, i)
    BY <2>1, <2>2, <1>10, Zenon
  <2>4. Bit(v, i) = 1
    BY <2>1, BitOfWord, Zenon DEF v
  <2> QED BY <2>3, <2>4, Zenon
<1>12. \A i : i \in B!PopLsb(x) <=> i \in x /\ i # m
  BY <1>0, <1>8, <1>9, <1>11, InCast, Zenon DEF B!PopLsb
<1> QED BY <1>12, Zenon

\* Or with shifts of itself: a bit and those up to k places below it.
Spread(x, k) == {i \in Positions : \E j \in x : i <= j /\ j < i + k}

LEMMA SpreadOn ==
  ASSUME NEW x \in Words, NEW k \in Nat \ {0}
  PROVE  B!OrShr(Spread(x, k), k) = Spread(x, 2 * k)
<1> SUFFICES ASSUME NEW i \in Positions
             PROVE  (i \in Spread(x, k) \/ i + k \in Spread(x, k)) <=> i \in Spread(x, 2 * k)
  <2>1. \A i : i \in B!OrShr(Spread(x, k), k) <=> i \in Spread(x, 2 * k)
    BY InShiftLeft, Zenon DEF B!OrShr, Spread
  <2> QED BY <2>1, Zenon
<1>0. x \subseteq Positions /\ i \in Int /\ \A j \in Positions : j \in Int
  BY WordFacts DEF Words, Positions
<1>1. ASSUME i \in Spread(x, k) PROVE i \in Spread(x, 2 * k)
  <2>1. PICK j \in x : i <= j /\ j < i + k
    BY <1>1 DEF Spread
  <2>2. j \in Int /\ j < i + 2 * k
    BY <1>0, <2>1
  <2> QED BY <2>1, <2>2 DEF Spread
<1>2. ASSUME i + k \in Spread(x, k) PROVE i \in Spread(x, 2 * k)
  <2>1. PICK j \in x : i + k <= j /\ j < (i + k) + k
    BY <1>2 DEF Spread
  <2>2. j \in Int /\ i <= j /\ j < i + 2 * k
    BY <1>0, <2>1
  <2> QED BY <2>1, <2>2 DEF Spread
<1>3. ASSUME i \in Spread(x, 2 * k) PROVE i \in Spread(x, k) \/ i + k \in Spread(x, k)
  <2>1. PICK j \in x : i <= j /\ j < i + 2 * k
    BY <1>3 DEF Spread
  <2>2. j \in Int /\ j \in Positions
    BY <1>0, <2>1
  <2>3. CASE j < i + k
    BY <2>1, <2>3 DEF Spread
  <2>4. CASE ~(j < i + k)
    <3>1. i + k <= j /\ j < (i + k) + k /\ i + k \in Positions
      BY <2>1, <2>2, <2>4, <1>0, WordFacts DEF Positions
    <3> QED BY <2>1, <3>1 DEF Spread
  <2> QED BY <2>3, <2>4
<1> QED BY <1>1, <1>2, <1>3

LEMMA SmearIs ==
  ASSUME NEW x \in Words
  PROVE  B!Smear(x) = Spread(x, 128)
<1>1. x = Spread(x, 1)
  <2> SUFFICES ASSUME NEW i PROVE i \in x <=> i \in Spread(x, 1)
    BY Zenon
  <2>1. i \in x => i \in Positions
    BY DEF Words
  <2>2. \A j \in x : j \in Int
    BY WordFacts DEF Words, Positions
  <2>3. i \in Positions => i \in Int
    BY WordFacts DEF Positions
  <2>4. i \in Positions => \A j \in x : (i <= j /\ j < i + 1) <=> j = i
    BY <2>2, <2>3
  <2> QED BY <2>1, <2>4, Zenon DEF Spread
<1>2. /\ B!OrShr(Spread(x, 1), 1) = Spread(x, 2) /\ B!OrShr(Spread(x, 2), 2) = Spread(x, 4)
      /\ B!OrShr(Spread(x, 4), 4) = Spread(x, 8) /\ B!OrShr(Spread(x, 8), 8) = Spread(x, 16)
      /\ B!OrShr(Spread(x, 16), 16) = Spread(x, 32)
      /\ B!OrShr(Spread(x, 32), 32) = Spread(x, 64)
      /\ B!OrShr(Spread(x, 64), 64) = Spread(x, 128)
  <2>1. \A k \in Nat \ {0} : \A l : l = 2 * k => B!OrShr(Spread(x, k), k) = Spread(x, l)
    BY SpreadOn, Zenon
  <2>2. B!OrShr(Spread(x, 1), 1) = Spread(x, 2)
    <3>1. 1 \in Nat \ {0} /\ 2 = 2 * 1
      OBVIOUS
    <3> QED BY <2>1, <3>1, Zenon
  <2>3. B!OrShr(Spread(x, 2), 2) = Spread(x, 4)
    <3>1. 2 \in Nat \ {0} /\ 4 = 2 * 2
      OBVIOUS
    <3> QED BY <2>1, <3>1, Zenon
  <2>4. B!OrShr(Spread(x, 4), 4) = Spread(x, 8)
    <3>1. 4 \in Nat \ {0} /\ 8 = 2 * 4
      OBVIOUS
    <3> QED BY <2>1, <3>1, Zenon
  <2>5. B!OrShr(Spread(x, 8), 8) = Spread(x, 16)
    <3>1. 8 \in Nat \ {0} /\ 16 = 2 * 8
      OBVIOUS
    <3> QED BY <2>1, <3>1, Zenon
  <2>6. B!OrShr(Spread(x, 16), 16) = Spread(x, 32)
    <3>1. 16 \in Nat \ {0} /\ 32 = 2 * 16
      OBVIOUS
    <3> QED BY <2>1, <3>1, Zenon
  <2>7. B!OrShr(Spread(x, 32), 32) = Spread(x, 64)
    <3>1. 32 \in Nat \ {0} /\ 64 = 2 * 32
      OBVIOUS
    <3> QED BY <2>1, <3>1, Zenon
  <2>8. B!OrShr(Spread(x, 64), 64) = Spread(x, 128)
    <3>1. 64 \in Nat \ {0} /\ 128 = 2 * 64
      OBVIOUS
    <3> QED BY <2>1, <3>1, Zenon
  <2> QED BY <2>2, <2>3, <2>4, <2>5, <2>6, <2>7, <2>8, Zenon
<1>3. B!Smear(x) = B!OrShr(B!OrShr(B!OrShr(B!OrShr(B!OrShr(B!OrShr(
                     B!OrShr(x, 1), 2), 4), 8), 16), 32), 64)
  BY Zenon DEF B!Smear
<1> QED BY <1>1, <1>2, <1>3

\* What is smeared, plus one, is the power of two above the word.
LEMMA SmearPower ==
  ASSUME NEW x \in Words
  PROVE  \E k \in 0 .. WordBits : /\ B!Num(B!Smear(x)) + 1 = 2 ^ k
                                  /\ B!Num(x) < 2 ^ k
                                  /\ k # 0 => 2 ^ (k - 1) <= B!Num(x)
<1>1. CASE x = {}
  <2>1. Spread(x, 128) = {}
    BY <1>1 DEF Spread
  <2>2. B!Num(B!Smear(x)) = 0 /\ B!Num(x) = 0
    BY <1>1, <2>1, SmearIs, Constants, Zenon
  <2>3. 0 + 1 = 2 ^ 0 /\ 0 < 2 ^ 0 /\ 0 \in 0 .. WordBits
    BY WordFacts
  <2> QED BY <2>2, <2>3, Zenon
<1>2. CASE x # {}
  <2>1. PICK t \in x : /\ t \in Positions /\ x \subseteq 0 .. t
                       /\ 2 ^ t <= B!Num(x) /\ B!Num(x) < 2 ^ (t + 1)
    BY <1>2, HighestBit, Zenon
  <2>2. /\ t + 1 \in 0 .. WordBits /\ (t + 1) - 1 = t /\ t + 1 # 0 /\ t \in Int
        /\ WordBits <= 128
    BY <2>1, WordFacts DEF Positions
  <2>3. Spread(x, 128) = 0 .. (t + 1) - 1
    <3> SUFFICES ASSUME NEW i PROVE i \in Spread(x, 128) <=> i \in 0 .. t
      BY <2>2
    <3>1. ASSUME i \in 0 .. t PROVE i \in Spread(x, 128)
      <4>1. i \in Positions /\ i <= t /\ t < i + 128
        BY <3>1, <2>1, <2>2, WordFacts DEF Positions
      <4> QED BY <4>1, <2>1 DEF Spread
    <3>2. ASSUME i \in Spread(x, 128) PROVE i \in 0 .. t
      <4>1. PICK j \in x : i \in Positions /\ i <= j
        BY <3>2 DEF Spread
      <4>2. j \in 0 .. t
        BY <2>1, <4>1
      <4> QED BY <4>1, <4>2, WordFacts DEF Positions
    <3> QED BY <3>1, <3>2
  <2>4. B!Num(B!Smear(x)) = 2 ^ (t + 1) - 1
    BY <2>2, <2>3, SmearIs, LowBits, Zenon
  <2>5. 2 ^ (t + 1) \in Nat \ {0}
    BY <2>2, PowFacts, Zenon
  <2>6. B!Num(B!Smear(x)) + 1 = 2 ^ (t + 1)
    <3> DEFINE p == 2 ^ (t + 1)
    <3>1. p \in Nat /\ B!Num(B!Smear(x)) = p - 1
      BY <2>4, <2>5
    <3> HIDE DEF p
    <3>2. B!Num(B!Smear(x)) + 1 = p
      BY <3>1
    <3> QED BY <3>2 DEF p
  <2> QED BY <2>1, <2>2, <2>6, Zenon
<1> QED BY <1>1, <1>2

LEMMA MinIs ==
  ASSUME NEW s \in SUBSET Int, NEW m \in s, \A y \in s : m <= y
  PROVE  B!Min(s) = m
<1> DEFINE c == CHOOSE x \in s : \A y \in s : x <= y
<1>1. \E x \in s : \A y \in s : x <= y
  BY Zenon
<1>2. c \in s /\ \A y \in s : c <= y
  BY <1>1, Zenon
<1>3. B!Min(s) = c
  BY Zenon DEF B!Min
<1> HIDE DEF c
<1>4. c <= m /\ m <= c /\ c \in Int /\ m \in Int
  BY <1>2, Zenon
<1> QED BY <1>3, <1>4

LEMMA MaxIs ==
  ASSUME NEW s \in SUBSET Int, NEW m \in s, \A y \in s : m >= y
  PROVE  B!Max(s) = m
<1> DEFINE c == CHOOSE x \in s : \A y \in s : x >= y
<1>1. \E x \in s : \A y \in s : x >= y
  BY Zenon
<1>2. c \in s /\ \A y \in s : c >= y
  BY <1>1, Zenon
<1>3. B!Max(s) = c
  BY Zenon DEF B!Max
<1> HIDE DEF c
<1>4. c >= m /\ m >= c /\ c \in Int /\ m \in Int
  BY <1>2, Zenon
<1> QED BY <1>3, <1>4

\* The lowest bit and the rest.
LEMMA LsbIs ==
  ASSUME NEW x \in Words, x # {}
  PROVE  /\ B!Lsb(x) = {B!Min(x)} /\ B!PopLsb(x) = x \ {B!Min(x)}
         /\ B!Min(x) \in x
<1>1. PICK m \in x : x \cap (0 .. m - 1) = {}
  BY LowestBit, Zenon
<1>2. x \subseteq Positions /\ x \in SUBSET Int /\ x \in SUBSET Nat
  BY WordFacts DEF Words, Positions
<1>3. \A y \in x : m <= y
  <2> SUFFICES ASSUME NEW y \in x PROVE m <= y
    OBVIOUS
  <2>1. y \notin 0 .. m - 1 /\ y \in Nat /\ m \in Nat
    BY <1>1, <1>2, Zenon
  <2> QED BY <2>1
<1>4. B!Min(x) = m
  BY <1>2, <1>3, MinIs, Zenon
<1>5. B!PopLsb(x) = x \ {m}
  BY <1>1, PopLsbIs, Zenon
<1>6. (x \cup (x \ {m})) \ (x \cap (x \ {m})) = {m}
  BY <1>1
<1>7. B!Lsb(x) = {m}
  BY <1>5, <1>6, Zenon DEF B!Lsb, B!Xor
<1> QED BY <1>1, <1>4, <1>5, <1>7, Zenon

LEMMA NumZero ==
  ASSUME NEW x \in Words
  PROVE  x = {} <=> B!Num(x) = 0
BY Constants, SameNum, Zenon

LEMMA IsPow2Is ==
  ASSUME NEW x \in Words
  PROVE  B!IsPow2(x) <=> B!Num(x) \in PowersUpTo
<1>1. ASSUME B!IsPow2(x) PROVE B!Num(x) \in PowersUpTo
  <2>1. x # {} /\ B!PopLsb(x) = {}
    BY <1>1, Constants, Zenon DEF B!IsPow2
  <2>2. x \ {B!Min(x)} = {} /\ B!Min(x) \in x
    BY <2>1, LsbIs, Zenon
  <2> DEFINE m == B!Min(x)
  <2>3. x = {m} /\ m \in Positions
    BY <2>2 DEF Words
  <2> HIDE DEF m
  <2>4. m \in 0 .. WordBits
    BY <2>3, WordFacts DEF Positions
  <2>5. B!Num(x) = 2 ^ m
    BY <2>3, OneBit, Zenon
  <2> QED BY <2>4, <2>5, Zenon DEF PowersUpTo
<1>2. ASSUME B!Num(x) \in PowersUpTo PROVE B!IsPow2(x)
  <2>1. PICK n \in 0 .. WordBits : B!Num(x) = 2 ^ n
    BY <1>2, Zenon DEF PowersUpTo
  <2>2. n \in Positions
    <3>1. n # WordBits
      <4>1. B!Num(x) < Pow
        BY NumNat, Zenon
      <4>2. Pow \in Nat /\ ~(Pow < Pow)
        BY PowFacts
      <4> QED BY <2>1, <4>1, <4>2, Zenon DEF Pow
    <3> QED BY <3>1, WordFacts DEF Positions
  <2>3. x = {n}
    BY <2>1, <2>2, OneBit, SameNum, Zenon
  <2>4. x # {} /\ n \in x /\ x \cap (0 .. n - 1) = {} /\ x \ {n} = {}
    BY <2>2, <2>3, WordFacts DEF Positions
  <2>5. B!PopLsb(x) = {}
    BY <2>4, PopLsbIs, Zenon
  <2> QED BY <2>4, <2>5, Constants, Zenon DEF B!IsPow2
<1> QED BY <1>1, <1>2

LEMMA Pow2UpIs ==
  ASSUME NEW x \in Words, x # {}
  PROVE  B!Num(B!Pow2Up(x)) = B!Min({p \in PowersUpTo : p >= B!Num(x)}) % Pow
<1> DEFINE v == B!Num(x)  y == B!Cast(v - 1)
           s == {p \in PowersUpTo : p >= v}
<1>1. v \in Nat /\ v # 0 /\ v < Pow
  BY NumNat, NumZero, Zenon
<1>2. v - 1 \in 0 .. Pow - 1
  <2> HIDE DEF v
  <2> QED BY <1>1, PowFacts
<1>3. y \in Words /\ B!Num(y) = v - 1
  BY <1>2, NumOfCast, Zenon
<1>4. B!Minus(x, B!One) = y
  BY Constants, Zenon DEF B!Minus
<1> HIDE DEF y
<1>5. PICK k \in 0 .. WordBits : /\ B!Num(B!Smear(y)) + 1 = 2 ^ k
                                 /\ B!Num(y) < 2 ^ k
                                 /\ k # 0 => 2 ^ (k - 1) <= B!Num(y)
  BY <1>3, SmearPower, Zenon
<1> DEFINE p == 2 ^ k
<1>6. p \in Nat \ {0} /\ p \in Int /\ p \in PowersUpTo
  <2>1. p \in Nat \ {0}
    BY PowFacts, Zenon
  <2>2. p \in PowersUpTo
    BY Zenon DEF PowersUpTo
  <2> QED BY <2>1, <2>2
<1>7. B!Pow2Up(x) = B!Cast(p)
  BY <1>4, <1>5, Constants, Zenon DEF B!Pow2Up, B!Plus
<1>8. B!Num(B!Pow2Up(x)) = p % Pow
  BY <1>6, <1>7, CastIsWord, Zenon DEF Pow
<1>9. p >= v
  BY <1>1, <1>3, <1>5, <1>6
<1>10. \A n \in 0 .. WordBits : 2 ^ n >= v => p <= 2 ^ n
  <2> SUFFICES ASSUME NEW n \in 0 .. WordBits, 2 ^ n >= v PROVE p <= 2 ^ n
    OBVIOUS
  <2> DEFINE r == 2 ^ n
  <2>1. r \in Nat \ {0} /\ n \in 0 .. 2 * WordBits /\ k \in 0 .. 2 * WordBits
    BY PowFacts, WordFacts
  <2>2. CASE k <= n
    BY <2>1, <2>2, TwoOrder, Zenon
  <2>3. CASE ~(k <= n)
    <3>1. n <= k - 1 /\ k - 1 \in 0 .. 2 * WordBits /\ k - 1 \in 0 .. WordBits /\ k # 0
      BY <2>3, WordFacts
    <3>2. r <= 2 ^ (k - 1) /\ 2 ^ (k - 1) <= v - 1
      BY <2>1, <3>1, <1>3, <1>5, TwoOrder, Zenon
    <3> DEFINE h == 2 ^ (k - 1)
    <3>3. h \in Nat \ {0}
      BY <3>1, PowFacts, Zenon
    <3>4. r >= v /\ r <= h /\ h <= v - 1
      BY <3>2
    <3> HIDE DEF h, r, v
    <3> QED BY <3>3, <3>4, <2>1, <1>1
  <2> QED BY <2>2, <2>3
<1> HIDE DEF p
<1>11. \A q \in s : p <= q
  BY <1>10, Zenon DEF PowersUpTo
<1>12. s \in SUBSET Int /\ p \in s
  <2>1. \A n \in 0 .. WordBits : 2 ^ n \in Int
    BY PowFacts
  <2>2. PowersUpTo \in SUBSET Int
    BY <2>1, Zenon DEF PowersUpTo
  <2> QED BY <2>2, <1>6, <1>9, Zenon
<1> HIDE DEF s
<1>13. B!Min(s) = p
  BY <1>11, <1>12, MinIs, Zenon
<1> QED BY <1>8, <1>13, Zenon DEF s, v

LEMMA Pow2DnIs ==
  ASSUME NEW x \in Words, x # {}
  PROVE  B!Num(B!Pow2Dn(x)) = B!Max({p \in PowersUpTo : p <= B!Num(x)})
<1> DEFINE v == B!Num(x)  y == B!Shr(x, 1)  h == v \div 2
           s == {p \in PowersUpTo : p <= v}
<1>1. v \in Nat /\ v # 0 /\ v < Pow
  BY NumNat, NumZero, Zenon
<1>2. y \in Words /\ B!Num(y) = h
  <2>1. 1 \in 0 .. WordBits /\ 2 ^ 1 = 2
    BY WordFacts
  <2>2. B!Num(y) = v \div 2 ^ 1
    BY <2>1, NumShr, Zenon
  <2> QED BY <2>1, <2>2, ShiftsAreWords, Zenon
<1> HIDE DEF v, y
<1>3. h \in Nat /\ 2 * h <= v /\ v <= 2 * h + 1
  BY <1>1
<1> HIDE DEF h
<1>4. PICK k \in 0 .. WordBits : /\ B!Num(B!Smear(y)) + 1 = 2 ^ k
                                 /\ B!Num(y) < 2 ^ k
                                 /\ k # 0 => 2 ^ (k - 1) <= B!Num(y)
  BY <1>2, SmearPower, Zenon
<1> DEFINE p == 2 ^ k
<1>5. p \in Nat \ {0} /\ p \in Int /\ p \in PowersUpTo
  <2>1. p \in Nat \ {0}
    BY PowFacts, Zenon
  <2>2. p \in PowersUpTo
    BY Zenon DEF PowersUpTo
  <2> QED BY <2>1, <2>2
<1>6. B!Pow2Dn(x) = B!Cast(p)
  BY <1>4, Constants, Zenon DEF B!Pow2Dn, B!Plus, y
<1>7. p <= v
  <2>1. CASE k = 0
    <3>1. p = 1
      BY <2>1
    <3> QED BY <3>1, <1>1
  <2>2. CASE k # 0
    <3>1. k - 1 \in 0 .. 2 * WordBits - 1 /\ (k - 1) + 1 = k /\ k - 1 \in 0 .. 2 * WordBits
      BY <2>2, WordFacts
    <3>2. p = 2 * 2 ^ (k - 1) /\ 2 ^ (k - 1) \in Nat \ {0} /\ 2 ^ (k - 1) <= h
      BY <3>1, <2>2, <1>2, <1>4, TwoTo, WordFacts, Zenon DEF Doubling
    <3> DEFINE g == 2 ^ (k - 1)
    <3>3. p = 2 * g /\ g \in Nat /\ g <= h
      BY <3>2
    <3> HIDE DEF p, g
    <3> QED BY <3>3, <1>1, <1>3
  <2> QED BY <2>1, <2>2
<1>8. p \in 0 .. Pow - 1
  BY <1>1, <1>5, <1>7, PowFacts
<1>9. B!Num(B!Pow2Dn(x)) = p
  BY <1>6, <1>8, NumOfCast, Zenon
<1>10. v < 2 * p
  <2>1. h < p
    BY <1>2, <1>4, Zenon
  <2> HIDE DEF p
  <2> QED BY <2>1, <1>1, <1>3, <1>5
<1>11. \A n \in 0 .. WordBits : 2 ^ n <= v => p >= 2 ^ n
  <2> SUFFICES ASSUME NEW n \in 0 .. WordBits, 2 ^ n <= v PROVE p >= 2 ^ n
    OBVIOUS
  <2> DEFINE r == 2 ^ n
  <2>1. r \in Nat \ {0} /\ n \in 0 .. 2 * WordBits /\ k \in 0 .. 2 * WordBits
    BY PowFacts, WordFacts
  <2>2. CASE n <= k
    <3>1. r <= p
      BY <2>1, <2>2, TwoOrder, Zenon
    <3> HIDE DEF p
    <3>2. p >= r
      BY <3>1, <2>1, <1>5
    <3> QED BY <3>2
  <2>3. CASE ~(n <= k)
    <3>1. k + 1 <= n /\ k + 1 \in 0 .. 2 * WordBits /\ k \in 0 .. 2 * WordBits - 1
      BY <2>3, WordFacts
    <3>2. 2 ^ (k + 1) <= r /\ 2 ^ (k + 1) = 2 * p
      BY <2>1, <3>1, TwoOrder, WordFacts, Zenon DEF Doubling
    <3>3. 2 * p <= r /\ r <= v
      BY <3>2, Zenon
    <3> HIDE DEF r, p
    <3> QED BY <3>3, <2>1, <1>1, <1>5, <1>10
  <2> QED BY <2>2, <2>3
<1> HIDE DEF p
<1>12. \A q \in s : p >= q
  BY <1>11, Zenon DEF PowersUpTo
<1>13. s \in SUBSET Int /\ p \in s
  <2>1. \A n \in 0 .. WordBits : 2 ^ n \in Int
    BY PowFacts
  <2>2. PowersUpTo \in SUBSET Int
    BY <2>1, Zenon DEF PowersUpTo
  <2> QED BY <2>2, <1>5, <1>7, Zenon
<1> HIDE DEF s
<1>14. B!Max(s) = p
  BY <1>12, <1>13, MaxIs, Zenon
<1> QED BY <1>9, <1>14, Zenon DEF s, v

\* The word without a bit wraps around to zero and to one.
LEMMA Pow2OfZero ==
  B!Pow2Up({}) = {} /\ B!Pow2Dn({}) = {0} /\ B!Lsb({}) = {} /\ B!PopLsb({}) = {}
<1>1. B!Minus({}, {0}) = Positions
  <2>1. 0 - 1 = -1
    OBVIOUS
  <2> QED BY <2>1, Constants, Zenon DEF B!Minus
<1>2. PICK k \in 0 .. WordBits : /\ B!Num(B!Smear(Positions)) + 1 = 2 ^ k
                                 /\ B!Num(Positions) < 2 ^ k
  BY Constants, SmearPower, Zenon
<1>3. 2 ^ k = Pow
  <2> DEFINE p == 2 ^ k
  <2>1. p \in Nat \ {0} /\ p <= Pow /\ Pow - 1 < p
    BY <1>2, PowFacts, Constants, Zenon
  <2> HIDE DEF p
  <2>2. p = Pow
    BY <2>1, PowFacts
  <2> QED BY <2>2 DEF p
<1>4. B!Pow2Up({}) = {}
  <2>1. B!Pow2Up({}) = B!Cast(Pow)
    BY <1>1, <1>2, <1>3, Constants, Zenon DEF B!Pow2Up, B!Plus
  <2>2. Pow % Pow = 0 % Pow /\ Pow \in Int /\ 0 \in Int
    <3>1. Pow = Pow * 1 + 0 /\ 0 = Pow * 0 + 0 /\ 0 \in 0 .. Pow - 1 /\ 1 \in Int /\ 0 \in Int
      BY PowFacts
    <3>2. (Pow * 1 + 0) % Pow = 0 /\ (Pow * 0 + 0) % Pow = 0
      BY <3>1, PowFacts, DivModOf, Zenon
    <3> QED BY <3>1, <3>2, PowFacts
  <2> QED BY <2>1, <2>2, CastSame, Constants, Zenon
<1>5. B!Pow2Dn({}) = {0}
  <2>1. Spread({}, 128) = {}
    BY DEF Spread
  <2>2. B!Num(B!Smear({})) + 1 = 1
    <3>1. 0 + 1 = 1
      OBVIOUS
    <3> QED BY <2>1, <3>1, SmearIs, Constants, Zenon
  <2> QED BY <2>2, NoneShifted, Constants, Zenon DEF B!Pow2Dn, B!Plus
<1>6. B!PopLsb({}) = {}
  BY DEF B!PopLsb
<1>7. B!Lsb({}) = {}
  BY <1>6 DEF B!Lsb, B!Xor
<1> QED BY <1>4, <1>5, <1>6, <1>7

LEMMA PopcntAdds ==
  ASSUME NEW x \in Words
  PROVE  B!Popcnt(x) = B!Popcnt(B!PopLsb(x)) + B!Popcnt(B!Lsb(x))
<1>1. \A s : B!Popcnt(s) = Cardinality(s)
  BY Zenon DEF B!Popcnt, B!Cardinality, Cardinality
<1>2. IsFiniteSet(x)
  <2>1. IsFiniteSet(0 .. WordBits - 1)
    BY WordFacts, FS_Interval
  <2>2. x \subseteq 0 .. WordBits - 1
    BY DEF Words, Positions
  <2> QED BY <2>1, <2>2, FS_Subset, Zenon
<1>3. CASE x = {}
  <2>1. Cardinality({}) = 0 /\ 0 + 0 = 0
    BY FS_EmptySet
  <2> QED BY <1>1, <1>3, <2>1, Pow2OfZero, Zenon
<1>4. CASE x # {}
  <2> DEFINE m == B!Min(x)
  <2>1. m \in x /\ B!PopLsb(x) = x \ {m} /\ B!Lsb(x) = {m}
    BY <1>4, LsbIs, Zenon
  <2> HIDE DEF m
  <2>2. Cardinality(x \ {m}) = Cardinality(x) - 1 /\ Cardinality(x) \in Nat
    BY <1>2, <2>1, FS_RemoveElement, FS_CardinalityType, Zenon
  <2>3. Cardinality({m}) = 1
    BY FS_Singleton, Zenon
  <2>4. Cardinality(x) = Cardinality(x \ {m}) + Cardinality({m})
    <3> DEFINE c == Cardinality(x)  d == Cardinality(x \ {m})
    <3>1. d = c - 1 /\ c \in Nat
      BY <2>2
    <3> HIDE DEF c, d
    <3>2. c = d + 1
      BY <3>1
    <3> QED BY <3>2, <2>3 DEF c, d
  <2> QED BY <1>1, <2>1, <2>4, Zenon
<1> QED BY <1>3, <1>4

LEMMA Pow2Hold ==
  ASSUME word \in Words
  PROVE  B!Pow2Right
<1>1. word = B!Zero <=> word = {}
  BY Constants, Zenon
<1>2. PowersUpTo = {2 ^ n : n \in 0 .. WordBits}
  BY DEF PowersUpTo
<1>3. B!IsPow2(word) <=> B!Num(word) \in PowersUpTo
  BY IsPow2Is, Zenon
<1>4. word # B!Zero =>
        /\ B!Num(B!Pow2Up(word)) = B!Min({p \in PowersUpTo : p >= B!Num(word)}) % 2 ^ WordBits
        /\ B!Num(B!Pow2Dn(word)) = B!Max({p \in PowersUpTo : p <= B!Num(word)})
        /\ B!Lsb(word) = {B!Min(word)} /\ B!PopLsb(word) = word \ {B!Min(word)}
  BY <1>1, Pow2UpIs, Pow2DnIs, LsbIs, Zenon DEF Pow
<1>5. word = B!Zero =>
        B!Pow2Up(word) = B!Zero /\ B!Pow2Dn(word) = B!One /\ B!Lsb(word) = B!Zero
  BY <1>1, Pow2OfZero, Constants, Zenon
<1>6. B!Popcnt(word) = B!Popcnt(B!PopLsb(word)) + B!Popcnt(B!Lsb(word))
  BY PopcntAdds, Zenon
<1> QED BY <1>2, <1>3, <1>4, <1>5, <1>6, Zenon DEF B!Pow2Right

-----------------------------------------------------------------------------
(* Alignment                                                                *)

LEMMA AlignMask ==
  ASSUME NEW n \in Positions
  PROVE  B!Pow2(n) = {n} /\ B!Minus(B!Pow2(n), B!One) = 0 .. n - 1
<1>1. n < WordBits /\ n \in 0 .. WordBits
  BY WordFacts DEF Positions
<1>2. B!Pow2(n) = {n}
  BY <1>1, ModIs, OneBit, Constants, Zenon DEF B!Pow2
<1>3. B!Minus({n}, {0}) = B!Cast(2 ^ n - 1)
  BY OneBit, Constants, Zenon DEF B!Minus
<1> QED BY <1>1, <1>2, <1>3, LowBits, Constants, Zenon

\* The next multiple is the sum with the mask, less its rest.
LEMMA LeastMultiple ==
  ASSUME NEW v \in Nat, NEW a \in Nat \ {0}
  PROVE  LET w == v + a - 1 IN
         B!Min({m \in v .. v + a - 1 : m % a = 0}) = w - (w % a)
<1> DEFINE w == v + a - 1  q == w \div a  r == w % a  g == w - r
           s == {m \in v .. v + a - 1 : m % a = 0}
<1>1. w \in Nat
  OBVIOUS
<1>2. w = a * q + r /\ r \in 0 .. a - 1 /\ q \in Int
  <2> HIDE DEF w
  <2> QED BY <1>1, DivMod
<1> HIDE DEF q, r
<1>3. g = a * q /\ g \in v .. v + a - 1
  BY <1>2
<1>4. g % a = 0
  <2>1. g = a * q + 0 /\ 0 \in 0 .. a - 1
    BY <1>2, <1>3
  <2> QED BY <2>1, <1>2, DivModOf
<1>5. \A y \in s : g <= y
  <2> SUFFICES ASSUME NEW y \in v .. v + a - 1, y % a = 0 PROVE g <= y
    OBVIOUS
  <2> HIDE DEF g
  <2>1. y \in Int /\ g \in Int
    BY <1>3
  <2>2. y - g < a /\ g - y < a
    BY <1>3
  <2>3. y = g
    BY <2>1, <2>2, <1>4, ModEqual, Zenon
  <2> QED BY <2>1, <2>3
<1>6. s \in SUBSET Int /\ g \in s
  BY <1>3, <1>4
<1> HIDE DEF s, g, w
<1>7. B!Min(s) = g
  BY <1>5, <1>6, MinIs, Zenon
<1> QED BY <1>7 DEF s, g, w, r

LEMMA AlignHold ==
  ASSUME word \in Words
  PROVE  B!AlignRight
<1> SUFFICES ASSUME NEW n \in Positions
             PROVE LET a == 2 ^ n  v == B!Num(word)  p == B!Pow2(n) IN
    /\ B!IsAligned(word, p) <=> v % a = 0
    /\ B!Num(B!Alignment(word, p)) = v % a
    /\ B!Num(B!AlignDn(word, p)) = v - (v % a)
    /\ B!Num(B!AlignUp(word, p)) = B!Min({m \in v .. v + a - 1 : m % a = 0}) % 2 ^ WordBits
  BY WordFacts, Zenon DEF B!AlignRight
<1> DEFINE a == 2 ^ n  v == B!Num(word)  p == B!Pow2(n)  f == 0 .. n - 1
<1>0. /\ word \subseteq Positions /\ B!Pos = Positions
      /\ n \in 0 .. WordBits /\ n \in 0 .. 2 * WordBits
      /\ WordBits \in 0 .. 2 * WordBits /\ n <= WordBits
  BY WordFacts DEF Words, Positions
<1>1. B!Minus(p, B!One) = f
  BY AlignMask, Zenon
<1>2. v \in Nat /\ a \in Nat \ {0}
  BY <1>0, NumNat, PowFacts, Zenon
<1>3. word \cap f \in Words
  BY <1>0 DEF Words
<1>4. B!Num(word \cap f) = v % a
  BY <1>0, NumLow, Zenon
<1>5. B!IsAligned(word, p) <=> v % a = 0
  BY <1>1, <1>3, <1>4, NumZero, Constants, Zenon DEF B!IsAligned
<1>6. B!Num(B!Alignment(word, p)) = v % a
  BY <1>1, <1>4, Zenon DEF B!Alignment
<1>7. \A y \in Words : y \cap B!Not(f) = y \ f
  BY <1>0 DEF Words, B!Not
<1>8. B!Num(B!AlignDn(word, p)) = v - (v % a)
  BY <1>0, <1>1, <1>7, NumHigh, Zenon DEF B!AlignDn
<1>9. B!Num(B!AlignUp(word, p)) = B!Min({m \in v .. v + a - 1 : m % a = 0}) % Pow
  <2> DEFINE w == v + a - 1  y == B!Cast(w)  u == w % Pow
  <2>1. w \in Nat /\ w \in Int /\ v + (a - 1) = w
    <3> HIDE DEF v, a
    <3> QED BY <1>2
  <2>2. y \in Words /\ B!Num(y) = u
    BY <2>1, CastIsWord, Zenon DEF Pow, Words
  <2>3. B!Plus(word, f) = y
    <3>1. B!Num(f) = a - 1
      BY <1>0, LowBits, Zenon
    <3>2. B!Plus(word, f) = B!Cast(v + (a - 1))
      BY <3>1, Zenon DEF B!Plus
    <3> QED BY <3>2, <2>1, Zenon
  <2> HIDE DEF y
  <2>4. B!AlignUp(word, p) = y \ f
    BY <1>1, <1>7, <2>2, <2>3, Zenon DEF B!AlignUp
  <2>5. B!Num(B!AlignUp(word, p)) = u - (u % a)
    BY <1>0, <2>2, <2>4, NumHigh, Zenon
  <2>6. B!Min({m \in v .. v + a - 1 : m % a = 0}) = w - (w % a)
    BY <1>2, LeastMultiple, Zenon
  <2> DEFINE h == 2 ^ (WordBits - n)
  <2>7. Pow = a * h /\ h \in Nat \ {0}
    BY <1>0, TwoOrder, Zenon DEF Pow
  <2> HIDE DEF v, a, h, w
  <2>8. u % a = w % a
    BY <2>1, <2>7, <1>2, ModMod, Zenon
  <2> DEFINE r == w % a  k == w \div Pow
  <2>9. w = Pow * k + u /\ u \in 0 .. Pow - 1 /\ k \in Int
    BY <2>1, PowFacts, DivMod, Zenon
  <2>10. r \in 0 .. a - 1
    BY <2>1, <1>2, DivMod, Zenon
  <2>11. r <= u
    <3> DEFINE z == u \div a
    <3>0. r = u % a
      BY <2>8
    <3> HIDE DEF r, k, u
    <3>1. u \in Nat /\ u \in Int
      BY <2>9, PowFacts
    <3>2. z \in Nat
      BY <3>1, <1>2, DivBelow, Zenon
    <3>3. u = a * z + r
      BY <3>0, <3>1, <1>2, DivMod, Zenon
    <3> HIDE DEF z
    <3> DEFINE t == a * z
    <3>4. t \in Nat /\ u = t + r
      BY <3>2, <3>3, <1>2
    <3> HIDE DEF t
    <3> QED BY <3>1, <3>4, <1>2, <2>10
  <2> HIDE DEF r, k, u
  <2>12. w - r = Pow * k + (u - r) /\ u - r \in 0 .. Pow - 1
    BY <2>9, <2>10, <2>11, PowFacts
  <2>13. (w - r) % Pow = u - r
    <3> DEFINE d == u - r
    <3>1. w - r = Pow * k + d /\ d \in 0 .. Pow - 1
      BY <2>12
    <3> HIDE DEF d
    <3>2. (Pow * k + d) % Pow = d
      BY <3>1, <2>9, PowFacts, DivModOf
    <3> QED BY <3>1, <3>2 DEF d
  <2> QED BY <2>5, <2>6, <2>8, <2>13, Zenon DEF r
<1> QED BY <1>5, <1>6, <1>8, <1>9, Zenon DEF Pow

-----------------------------------------------------------------------------
(* Shifts and rotations                                                     *)

LEMMA ShiftLeftIs ==
  ASSUME NEW x \in Words, NEW n \in 0 .. 2 * WordBits
  PROVE  B!Num(B!ShiftLeft(x, n)) = (B!Num(x) * 2 ^ n) % Pow
<1>0. WordBits \in 0 .. 2 * WordBits /\ n \in Int
  BY WordFacts
<1>1. CASE n < WordBits
  <2>1. n \in Positions /\ n \in 0 .. WordBits /\ ~(n > WordBits - 1)
    BY <1>1, <1>0, WordFacts DEF Positions
  <2>2. B!ShiftLeft(x, n) = B!Shl(x, n)
    BY <2>1, ModIs, Zenon DEF B!ShiftLeft
  <2> QED BY <2>1, <2>2, NumShl, Zenon
<1>2. CASE ~(n < WordBits)
  <2>1. n > WordBits - 1 /\ WordBits <= n
    BY <1>2, <1>0, WordFacts
  <2>2. B!Num(B!ShiftLeft(x, n)) = 0
    BY <2>1, NoneShifted, Constants, Zenon DEF B!ShiftLeft
  <2> DEFINE h == 2 ^ (n - WordBits)  v == B!Num(x)  p == 2 ^ n
  <2>3. p = Pow * h /\ h \in Nat \ {0}
    BY <1>0, <2>1, TwoOrder, Zenon DEF Pow
  <2>4. v \in Int /\ Pow \in Nat \ {0}
    BY NumNat, PowFacts, Zenon
  <2> HIDE DEF h, v, p
  <2>5. v * p = Pow * (v * h) + 0 /\ v * h \in Int /\ 0 \in 0 .. Pow - 1
    BY <2>3, <2>4
  <2>6. (v * p) % Pow = 0
    BY <2>4, <2>5, DivModOf
  <2> QED BY <2>2, <2>6, Zenon DEF v, p
<1> QED BY <1>1, <1>2, Zenon

LEMMA ShiftRightIs ==
  ASSUME NEW x \in Words, NEW n \in 0 .. 2 * WordBits
  PROVE  B!Num(B!ShiftRight(x, n)) = B!Num(x) \div 2 ^ n
<1>0. WordBits \in 0 .. 2 * WordBits /\ n \in Int
  BY WordFacts
<1>1. CASE n < WordBits
  <2>1. n \in Positions /\ n \in 0 .. WordBits /\ ~(n > WordBits - 1)
    BY <1>1, <1>0, WordFacts DEF Positions
  <2>2. B!ShiftRight(x, n) = B!Shr(x, n)
    BY <2>1, ModIs, Zenon DEF B!ShiftRight
  <2> QED BY <2>1, <2>2, NumShr, Zenon
<1>2. CASE ~(n < WordBits)
  <2>1. n > WordBits - 1 /\ WordBits <= n
    BY <1>2, <1>0, WordFacts
  <2>2. B!Num(B!ShiftRight(x, n)) = 0
    BY <2>1, NoneShifted, Constants, Zenon DEF B!ShiftRight
  <2> DEFINE v == B!Num(x)  p == 2 ^ n
  <2>3. Pow <= p
    BY <1>0, <2>1, TwoOrder, Zenon DEF Pow
  <2>4. v \in 0 .. Pow - 1 /\ Pow \in Nat \ {0} /\ p \in Nat \ {0}
    BY NumNat, PowFacts, TwoTo, Zenon
  <2> HIDE DEF v, p
  <2>5. v \in 0 .. p - 1 /\ p * 0 + v = v /\ 0 \in Int
    BY <2>3, <2>4
  <2>6. v \div p = 0
    BY <2>4, <2>5, DivModOf, Zenon
  <2> QED BY <2>2, <2>6, Zenon DEF v, p
<1> QED BY <1>1, <1>2, Zenon

\* Signed words: half of the numbers are negative.
Half == 2 ^ (WordBits - 1)

LEMMA HalfFacts ==
  /\ Half \in Nat \ {0} /\ Pow = 2 * Half /\ Pow \in Nat \ {0}
  /\ WordBits - 1 \in Positions /\ WordBits - 1 \in 0 .. WordBits
  /\ WordBits - 1 \in 0 .. 2 * WordBits
<1>1. /\ WordBits - 1 \in Positions /\ WordBits - 1 \in 0 .. WordBits
      /\ WordBits - 1 \in 0 .. 2 * WordBits /\ WordBits - 1 \in 0 .. 2 * WordBits - 1
      /\ (WordBits - 1) + 1 = WordBits
  BY WordFacts DEF Positions
<1>2. 2 ^ ((WordBits - 1) + 1) = 2 * Half
  BY <1>1, WordFacts, Zenon DEF Doubling, Half
<1>3. Half \in Nat \ {0}
  BY <1>1, TwoTo, Zenon DEF Half
<1> QED BY <1>1, <1>2, <1>3, PowFacts, Zenon DEF Pow

LEMMA SignIs ==
  ASSUME NEW x \in Words
  PROVE  WordBits - 1 \in x <=> B!Num(x) >= Half
<1> DEFINE v == B!Num(x)  q == v \div Half  r == v % Half
<1>1. v \in Nat /\ v < Pow /\ v \in Int
  BY NumNat, Zenon
<1>2. Half \in Nat \ {0} /\ Pow = 2 * Half
  BY HalfFacts, Zenon
<1>3. WordBits - 1 \in x <=> q % 2 = 1
  BY HalfFacts, BitOfWord, Zenon DEF Bit, Half
<1> HIDE DEF v
<1>4. v = Half * q + r /\ r \in 0 .. Half - 1 /\ q \in Int
  BY <1>1, <1>2, DivMod, Zenon
<1> HIDE DEF q, r
<1>5. q \in {0, 1}
  <2>1. q >= 2 => Half * q >= 2 * Half
    BY <1>2, <1>4
  <2>2. q <= -1 => Half * q <= -Half
    BY <1>2, <1>4
  <2> DEFINE t == Half * q
  <2>3. t \in Int /\ v = t + r
    BY <1>2, <1>4
  <2>4. (q >= 2 => t >= 2 * Half) /\ (q <= -1 => t <= -Half)
    BY <2>1, <2>2
  <2> HIDE DEF t
  <2> QED BY <2>3, <2>4, <1>1, <1>2, <1>4
<1>6. q = 0 => v = r
  BY <1>2, <1>4
<1>7. q = 1 => v = Half + r
  BY <1>2, <1>4
<1>8. q % 2 = q
  BY <1>5
<1>9. q % 2 = 1 <=> v >= Half
  BY <1>2, <1>4, <1>5, <1>6, <1>7, <1>8
<1> QED BY <1>3, <1>9, Zenon DEF v

LEMMA SNumFacts ==
  ASSUME NEW x \in Words
  PROVE  /\ B!SNum(x) = IF WordBits - 1 \in x THEN B!Num(x) - Pow ELSE B!Num(x)
         /\ B!SNum(x) \in -Half .. Half - 1 /\ B!SNum(x) \in Int
         /\ WordBits - 1 \in x <=> B!SNum(x) < 0
         /\ B!SNum(x) % Pow = B!Num(x)
         /\ B!Cast(B!SNum(x)) = x
<1> DEFINE v == B!Num(x)  s == B!SNum(x)
<1>1. s = IF WordBits - 1 \in x THEN v - Pow ELSE v
  BY Zenon DEF B!SNum, Pow
<1>2. v \in Nat /\ v < Pow /\ v \in Int /\ v \in 0 .. Pow - 1 /\ v % Pow = v
  BY NumNat, Zenon
<1>3. WordBits - 1 \in x <=> v >= Half
  BY SignIs, Zenon
<1> HIDE DEF v, s
<1>4. /\ s \in -Half .. Half - 1 /\ s \in Int
      /\ WordBits - 1 \in x <=> s < 0
      /\ s < 0 => s = Pow * (-1) + v
      /\ ~(s < 0) => s = v
  BY <1>1, <1>2, <1>3, HalfFacts
<1>5. s % Pow = v
  <2>1. (Pow * (-1) + v) % Pow = v
    <3>1. -1 \in Int
      OBVIOUS
    <3> QED BY <1>2, <3>1, HalfFacts, DivModOf, Zenon
  <2> QED BY <1>2, <1>4, <2>1, Zenon
<1>6. B!Cast(s) = x
  <2>1. B!Cast(s) = B!Cast(v)
    BY <1>2, <1>4, <1>5, CastSame, Zenon
  <2> QED BY <2>1, CastOfNum, Zenon DEF v, Words
<1> QED BY <1>1, <1>4, <1>5, <1>6, Zenon DEF v, s

LEMMA SNumOfCast ==
  ASSUME NEW m \in -Half .. Half - 1
  PROVE  B!SNum(B!Cast(m)) = m
<1> DEFINE y == B!Cast(m)  u == m % Pow  s == B!SNum(y)
<1>1. m \in Int
  BY HalfFacts
<1>2. y \in Words /\ B!Num(y) = u
  BY <1>1, CastIsWord, Zenon DEF Words, Pow
<1> HIDE DEF y
<1>3. s \in -Half .. Half - 1 /\ s \in Int /\ s % Pow = m % Pow
  BY <1>2, SNumFacts, Zenon
<1> HIDE DEF s
<1>4. s - m < Pow /\ m - s < Pow /\ Pow \in Nat \ {0}
  BY <1>1, <1>3, HalfFacts
<1>5. s = m
  BY <1>1, <1>3, <1>4, ModEqual, Zenon
<1> QED BY <1>5, Zenon DEF s, y

\* Above the word the bits of a signed number are its sign.
LEMMA BitOfSigned ==
  ASSUME NEW x \in Words, NEW i \in 0 .. 2 * WordBits
  PROVE  Bit(B!SNum(x), i) = 1 <=> IF i < WordBits THEN i \in x ELSE WordBits - 1 \in x
<1> DEFINE v == B!Num(x)  s == B!SNum(x)
<1>0. /\ v \in Int /\ s \in Int /\ s % Pow = v /\ v % Pow = v
      /\ s = IF WordBits - 1 \in x THEN v - Pow ELSE v
  BY SNumFacts, NumNat, Zenon
<1>00. Bit(v, i) = 1 <=> i \in x
  BY BitOfWord, Zenon
<1>000. WordBits \in 0 .. 2 * WordBits
  BY WordFacts
<1>1. CASE i < WordBits
  <2>1. Bit(s % Pow, i) = Bit(s, i)
    BY <1>0, <1>000, <1>1, BitLow, Zenon DEF Pow
  <2> QED BY <2>1, <1>0, <1>00, <1>1, Zenon
<1>2. CASE ~(i < WordBits)
  <2>0. i \notin x /\ i \notin Positions \ x
    BY <1>2, WordFacts DEF Words, Positions
  <2>1. CASE WordBits - 1 \notin x
    BY <2>0, <2>1, <1>0, <1>00, <1>2, Zenon
  <2>2. CASE WordBits - 1 \in x
    <3> DEFINE u == Pow - 1 - v
    <3>1. Positions \ x \in Words /\ B!Num(Positions \ x) = u
      BY NumNot, Zenon DEF Words
    <3>2. s = v - Pow
      BY <1>0, <2>2, Zenon
    <3> HIDE DEF v
    <3>3. u \in Int /\ s = -1 - u
      BY <3>2, <1>0, HalfFacts
    <3> HIDE DEF u, s
    <3>4. ~(Bit(u, i) = 1)
      BY <3>1, <2>0, BitOfWord, Zenon
    <3>5. Bit(-1 - u, i) = 1 - Bit(u, i) /\ Bit(u, i) \in {0, 1}
      BY <3>3, BitNot, BitIs, Zenon
    <3>6. Bit(s, i) = 1
      BY <3>3, <3>4, <3>5
    <3> QED BY <3>6, <2>2, <1>2, Zenon DEF s
  <2> QED BY <2>1, <2>2, Zenon
<1> QED BY <1>1, <1>2, Zenon

\* Far shifts leave the sign alone.
LEMMA SignDiv ==
  ASSUME NEW m \in -Half .. Half - 1, NEW p \in Nat \ {0}, Half <= p
  PROVE  m \div p = IF m < 0 THEN -1 ELSE 0
<1>1. m \in Int /\ m < Half /\ -Half <= m
  BY HalfFacts
<1>2. CASE m < 0
  <2> DEFINE r == m + p
  <2>1. r \in 0 .. p - 1 /\ p * (-1) + r = m /\ -1 \in Int
    BY <1>1, <1>2, HalfFacts
  <2> HIDE DEF r
  <2>2. (p * (-1) + r) \div p = -1
    BY <2>1, DivModOf, Zenon
  <2> QED BY <2>1, <2>2, <1>2
<1>3. CASE ~(m < 0)
  <2>1. m \in 0 .. p - 1 /\ p * 0 + m = m /\ 0 \in Int
    BY <1>1, <1>3, HalfFacts
  <2>2. (p * 0 + m) \div p = 0
    BY <2>1, DivModOf, Zenon
  <2> QED BY <2>1, <2>2, <1>3
<1> QED BY <1>2, <1>3

LEMMA SignedDiv ==
  ASSUME NEW m \in -Half .. Half - 1, NEW p \in Nat \ {0}
  PROVE  m \div p \in -Half .. Half - 1
<1>1. m \in Int /\ m < Half /\ -Half <= m
  BY HalfFacts
<1>2. CASE m < 0
  <2> DEFINE u == -1 - m  q == u \div p
  <2>1. u \in 0 .. Half - 1 /\ u \in Nat /\ u \in Int /\ -1 - u = m
    BY <1>1, <1>2, HalfFacts
  <2> HIDE DEF u
  <2>2. (-1 - u) \div p = -1 - q
    BY <2>1, DivNot, Zenon
  <2>3. q \in Nat /\ q <= u
    BY <2>1, DivBelow, Zenon
  <2> HIDE DEF q
  <2>4. -1 - q \in -Half .. Half - 1
    BY <2>1, <2>3, HalfFacts
  <2> QED BY <2>1, <2>2, <2>4
<1>3. CASE ~(m < 0)
  <2> DEFINE q == m \div p
  <2>1. m \in Nat
    BY <1>1, <1>3
  <2>2. q \in Nat /\ q <= m
    BY <2>1, DivBelow, Zenon
  <2> HIDE DEF q
  <2>3. q \in -Half .. Half - 1
    BY <2>2, <1>1, HalfFacts
  <2> QED BY <2>3 DEF q
<1> QED BY <1>2, <1>3

LEMMA SarIs ==
  ASSUME NEW x \in Words, NEW n \in 0 .. WordBits
  PROVE  /\ B!Sar(x, n) \in Words
         /\ B!SNum(B!Sar(x, n)) = B!SNum(x) \div 2 ^ n
<1> DEFINE y == B!Sar(x, n)  s == B!SNum(x)  d == s \div 2 ^ n
<1>1. n \in 0 .. 2 * WordBits
  BY WordFacts
<1>2. s \in Int /\ s \in -Half .. Half - 1 /\ 2 ^ n \in Nat \ {0}
  BY <1>1, SNumFacts, TwoTo, Zenon
<1>3. d \in -Half .. Half - 1
  BY <1>2, SignedDiv, Zenon
<1>4. d \in Int
  BY <1>3, HalfFacts
<1>5. y \subseteq Positions
  BY WordFacts, ShiftsAreWords DEF Words, B!Sar
<1>6. ASSUME NEW i \in Positions PROVE i \in y <=> Bit(d, i) = 1
  <2>1. i \in 0 .. 2 * WordBits - n /\ i + n \in 0 .. 2 * WordBits
    BY WordFacts DEF Positions
  <2>2. Bit(d, i) = Bit(s, i + n)
    BY <1>1, <1>2, <2>1, BitShr, Zenon
  <2>3. Bit(s, i + n) = 1 <=> IF i + n < WordBits THEN i + n \in x ELSE WordBits - 1 \in x
    BY <2>1, BitOfSigned, Zenon
  <2>4. i \in B!Shr(x, n) <=> i + n \in x
    BY InShiftLeft, Zenon
  <2>5. i \in y <=> i + n \in x \/ (WordBits - 1 \in x /\ i >= WordBits - n)
    BY <2>4, WordFacts, Zenon DEF B!Sar
  <2>6. i + n \in x => i + n < WordBits
    BY WordFacts DEF Words, Positions
  <2>7. i >= WordBits - n <=> ~(i + n < WordBits)
    BY WordFacts DEF Positions
  <2> QED BY <2>2, <2>3, <2>5, <2>6, <2>7, Zenon
<1> HIDE DEF y, d
<1>7. y = B!Cast(d)
  BY <1>4, <1>5, <1>6, WordIs, Zenon
<1>8. B!SNum(y) = d
  BY <1>3, <1>7, SNumOfCast, Zenon
<1> QED BY <1>5, <1>8, Zenon DEF y, d, s, Words

LEMMA SShiftRightIs ==
  ASSUME NEW x \in Words, NEW n \in 0 .. 2 * WordBits
  PROVE  B!SNum(B!SShiftRight(x, n)) = B!SNum(x) \div 2 ^ n
<1>0. WordBits \in Nat /\ n \in Int
  BY WordFacts
<1>1. CASE n > WordBits - 1
  <2> DEFINE s == B!SNum(x)  p == 2 ^ n
  <2>1. WordBits - 1 <= n
    BY <1>0, <1>1
  <2>2. s \in -Half .. Half - 1 /\ Half \in Nat \ {0} /\ p \in Nat \ {0}
        /\ Half <= p /\ Half <= Half
    <3>1. Half <= p
      BY <2>1, HalfFacts, TwoOrder, Zenon DEF Half
    <3> QED BY <3>1, HalfFacts, SNumFacts, TwoTo
  <2> HIDE DEF p
  <2>3. s \div p = s \div Half
    BY <2>2, SignDiv, Zenon
  <2>4. B!SShiftRight(x, n) = B!Sar(x, WordBits - 1)
    BY <1>1, Zenon DEF B!SShiftRight
  <2>5. B!SNum(B!Sar(x, WordBits - 1)) = s \div Half
    BY HalfFacts, SarIs, Zenon DEF Half
  <2> QED BY <2>3, <2>4, <2>5, Zenon DEF p
<1>2. CASE ~(n > WordBits - 1)
  <2>1. n \in 0 .. WordBits
    BY <1>0, <1>2
  <2>2. B!SShiftRight(x, n) = B!Sar(x, n)
    BY <1>2, Zenon DEF B!SShiftRight
  <2> QED BY <2>1, <2>2, SarIs, Zenon
<1> QED BY <1>1, <1>2, Zenon

\* A position, r places further around the word.
Turn(i, r) == IF i + r < WordBits THEN i + r ELSE i + r - WordBits
Back(r) == IF r = 0 THEN 0 ELSE WordBits - r

LEMMA Turns ==
  ASSUME NEW n \in 0 .. 2 * WordBits
  PROVE  /\ B!Mod(n) \in Positions /\ B!Mod(-n) = Back(B!Mod(n))
         /\ \A i \in Positions : (i + n) % WordBits = Turn(i, B!Mod(n))
<1> DEFINE q == n \div WordBits  r == n % WordBits
<1>0. WordBits \in Nat \ {0} /\ n \in Int
  BY WordFacts
<1>1. n = WordBits * q + r /\ r \in 0 .. WordBits - 1 /\ q \in Int
  BY <1>0, DivMod, Zenon
<1>2. B!Mod(n) = r /\ B!Mod(-n) = (-n) % WordBits
  BY Zenon DEF B!Mod
<1> HIDE DEF q, r
<1>3. (-n) % WordBits = Back(r)
  <2> DEFINE b == Back(r)  k == IF r = 0 THEN -q ELSE -1 - q
  <2>1. b \in 0 .. WordBits - 1 /\ k \in Int
    BY <1>0, <1>1 DEF Back
  <2>2. -n = WordBits * k + b
    <3>1. r = 0 => WordBits * (-q) = -(WordBits * q)
      BY <1>0, <1>1
    <3>2. WordBits * (-1 - q) = -WordBits - (WordBits * q)
      BY <1>0, <1>1
    <3> DEFINE t == WordBits * q
    <3>3. t \in Int /\ n = t + r
      BY <1>0, <1>1
    <3>4. CASE r = 0
      <4>1. WordBits * k = -t /\ b = 0
        BY <3>1, <3>4 DEF Back
      <4> HIDE DEF t, k, b
      <4> QED BY <4>1, <3>3, <3>4
    <3>5. CASE r # 0
      <4>1. WordBits * k = -WordBits - t /\ b = WordBits - r
        BY <3>2, <3>5 DEF Back
      <4> HIDE DEF t, k, b
      <4> QED BY <4>1, <3>3, <3>5, <1>0, <1>1
    <3> QED BY <3>4, <3>5
  <2> HIDE DEF b, k
  <2>3. (WordBits * k + b) % WordBits = b
    BY <2>1, <1>0, DivModOf, Zenon
  <2> QED BY <2>2, <2>3, Zenon DEF b
<1>4. ASSUME NEW i \in Positions PROVE (i + n) % WordBits = Turn(i, r)
  <2> DEFINE b == Turn(i, r)  k == IF i + r < WordBits THEN q ELSE q + 1
  <2>0. i \in 0 .. WordBits - 1
    BY DEF Positions
  <2>1. b \in 0 .. WordBits - 1 /\ k \in Int
    BY <1>0, <1>1, <2>0 DEF Turn
  <2>2. i + n = WordBits * k + b
    <3>1. WordBits * (q + 1) = WordBits * q + WordBits
      BY <1>0, <1>1
    <3> DEFINE t == WordBits * q
    <3>3. t \in Int /\ n = t + r
      BY <1>0, <1>1
    <3>4. CASE i + r < WordBits
      <4>1. WordBits * k = t /\ b = i + r
        BY <3>4 DEF Turn
      <4> HIDE DEF t, k, b
      <4> QED BY <4>1, <3>3, <3>4, <2>0, <1>1
    <3>5. CASE ~(i + r < WordBits)
      <4>1. WordBits * k = t + WordBits /\ b = i + r - WordBits
        BY <3>1, <3>5 DEF Turn
      <4> HIDE DEF t, k, b
      <4> QED BY <4>1, <3>3, <3>5, <2>0, <1>0, <1>1
    <3> QED BY <3>4, <3>5
  <2> HIDE DEF b, k
  <2>3. (WordBits * k + b) % WordBits = b
    BY <2>1, <1>0, DivModOf, Zenon
  <2> QED BY <2>2, <2>3, Zenon DEF b
<1> QED BY <1>1, <1>2, <1>3, <1>4 DEF Positions

LEMMA RotIs ==
  ASSUME NEW x \in Words, NEW r \in Positions
  PROVE  B!Shl(x, r) \cup B!Shr(x, Back(r)) = {Turn(i, r) : i \in x}
<1>1. ASSUME NEW i \in x
      PROVE Turn(i, r) \in B!Shl(x, r) \cup B!Shr(x, Back(r))
  <2> DEFINE j == Turn(i, r)
  <2>1. i \in Positions
    BY DEF Words
  <2>2. j \in Positions /\ (j - r = i \/ j + Back(r) = i)
    BY <2>1, WordFacts DEF Positions, Turn, Back
  <2> HIDE DEF j
  <2>3. j \in B!Shl(x, r) \/ j \in B!Shr(x, Back(r))
    BY <2>2, InShiftLeft, Zenon
  <2> QED BY <2>3 DEF j
<1>2. ASSUME NEW j \in B!Shl(x, r) \cup B!Shr(x, Back(r))
      PROVE \E i \in x : j = Turn(i, r)
  <2>1. j \in Positions /\ (j - r \in x \/ j + Back(r) \in x)
    BY InShiftLeft, Zenon
  <2>2. CASE j - r \in x
    <3>1. j = Turn(j - r, r)
      BY <2>1, WordFacts DEF Positions, Turn
    <3> QED BY <3>1, <2>2, Zenon
  <2>3. CASE j + Back(r) \in x
    <3>1. j + Back(r) \in Positions
      BY <2>3 DEF Words
    <3>2. j = Turn(j + Back(r), r)
      BY <2>1, <3>1, WordFacts DEF Positions, Turn, Back
    <3> QED BY <3>2, <2>3, Zenon
  <2> QED BY <2>1, <2>2, <2>3, Zenon
<1> QED BY <1>1, <1>2

\* Turning back and on again.
LEMMA TurnBack ==
  ASSUME NEW r \in Positions
  PROVE  /\ Back(r) \in Positions /\ Back(Back(r)) = r
         /\ \A i \in Positions : /\ Turn(i, Back(r)) \in Positions
                               /\ Turn(Turn(i, Back(r)), r) = i
<1> DEFINE s == Back(r)
<1>1. s \in Positions /\ Back(s) = r
  BY WordFacts DEF Positions, Back
<1>2. ASSUME NEW i \in Positions
      PROVE Turn(i, s) \in Positions /\ Turn(Turn(i, s), r) = i
  <2> DEFINE j == Turn(i, s)
  <2>1. j \in Positions
    BY <1>1, WordFacts DEF Positions, Turn
  <2>2. j = IF r = 0 THEN i ELSE IF i - r >= 0 THEN i - r ELSE i - r + WordBits
    BY WordFacts DEF Positions, Turn, Back
  <2> HIDE DEF j
  <2>3. Turn(j, r) = i
    BY <2>2, WordFacts DEF Positions, Turn
  <2> QED BY <2>1, <2>3 DEF j
<1> QED BY <1>1, <1>2

LEMMA ShiftsHold ==
  ASSUME word \in Words
  PROVE  B!ShiftsRight
<1> SUFFICES ASSUME NEW n \in 0 .. 2 * WordBits
             PROVE
    /\ B!Num(B!ShiftLeft(word, n)) = (B!Num(word) * 2 ^ n) % Pow
    /\ B!Num(B!ShiftRight(word, n)) = B!Num(word) \div 2 ^ n
    /\ B!SNum(B!SShiftRight(word, n)) = B!SNum(word) \div 2 ^ n
    /\ B!RotateLeft(word, n) = {(i + n) % WordBits : i \in word}
    /\ B!RotateLeft(word, -n) = B!RotateRight(word, n)
    /\ B!RotateLeft(B!RotateRight(word, n), n) = word
  BY Zenon DEF B!ShiftsRight, Pow
<1> DEFINE r == B!Mod(n)  s == Back(r)
<1>1. /\ r \in Positions /\ B!Mod(-n) = s
      /\ \A i \in Positions : (i + n) % WordBits = Turn(i, r)
  BY Turns, Zenon
<1> HIDE DEF r
<1>2. B!RotateLeft(word, n) = {Turn(i, r) : i \in word}
  BY <1>1, RotIs, Zenon DEF B!RotateLeft, r
<1>3. {Turn(i, r) : i \in word} = {(i + n) % WordBits : i \in word}
  <2>1. \A i \in word : Turn(i, r) = (i + n) % WordBits
    BY <1>1 DEF Words
  <2> QED BY <2>1, Zenon
<1>4. B!RotateLeft(word, -n) = B!RotateRight(word, n)
  <2>1. -(-n) = n
    BY WordFacts
  <2>2. B!RotateLeft(word, -n) = B!Shl(word, B!Mod(-n)) \cup B!Shr(word, B!Mod(n))
    BY <2>1, Zenon DEF B!RotateLeft
  <2>3. B!RotateRight(word, n) = B!Shr(word, B!Mod(n)) \cup B!Shl(word, B!Mod(-n))
    BY Zenon DEF B!RotateRight
  <2> QED BY <2>2, <2>3
<1>5. B!RotateLeft(B!RotateRight(word, n), n) = word
  <2> DEFINE y == {Turn(i, s) : i \in word}
  <2>1. s \in Positions /\ Back(s) = r
    BY <1>1, TurnBack, Zenon
  <2>2. B!Shl(word, s) \cup B!Shr(word, r) = y
    BY <2>1, RotIs, Zenon
  <2>3. B!RotateRight(word, n) = y
    <3>1. B!RotateRight(word, n) = B!Shr(word, r) \cup B!Shl(word, s)
      BY <1>1, Zenon DEF B!RotateRight, r
    <3> QED BY <3>1, <2>2
  <2>4. \A i \in word : i \in Positions /\ Turn(i, s) \in Positions
                        /\ Turn(Turn(i, s), r) = i
    <3>1. \A i \in word : i \in Positions
      BY DEF Words
    <3> QED BY <3>1, <1>1, TurnBack, Zenon
  <2>5. y \in Words
    BY <2>4 DEF Words
  <2>6. B!RotateLeft(y, n) = {Turn(i, r) : i \in y}
    <3>1. B!RotateLeft(y, n) = B!Shl(y, r) \cup B!Shr(y, s)
      BY <1>1, Zenon DEF B!RotateLeft, r
    <3> HIDE DEF y
    <3> QED BY <3>1, <2>5, <1>1, RotIs, Zenon
  <2>7. {Turn(i, r) : i \in y} = word
    BY <2>4
  <2> QED BY <2>3, <2>6, <2>7, Zenon
<1>6. /\ B!Num(B!ShiftLeft(word, n)) = (B!Num(word) * 2 ^ n) % Pow
      /\ B!Num(B!ShiftRight(word, n)) = B!Num(word) \div 2 ^ n
      /\ B!SNum(B!SShiftRight(word, n)) = B!SNum(word) \div 2 ^ n
  BY ShiftLeftIs, ShiftRightIs, SShiftRightIs, Zenon
<1> QED BY <1>2, <1>3, <1>4, <1>5, <1>6, Zenon

-----------------------------------------------------------------------------
(* Signed words                                                             *)

\* The shift by all places but one spreads the sign.
LEMMA SignMask ==
  ASSUME NEW x \in Words
  PROVE  B!Sar(x, WordBits - 1) = IF WordBits - 1 \in x THEN Positions ELSE {}
<1> DEFINE y == B!Sar(x, WordBits - 1)  s == B!SNum(x)
<1>1. y \in Words /\ B!SNum(y) = s \div Half
  BY HalfFacts, SarIs, Zenon DEF Half
<1>2. s \div Half = IF s < 0 THEN -1 ELSE 0
  <2>1. s \in -Half .. Half - 1 /\ Half \in Nat \ {0} /\ Half <= Half
    BY SNumFacts, HalfFacts
  <2> QED BY <2>1, SignDiv, Zenon
<1>3. B!Cast(B!SNum(y)) = y /\ (WordBits - 1 \in x <=> s < 0)
  BY <1>1, SNumFacts, Zenon
<1> QED BY <1>1, <1>2, <1>3, Constants, Zenon

LEMMA XorIs ==
  ASSUME NEW x \in Words
  PROVE  /\ B!Xor(x, {}) = x /\ B!Xor({}, x) = x
         /\ B!Xor(x, Positions) = Positions \ x /\ B!Xor(Positions, x) = Positions \ x
BY DEF B!Xor, Words

LEMMA AbsIs ==
  ASSUME NEW x \in Words
  PROVE  B!Num(B!Abs(x)) = IF B!SNum(x) < 0 THEN -B!SNum(x) ELSE B!SNum(x)
<1> DEFINE v == B!Num(x)  s == B!SNum(x)
<1>1. /\ v \in Int /\ v \in 0 .. Pow - 1
      /\ s = IF WordBits - 1 \in x THEN v - Pow ELSE v
      /\ WordBits - 1 \in x <=> s < 0
  BY NumNat, SNumFacts, Zenon
<1>2. CASE WordBits - 1 \in x
  <2> DEFINE w == v + Pow - 1  y == B!Cast(w)
  <2>1. s = v - Pow /\ s < 0 /\ v >= Half
    BY <1>1, <1>2, SignIs, Zenon
  <2>2. B!Abs(x) = B!Xor(B!Plus(x, Positions), Positions)
    BY <1>2, SignMask, Zenon DEF B!Abs
  <2>3. B!Plus(x, Positions) = y
    BY Constants, Zenon DEF B!Plus
  <2> HIDE DEF v, s
  <2>4. w \in Int /\ v - 1 \in 0 .. Pow - 1 /\ w = Pow * 1 + (v - 1) /\ 1 \in Int
    BY <1>1, <2>1, HalfFacts
  <2> HIDE DEF w
  <2>5. (Pow * 1 + (v - 1)) % Pow = v - 1
    <3> DEFINE u == v - 1
    <3>1. u \in 0 .. Pow - 1
      BY <2>4
    <3> HIDE DEF u
    <3>2. (Pow * 1 + u) % Pow = u
      BY <3>1, <2>4, HalfFacts, DivModOf, Zenon
    <3> QED BY <3>2, Zenon DEF u
  <2>6. y \in Words /\ B!Num(y) = v - 1
    <3>1. y \in Words /\ B!Num(y) = w % Pow
      BY <2>4, CastIsWord, Zenon DEF Words, Pow
    <3> QED BY <3>1, <2>4, <2>5, Zenon
  <2> HIDE DEF y
  <2>7. B!Num(Positions \ y) = Pow - 1 - (v - 1) /\ B!Xor(y, Positions) = Positions \ y
    BY <2>6, NumNot, XorIs, Zenon
  <2>8. Pow - 1 - (v - 1) = -s
    BY <2>1, <1>1, HalfFacts
  <2> QED BY <2>1, <2>2, <2>3, <2>7, <2>8, Zenon DEF s
<1>3. CASE WordBits - 1 \notin x
  <2>1. B!Abs(x) = B!Xor(B!Plus(x, {}), {})
    BY <1>3, SignMask, Zenon DEF B!Abs
  <2>2. B!Plus(x, {}) = x
    <3>1. v + 0 = v
      BY <1>1
    <3>2. B!Cast(v) = x
      BY CastOfNum, Zenon DEF Words
    <3> QED BY <3>1, <3>2, Constants, Zenon DEF B!Plus
  <2> QED BY <2>1, <2>2, XorIs, <1>1, <1>3, Zenon
<1> QED BY <1>2, <1>3, Zenon

LEMMA ZzEncIs ==
  ASSUME NEW x \in Words
  PROVE  /\ B!ZzEnc(x) = IF WordBits - 1 \in x THEN Positions \ B!Shl(x, 1) ELSE B!Shl(x, 1)
         /\ B!ZzEnc(x) \in Words
<1>1. B!ZzEnc(x) = IF WordBits - 1 \in x THEN Positions \ B!Shl(x, 1) ELSE B!Shl(x, 1)
  BY SignMask, ShiftsAreWords, XorIs, Zenon DEF B!ZzEnc
<1>2. B!Shl(x, 1) \in Words
  BY ShiftsAreWords, Zenon
<1> QED BY <1>1, <1>2 DEF Words

LEMMA ZzDecIs ==
  ASSUME NEW x \in Words
  PROVE  /\ B!ZzDec(x) = IF 0 \in x THEN Positions \ B!Shr(x, 1) ELSE B!Shr(x, 1)
         /\ B!ZzDec(x) \in Words
<1>0. 0 - 0 = 0 /\ 0 - 1 = -1
  OBVIOUS
<1>1. B!Minus({}, {0}) = Positions /\ B!Minus({}, {}) = {}
  BY <1>0, Constants, Zenon DEF B!Minus
<1>2. x \cap {0} = IF 0 \in x THEN {0} ELSE {}
  OBVIOUS
<1>3. B!Shr(x, 1) \in Words
  BY ShiftsAreWords, Zenon
<1>4. B!ZzDec(x) = IF 0 \in x THEN Positions \ B!Shr(x, 1) ELSE B!Shr(x, 1)
  BY <1>1, <1>2, <1>3, Constants, XorIs, Zenon DEF B!ZzDec
<1> QED BY <1>3, <1>4 DEF Words

LEMMA ZzEncNum ==
  ASSUME NEW x \in Words
  PROVE  B!Num(B!ZzEnc(x)) = IF B!SNum(x) < 0 THEN -2 * B!SNum(x) - 1 ELSE 2 * B!SNum(x)
<1> DEFINE v == B!Num(x)  s == B!SNum(x)  y == B!Shl(x, 1)
<1>1. /\ v \in Int /\ v \in 0 .. Pow - 1
      /\ s = IF WordBits - 1 \in x THEN v - Pow ELSE v
      /\ WordBits - 1 \in x <=> s < 0
      /\ WordBits - 1 \in x <=> v >= Half
  BY NumNat, SNumFacts, SignIs, Zenon
<1>2. 1 \in 0 .. WordBits /\ 2 ^ 1 = 2
  BY WordFacts
<1>3. y \in Words /\ B!Num(y) = (v * 2) % Pow
  BY <1>2, NumShl, ShiftsAreWords, Zenon
<1>4. B!Num(Positions \ y) = Pow - 1 - B!Num(y)
  BY <1>3, NumNot, Zenon
<1>5. CASE WordBits - 1 \in x
  <2> DEFINE u == 2 * v - Pow
  <2>1. B!ZzEnc(x) = Positions \ y
    BY <1>5, ZzEncIs, Zenon
  <2> HIDE DEF v, s, y
  <2>2. u \in 0 .. Pow - 1 /\ v * 2 = Pow * 1 + u /\ 1 \in Int
    BY <1>1, <1>5, HalfFacts
  <2> HIDE DEF u
  <2>3. (Pow * 1 + u) % Pow = u
    BY <2>2, HalfFacts, DivModOf, Zenon
  <2>4. B!Num(B!ZzEnc(x)) = Pow - 1 - u
    BY <2>1, <2>2, <2>3, <1>3, <1>4, Zenon
  <2>5. Pow - 1 - u = -2 * s - 1 /\ s < 0
    BY <1>1, <1>5, HalfFacts DEF u
  <2> QED BY <2>4, <2>5 DEF s
<1>6. CASE WordBits - 1 \notin x
  <2>1. B!ZzEnc(x) = y
    BY <1>6, ZzEncIs, Zenon
  <2> HIDE DEF v, s, y
  <2>2. v * 2 \in Nat /\ v * 2 < Pow
    BY <1>1, <1>6, HalfFacts
  <2>3. (v * 2) % Pow = v * 2
    BY <2>2, HalfFacts, ModSmall, Zenon
  <2>4. v * 2 = 2 * s /\ ~(s < 0)
    BY <1>1, <1>6
  <2> QED BY <2>1, <2>3, <2>4, <1>3 DEF s
<1> QED BY <1>5, <1>6, Zenon

LEMMA ZzInverse ==
  ASSUME NEW x \in Words
  PROVE  B!ZzDec(B!ZzEnc(x)) = x /\ B!ZzEnc(B!ZzDec(x)) = x
<1>0. x \subseteq Positions
  BY DEF Words
<1>1. B!ZzDec(B!ZzEnc(x)) = x
  <2> DEFINE e == B!ZzEnc(x)
  <2>1. e \in Words
    BY ZzEncIs, Zenon
  <2>2. \A i : i \in e <=> IF WordBits - 1 \in x THEN i \in Positions /\ i - 1 \notin x
                           ELSE i \in Positions /\ i - 1 \in x
    BY ZzEncIs, InShiftLeft
  <2> HIDE DEF e
  <2>3. 0 \in e <=> WordBits - 1 \in x
    BY <1>0, <2>2, WordFacts DEF Positions
  <2>4. \A i : i \in B!ZzDec(e) <=> IF 0 \in e THEN i \in Positions /\ i + 1 \notin e
                                    ELSE i \in Positions /\ i + 1 \in e
    BY <2>1, ZzDecIs, InShiftLeft
  <2>5. \A i : i \in B!ZzDec(e) <=> i \in x
    <3> SUFFICES ASSUME NEW i PROVE i \in B!ZzDec(e) <=> i \in x
      OBVIOUS
    <3>1. CASE i \notin Positions
      BY <3>1, <1>0, <2>4
    <3>2. CASE i \in Positions
      <4>1. i + 1 \in Positions <=> i # WordBits - 1
        BY <3>2, WordFacts DEF Positions
      <4>2. (i + 1) - 1 = i
        BY <3>2, WordFacts DEF Positions
      <4>3. i + 1 \in e <=> /\ i # WordBits - 1
                            /\ IF WordBits - 1 \in x THEN i \notin x ELSE i \in x
        BY <4>1, <4>2, <2>2, Zenon
      <4> QED BY <4>3, <3>2, <2>3, <2>4, Zenon
    <3> QED BY <3>1, <3>2
  <2> QED BY <2>5 DEF e
<1>2. B!ZzEnc(B!ZzDec(x)) = x
  <2> DEFINE d == B!ZzDec(x)
  <2>1. d \in Words
    BY ZzDecIs, Zenon
  <2>2. \A i : i \in d <=> IF 0 \in x THEN i \in Positions /\ i + 1 \notin x
                           ELSE i \in Positions /\ i + 1 \in x
    BY ZzDecIs, InShiftLeft
  <2> HIDE DEF d
  <2>3. WordBits - 1 \in d <=> 0 \in x
    <3>1. WordBits - 1 \in Positions /\ (WordBits - 1) + 1 \notin Positions
      BY WordFacts DEF Positions
    <3> QED BY <3>1, <2>2, <1>0
  <2>4. \A i : i \in B!ZzEnc(d) <=> IF WordBits - 1 \in d
                                    THEN i \in Positions /\ i - 1 \notin d
                                    ELSE i \in Positions /\ i - 1 \in d
    BY <2>1, ZzEncIs, InShiftLeft
  <2>5. \A i : i \in B!ZzEnc(d) <=> i \in x
    <3> SUFFICES ASSUME NEW i PROVE i \in B!ZzEnc(d) <=> i \in x
      OBVIOUS
    <3>1. CASE i \notin Positions
      BY <3>1, <1>0, <2>4
    <3>2. CASE i \in Positions
      <4>1. i - 1 \in Positions <=> i # 0
        BY <3>2, WordFacts DEF Positions
      <4>2. (i - 1) + 1 = i
        BY <3>2, WordFacts DEF Positions
      <4>3. i - 1 \in d <=> /\ i # 0
                            /\ IF 0 \in x THEN i \notin x ELSE i \in x
        BY <4>1, <4>2, <2>2, Zenon
      <4> QED BY <4>3, <3>2, <2>3, <2>4, Zenon
    <3> QED BY <3>1, <3>2
  <2> QED BY <2>5 DEF d
<1> QED BY <1>1, <1>2

LEMMA ChoiceIs ==
  ASSUME NEW x \in Words, NEW y \in Words
  PROVE  /\ {B!SMin(x, y), B!SMax(x, y)} = {x, y}
         /\ B!SNum(B!SMin(x, y)) <= B!SNum(B!SMax(x, y))
         /\ {B!MinW(x, y), B!MaxW(x, y)} = {x, y}
         /\ B!Num(B!MinW(x, y)) <= B!Num(B!MaxW(x, y))
         /\ B!Blend(x, y, B!Not(y)) = B!Not(B!Xor(x, y))
<1> DEFINE sx == B!SNum(x)  sy == B!SNum(y)  vx == B!Num(x)  vy == B!Num(y)
<1>1. sx \in Int /\ sy \in Int /\ vx \in Int /\ vy \in Int
      /\ sx % Pow = vx /\ sy % Pow = vy
  BY SNumFacts, NumNat, Zenon
<1>2. (vx = vy => x = y) /\ (sx = sy => x = y)
  BY <1>1, SameNum, Zenon
<1>3. /\ B!SMin(x, y) = IF sx <= sy THEN x ELSE y
      /\ B!SMax(x, y) = IF sx >= sy THEN x ELSE y
  BY Zenon DEF B!SMin, B!SMax
<1>4. /\ B!MinW(x, y) = IF vx < vy THEN x ELSE y
      /\ B!MaxW(x, y) = IF vx > vy THEN x ELSE y
  BY Zenon DEF B!MinW, B!MaxW
<1>5. /\ {B!SMin(x, y), B!SMax(x, y)} = {x, y}
      /\ B!SNum(B!SMin(x, y)) <= B!SNum(B!SMax(x, y))
  <2>1. CASE sx < sy
    <3>1. B!SMin(x, y) = x /\ B!SMax(x, y) = y
      BY <2>1, <1>1, <1>3
    <3> QED BY <3>1, <2>1, <1>1
  <2>2. CASE sx > sy
    <3>1. B!SMin(x, y) = y /\ B!SMax(x, y) = x
      BY <2>2, <1>1, <1>3
    <3> QED BY <3>1, <2>2, <1>1
  <2>3. CASE sx = sy
    <3>1. B!SMin(x, y) = x /\ B!SMax(x, y) = x /\ x = y
      BY <2>3, <1>1, <1>2, <1>3
    <3> QED BY <3>1, <1>1
  <2> HIDE DEF sx, sy
  <2> QED BY <2>1, <2>2, <2>3, <1>1
<1>6. /\ {B!MinW(x, y), B!MaxW(x, y)} = {x, y}
      /\ B!Num(B!MinW(x, y)) <= B!Num(B!MaxW(x, y))
  <2>1. CASE vx < vy
    <3>1. B!MinW(x, y) = x /\ B!MaxW(x, y) = y
      BY <2>1, <1>1, <1>4
    <3> QED BY <3>1, <2>1, <1>1
  <2>2. CASE vx > vy
    <3>1. B!MinW(x, y) = y /\ B!MaxW(x, y) = x
      BY <2>2, <1>1, <1>4
    <3> QED BY <3>1, <2>2, <1>1
  <2>3. CASE vx = vy
    <3>1. B!MinW(x, y) = y /\ B!MaxW(x, y) = y /\ x = y
      BY <2>3, <1>1, <1>2, <1>4
    <3> QED BY <3>1, <1>1
  <2> HIDE DEF vx, vy
  <2> QED BY <2>1, <2>2, <2>3, <1>1
<1>7. B!Blend(x, y, B!Not(y)) = B!Not(B!Xor(x, y))
  BY WordFacts DEF Words, B!Blend, B!Not, B!Xor
<1> QED BY <1>5, <1>6, <1>7

LEMMA SignedHold ==
  ASSUME word \in Words
  PROVE  B!SignedRight
<1> DEFINE s == B!SNum(word)  sgn == IF s < 0 THEN -1 ELSE 1
<1>1. s \in Int
  BY SNumFacts, Zenon
<1>2. B!Num(B!Abs(word)) = s * sgn
  <2>1. B!Num(B!Abs(word)) = IF s < 0 THEN -s ELSE s
    BY AbsIs, Zenon
  <2> HIDE DEF s
  <2>2. s * sgn = IF s < 0 THEN -s ELSE s
    BY <1>1
  <2> QED BY <2>1, <2>2, Zenon
<1>3. /\ B!Num(B!ZzEnc(word)) = IF s < 0 THEN -2 * s - 1 ELSE 2 * s
      /\ B!ZzDec(B!ZzEnc(word)) = word /\ B!ZzEnc(B!ZzDec(word)) = word
  BY ZzEncNum, ZzInverse, Zenon
<1>4. ASSUME NEW y \in {B!Zero, B!Pos, {WordBits - 1}, B!Pos \ {WordBits - 1}}
      PROVE  /\ {B!SMin(word, y), B!SMax(word, y)} = {word, y}
             /\ B!SNum(B!SMin(word, y)) <= B!SNum(B!SMax(word, y))
             /\ {B!MinW(word, y), B!MaxW(word, y)} = {word, y}
             /\ B!Num(B!MinW(word, y)) <= B!Num(B!MaxW(word, y))
             /\ B!Blend(word, y, B!Not(y)) = B!Not(B!Xor(word, y))
  <2>1. y \in Words
    BY WordFacts, HalfFacts, Constants DEF Words
  <2> QED BY <2>1, ChoiceIs, Zenon
<1> QED BY <1>2, <1>3, <1>4, Zenon DEF B!SignedRight

-----------------------------------------------------------------------------
(* Decimal digits                                                           *)

TenTo(k) == 10 ^ k

LEMMA TenFacts ==
  /\ B!MaxDigits \in 1 .. 20 /\ TenTo(0) = 1
  /\ \A k \in 0 .. B!MaxDigits : TenTo(k) \in Nat
  /\ \A k \in 1 .. B!MaxDigits : TenTo(k) = 10 * TenTo(k - 1)
<1> DEFINE M == B!MaxDigits
<1>1. M \in 1 .. 20
  BY DEF B!MaxDigits
<1>2. TenTo(0) = 1
  BY DEF TenTo
<1>3. \A k \in 0 .. M - 1 : TenTo(k + 1) = 10 * TenTo(k)
  BY CodecsAssumption, Zenon DEF CodecsAssumption, B!WAssumption, B!Powers, TenTo
<1> HIDE DEF M
<1>4. \A k \in 1 .. M : TenTo(k) = 10 * TenTo(k - 1)
  <2> SUFFICES ASSUME NEW k \in 1 .. M PROVE TenTo(k) = 10 * TenTo(k - 1)
    OBVIOUS
  <2>1. k - 1 \in 0 .. M - 1 /\ (k - 1) + 1 = k
    BY <1>1
  <2>2. TenTo((k - 1) + 1) = 10 * TenTo(k - 1)
    BY <2>1, <1>3, Zenon
  <2> QED BY <2>1, <2>2, Zenon
<1>5. \A k \in 0 .. M : TenTo(k) \in Nat
  <2> DEFINE Bad == {k \in 0 .. M : TenTo(k) \notin Nat}
  <2> SUFFICES ASSUME Bad # {} PROVE FALSE
    BY Zenon
  <2>1. Bad \in SUBSET Nat
    BY <1>1
  <2>2. PICK b \in Bad : \A j \in Bad : b <= j
    BY <2>1, HasLeast, Zenon
  <2>3. b \in 0 .. M /\ TenTo(b) \notin Nat
    BY Zenon
  <2>4. b # 0
    BY <2>3, <1>2
  <2>5. b \in 1 .. M /\ b - 1 \in 0 .. M /\ ~(b <= b - 1)
    BY <2>3, <2>4, <1>1
  <2>6. TenTo(b - 1) \in Nat
    BY <2>2, <2>5, Zenon
  <2>7. TenTo(b) = 10 * TenTo(b - 1)
    BY <2>5, <1>4, Zenon
  <2> DEFINE t == TenTo(b - 1)
  <2>8. t \in Nat /\ TenTo(b) = 10 * t
    BY <2>6, <2>7, Zenon
  <2> HIDE DEF t, Bad
  <2> QED BY <2>3, <2>8
<1> QED BY <1>1, <1>2, <1>4, <1>5 DEF M

FiveZeros == 100000

LEMMA FiveDigits ==
  ASSUME NEW k \in Nat, k + 5 <= B!MaxDigits
  PROVE  TenTo(k + 5) = FiveZeros * TenTo(k)
<1> DEFINE M == B!MaxDigits
<1>1. /\ k + 1 \in 1 .. M /\ k + 2 \in 1 .. M /\ k + 3 \in 1 .. M
      /\ k + 4 \in 1 .. M /\ k + 5 \in 1 .. M /\ k \in 0 .. M
      /\ (k + 1) - 1 = k /\ (k + 2) - 1 = k + 1 /\ (k + 3) - 1 = k + 2
      /\ (k + 4) - 1 = k + 3 /\ (k + 5) - 1 = k + 4
  <2>1. M \in 1 .. 20
    BY TenFacts, Zenon
  <2> HIDE DEF M
  <2>2. k + 5 <= M
    BY DEF M
  <2> QED BY <2>1, <2>2
<1> DEFINE t0 == TenTo(k)  t1 == TenTo(k + 1)  t2 == TenTo(k + 2)
           t3 == TenTo(k + 3)  t4 == TenTo(k + 4)  t5 == TenTo(k + 5)
<1>2. t1 = 10 * t0 /\ t2 = 10 * t1 /\ t3 = 10 * t2
  BY <1>1, TenFacts, Zenon
<1>3. t4 = 10 * t3 /\ t5 = 10 * t4
  BY <1>1, TenFacts, Zenon
<1>4. t0 \in Nat
  BY <1>1, TenFacts, Zenon
<1> HIDE DEF t0, t1, t2, t3, t4, t5
<1>5. t5 = FiveZeros * t0
  BY <1>2, <1>3, <1>4, SMT DEF FiveZeros
<1> QED BY <1>5 DEF t5, t0

\* The largest number of digits is enough for every word.
LEMMA DigitsSuffice ==
  ASSUME WordBits <= 64
  PROVE  Pow <= TenTo(B!MaxDigits)
<1> DEFINE Two(k) == 2 ^ k  M == B!MaxDigits
<1>1. 2 * WordBits \in Nat /\ Doubling(2 * WordBits) /\ WordBits \in {8, 16, 32, 64}
  BY WordFacts
<1>2. \A i \in 0 .. 2 * WordBits : \A k \in 0 .. 2 * WordBits - i : Two(i + k) = Two(i) * Two(k)
  BY <1>1, PowSum, Zenon
<1>3. Two(0) = 1 /\ Two(0 + 1) = 2 * Two(0)
  <2>1. 0 \in 0 .. 2 * WordBits - 1
    BY <1>1
  <2> QED BY <2>1, <1>1 DEF Doubling
<1>4. Pow = Two(WordBits)
  BY Zenon DEF Pow
<1>5. TenTo(0) = 1
  BY TenFacts, Zenon
<1>6. M = IF WordBits = 8 THEN 3 ELSE IF WordBits = 16 THEN 5
          ELSE IF WordBits = 32 THEN 10 ELSE 20
  BY Zenon DEF B!MaxDigits
<1> HIDE DEF Two, M
<1>7. Two(8) = 256
  <2>1. Two(1) = 2
    BY <1>3
  <2>2. Two(1 + 1) = Two(1) * Two(1)
    BY <1>1, <1>2
  <2>3. Two(2) = 4
    BY <2>1, <2>2
  <2>4. Two(2 + 2) = Two(2) * Two(2)
    BY <1>1, <1>2
  <2>5. Two(4) = 16
    BY <2>3, <2>4
  <2>6. Two(4 + 4) = Two(4) * Two(4)
    BY <1>1, <1>2
  <2> QED BY <2>5, <2>6
<1>8. CASE WordBits = 8
  <2>1. M = 3
    BY <1>6, <1>8
  <2>2. \A k \in 1 .. 3 : TenTo(k) = 10 * TenTo(k - 1)
    BY <2>1, TenFacts, Zenon DEF M
  <2>3. TenTo(1) = 10 * TenTo(1 - 1) /\ TenTo(2) = 10 * TenTo(2 - 1)
        /\ TenTo(3) = 10 * TenTo(3 - 1)
    BY <2>2
  <2>4. TenTo(3) = 1000
    BY <2>3, <1>5
  <2> QED BY <2>1, <2>4, <1>4, <1>7, <1>8 DEF M
<1>9. CASE WordBits # 8
  <2> DEFINE t5 == TenTo(5)  t10 == TenTo(10)  t15 == TenTo(15)  t20 == TenTo(20)
             a == Two(16)  b == Two(32)  c == Two(64)
  <2>1. M >= 5 /\ (WordBits # 16 => M >= 10) /\ (WordBits = 64 => M >= 20)
    BY <1>1, <1>6, <1>9
  <2>2. TenTo(0 + 5) = FiveZeros * TenTo(0)
    BY <2>1, FiveDigits DEF M
  <2>3. t5 = FiveZeros /\ FiveZeros \in Nat
    BY <2>2, <1>5, SMT DEF FiveZeros
  <2>4. Two(8 + 8) = Two(8) * Two(8)
    BY <1>1, <1>2, <1>9
  <2>5. a = 65536
    BY <2>4, <1>7
  <2>6. CASE WordBits = 16
    <3>1. M = 5
      BY <1>6, <2>6
    <3> QED BY <3>1, <2>3, <2>5, <2>6, <1>4, SMT DEF M, FiveZeros
  <2>7. CASE WordBits # 16
    <3>1. TenTo(5 + 5) = FiveZeros * t5
      BY <2>1, <2>7, FiveDigits DEF M
    <3>2. t10 = t5 * t5
      BY <3>1, <2>3
    <3>3. Two(16 + 16) = a * a
      BY <1>1, <1>2, <1>9, <2>7
    <3>4. b = a * a
      BY <3>3
    <3>5. a \in Nat /\ t5 \in Nat /\ a <= t5
      BY <2>3, <2>5, SMT DEF FiveZeros
    <3> HIDE DEF a, b, t10
    <3>6. b \in Nat /\ t10 \in Nat /\ b <= t10
      BY <3>2, <3>4, <3>5, Squares, Zenon
    <3>7. CASE WordBits = 32
      <4>1. M = 10
        BY <1>6, <3>7
      <4> QED BY <4>1, <3>6, <3>7, <1>4, Zenon DEF M, b, t10
    <3>8. CASE WordBits = 64
      <4>1. TenTo(10 + 5) = FiveZeros * t10 /\ TenTo(15 + 5) = FiveZeros * t15
        <5>1. 10 \in Nat /\ 15 \in Nat /\ 10 + 5 <= M /\ 15 + 5 <= M
          BY <1>6, <3>8
        <5> QED BY <5>1, FiveDigits, Zenon DEF M, t10
      <4>2. t15 = t5 * t10 /\ t20 = t5 * t15
        BY <4>1, <2>3
      <4> HIDE DEF t5, t15, t20
      <4>3. t20 = t10 * t10
        BY <4>2, <3>2, <3>5, <3>6
      <4>4. Two(32 + 32) = Two(32) * Two(32)
        BY <1>2, <3>8
      <4>5. c = b * b
        BY <4>4 DEF b
      <4>6. c <= t20
        BY <4>3, <4>5, <3>6, Squares, Zenon
      <4>7. M = 20
        BY <1>6, <3>8
      <4> QED BY <4>6, <4>7, <3>8, <1>4, Zenon DEF M, t20
    <3> QED BY <3>7, <3>8, <2>7, <1>1, <1>9
  <2> QED BY <2>6, <2>7
<1> QED BY <1>8, <1>9

LEMMA DigitsHold ==
  ASSUME word \in Words
  PROVE  B!DigitsRight
<1> DEFINE v == B!Num(word)  M == B!MaxDigits
           Enough(k) == k = M \/ v < TenTo(k)
           Good(k) == Enough(k) /\ \A d \in 1 .. k - 1 : v >= TenTo(d)
           c == B!DigCnt(word)
<1>1. /\ M \in 1 .. 20 /\ \A k \in 0 .. M : TenTo(k) \in Nat
      /\ v \in Nat /\ v < Pow
  BY TenFacts, NumNat, Zenon
<1>2. c = CHOOSE k \in 1 .. M : Good(k)
  BY Zenon DEF B!DigCnt, TenTo
<1> HIDE DEF v, M, c
<1>3. \E k \in 1 .. M : Good(k)
  <2> DEFINE S0 == {k \in 1 .. M : Enough(k)}
  <2>1. M \in S0 /\ S0 \in SUBSET Nat
    BY <1>1
  <2>2. PICK b \in S0 : \A j \in S0 : b <= j
    BY <2>1, HasLeast, Zenon
  <2>3. b \in 1 .. M /\ Enough(b)
    BY Zenon
  <2>4. ASSUME NEW d \in 1 .. b - 1 PROVE v >= TenTo(d)
    <3>1. d \in 1 .. M /\ d \in 0 .. M /\ ~(b <= d)
      BY <2>3, <1>1
    <3>2. ~(v < TenTo(d))
      BY <3>1, <2>2, Zenon
    <3> QED BY <3>1, <3>2, <1>1
  <2> QED BY <2>3, <2>4, Zenon
<1>4. c \in 1 .. M /\ Good(c)
  BY <1>2, <1>3, Zenon
<1>5. WordBits <= 64 => v < TenTo(c)
  <2> SUFFICES ASSUME WordBits <= 64, c = M PROVE v < TenTo(c)
    BY <1>4, Zenon
  <2>1. Pow <= TenTo(M)
    BY DigitsSuffice, Zenon DEF M
  <2>2. TenTo(M) \in Nat
    BY <1>1
  <2> QED BY <2>1, <2>2, <1>1, PowFacts
<1>6. c > 1 => v >= TenTo(c - 1)
  <2> SUFFICES ASSUME c > 1 PROVE v >= TenTo(c - 1)
    OBVIOUS
  <2>1. c - 1 \in 1 .. c - 1
    BY <1>1, <1>4
  <2> QED BY <2>1, <1>4, Zenon
<1> QED BY <1>5, <1>6, Zenon DEF B!DigitsRight, TenTo, v, c

-----------------------------------------------------------------------------
\* The variable word is a word.
WordInv == part = "bits" => word \in Words

\* Whatever the word, of 8 to 128 bits, the bit operations compute what the
\* comments of fd_bits.h say of them: fields, powers of two, alignment, shifts
\* and rotations, signed words and decimal digits.
THEOREM BitsAreRight == CodecsSpec => []ArithmeticIsRight
<1>1. CodecsInit => WordInv
  <2> SUFFICES ASSUME CodecsInit, part = "bits" PROVE word \in Words
    BY Zenon DEF WordInv
  <2>1. word = {}
    BY Zenon DEF CodecsInit, B!Init, B!Zero
  <2> QED BY <2>1 DEF Words
<1>2. WordInv /\ [CodecsNext]_codecsVars => WordInv'
  <2> SUFFICES ASSUME WordInv, [CodecsNext]_codecsVars, part' = "bits"
               PROVE  word' \in Words
    BY Zenon DEF WordInv
  <2>1. part = "bits" /\ (word' = word \/ word' = B!Plus(word, B!One))
    BY Zenon DEF CodecsNext, codecsVars, B!Next
  <2>2. B!Plus(word, B!One) \in Words
    <3> DEFINE n == B!Num(word) + B!Num(B!One)
    <3>1. n \in Int
      BY NumNat
    <3>2. B!Cast(n) \in Words
      BY <3>1, CastIsWord, Zenon DEF Words
    <3> QED BY <3>2, Zenon DEF B!Plus
  <2> QED BY <2>1, <2>2, Zenon DEF WordInv
<1>3. WordInv => ArithmeticIsRight
  BY FieldsHold, Pow2Hold, AlignHold, ShiftsHold, SignedHold, DigitsHold, Zenon
  DEF WordInv, ArithmeticIsRight
<1> QED BY <1>1, <1>2, <1>3, PTL DEF CodecsSpec
-----------------------------------------------------------------------------
(* Pods.  Their modules have the same integers and words as the streams and *)
(* the bit operations.                                                      *)

LEMMA SameMemory ==
  ASSUME NEW m, NEW b, NEW n, NEW w
  PROVE  /\ P!Shl(m, n) = S!Shl(m, n) /\ P!Shr(m, n) = S!Shr(m, n)
         /\ P!Low(m, n) = S!Low(m, n)
         /\ P!Load(m, b, n) = S!Load(m, b, n)
         /\ P!Store(m, b, n, w) = S!Store(m, b, n, w)
<1>1. \A x, k : P!Shl(x, k) = S!Shl(x, k) /\ P!Shr(x, k) = S!Shr(x, k)
                /\ P!Low(x, k) = S!Low(x, k) /\ P!Bytes(x, k) = S!Bytes(x, k)
  BY Zenon DEF P!Shl, S!Shl, P!Shr, S!Shr, P!Low, S!Low, P!Bytes, S!Bytes
<1>2. P!Load(m, b, n) = S!Load(m, b, n)
  BY <1>1, Zenon DEF P!Load, S!Load
<1>3. P!Store(m, b, n, w) = S!Store(m, b, n, w)
  BY <1>1, Zenon DEF P!Store, S!Store
<1> QED BY <1>1, <1>2, <1>3, Zenon

LEMMA SameCodec ==
  ASSUME NEW m, NEW b, NEW csz, NEW x
  PROVE  /\ P!Fits(x, csz) = S!Fits(x, csz) /\ P!EncSz(x) = S!EncSz(x)
         /\ csz \in Sz => /\ P!EncFixed(m, b, csz, x) = S!EncFixed(m, b, csz, x)
                          /\ P!DecFixed(m, b, csz) = S!DecFixed(m, b, csz)
<1>1. P!Room = S!Room
  BY Zenon DEF P!Room, S!Room
<1>2. \A y, c : P!Fits(y, c) = S!Fits(y, c)
  BY <1>1, Zenon DEF P!Fits, S!Fits
<1>3. P!EncSz(x) = S!EncSz(x)
  BY <1>1, <1>2, Zenon DEF P!EncSz, S!EncSz
<1>4. ASSUME csz \in Sz
      PROVE  /\ P!EncFixed(m, b, csz, x) = S!EncFixed(m, b, csz, x)
             /\ P!DecFixed(m, b, csz) = S!DecFixed(m, b, csz)
  <2>1. CASE csz = 1
    BY <2>1, SameMemory DEF P!EncFixed, S!EncFixed, P!DecFixed, S!DecFixed
  <2>2. CASE csz = 2
    BY <2>2, SameMemory DEF P!EncFixed, S!EncFixed, P!DecFixed, S!DecFixed
  <2>3. CASE csz = 3
    BY <2>3, SameMemory, SMTT(30) DEF P!EncFixed, S!EncFixed, P!DecFixed, S!DecFixed
  <2>4. CASE csz = 4
    BY <2>4, SameMemory DEF P!EncFixed, S!EncFixed, P!DecFixed, S!DecFixed
  <2>5. CASE csz = 5
    BY <2>5, SameMemory DEF P!EncFixed, S!EncFixed, P!DecFixed, S!DecFixed
  <2>8. CASE csz = 8
    BY <2>8, SameMemory DEF P!EncFixed, S!EncFixed, P!DecFixed, S!DecFixed
  <2>9. CASE csz = 9
    BY <2>9, SameMemory, SMTT(30) DEF P!EncFixed, S!EncFixed, P!DecFixed, S!DecFixed
  <2> QED BY <1>4, <2>1, <2>2, <2>3, <2>4, <2>5, <2>8, <2>9, Zenon DEF Sz
<1> QED BY <1>2, <1>3, <1>4, Zenon

LEMMA SameWords ==
  ASSUME NEW x
  PROVE  P!Num(x) = B!Num(x) /\ P!Word(x) = B!Cast(x)
BY Zenon DEF P!Num, B!Num, P!Word, B!Cast, B!Pos

-----------------------------------------------------------------------------
(* Bytes of memory that hold something                                      *)

\* The sz bytes at b hold the bits w.
Holds(m, b, sz, w) == \A i \in 0 .. 8 * sz - 1 : 8 * b + i \in m <=> i \in w

\* The bytes from lo on and before hi are the same in both memories.
Agree(m, e, lo, hi) == \A j \in Nat : 8 * lo <= j /\ j < 8 * hi => (j \in e <=> j \in m)

\* Nothing else is written.
Changes(e, m, lo, hi) ==
  e \in SUBSET Nat /\ \A j \in Nat : ~(8 * lo <= j /\ j < 8 * hi) => (j \in e <=> j \in m)

LEMMA AgreeOutside ==
  ASSUME NEW m, NEW e, NEW lo \in Nat, NEW hi \in Nat, Changes(e, m, lo, hi),
         NEW from \in Nat, NEW to \in Nat, to <= lo \/ hi <= from
  PROVE  Agree(m, e, from, to)
<1> SUFFICES ASSUME NEW j \in Nat, 8 * from <= j, j < 8 * to
             PROVE  j \in e <=> j \in m
  BY Zenon DEF Agree
<1>1. ~(8 * lo <= j /\ j < 8 * hi)
  OBVIOUS
<1> QED BY <1>1, Zenon DEF Changes

LEMMA AgreeOn ==
  ASSUME NEW m, NEW d, NEW e, NEW lo \in Nat, NEW hi \in Nat, Agree(m, d, lo, hi),
         Agree(d, e, lo, hi)
  PROVE  Agree(m, e, lo, hi)
BY Zenon DEF Agree

LEMMA AgreeWithin ==
  ASSUME NEW m, NEW e, NEW lo \in Nat, NEW hi \in Nat, Agree(m, e, lo, hi),
         NEW from \in Nat, NEW to \in Nat, lo <= from, to <= hi
  PROVE  Agree(m, e, from, to)
<1> SUFFICES ASSUME NEW j \in Nat, 8 * from <= j, j < 8 * to
             PROVE  j \in e <=> j \in m
  BY Zenon DEF Agree
<1>1. 8 * lo <= j /\ j < 8 * hi
  OBVIOUS
<1> QED BY <1>1, Zenon DEF Agree

LEMMA HoldsOn ==
  ASSUME NEW m, NEW e, NEW b \in Nat, NEW sz \in Nat, NEW w, Holds(m, b, sz, w),
         Agree(m, e, b, b + sz)
  PROVE  Holds(e, b, sz, w)
<1> SUFFICES ASSUME NEW i \in 0 .. 8 * sz - 1
             PROVE  8 * b + i \in e <=> i \in w
  BY Zenon DEF Holds
<1>1. 8 * b + i \in Nat /\ 8 * b <= 8 * b + i /\ 8 * b + i < 8 * (b + sz)
  OBVIOUS
<1>2. 8 * b + i \in e <=> 8 * b + i \in m
  BY <1>1, Zenon DEF Agree
<1> QED BY <1>2, Zenon DEF Holds

LEMMA CodedOn ==
  ASSUME NEW m, NEW e, NEW b \in Nat, NEW csz \in Nat, NEW x, Coded(m, b, csz, x),
         Agree(m, e, b, b + csz)
  PROVE  Coded(e, b, csz, x)
<1> SUFFICES ASSUME NEW i \in 0 .. 8 * csz - 1
             PROVE  8 * b + i \in e <=> CodeBit(csz, x, i)
  BY Zenon DEF Coded
<1>1. 8 * b + i \in Nat /\ 8 * b <= 8 * b + i /\ 8 * b + i < 8 * (b + csz)
  OBVIOUS
<1>2. 8 * b + i \in e <=> 8 * b + i \in m
  BY <1>1, Zenon DEF Agree
<1> QED BY <1>2, Zenon DEF Coded

LEMMA HoldsLoad ==
  ASSUME NEW m \in SUBSET Nat, NEW b \in Nat, NEW sz \in Nat, NEW w, Holds(m, b, sz, w),
         w \subseteq 0 .. 8 * sz - 1
  PROVE  P!Load(m, b, sz) = w
<1>1. P!Load(m, b, sz) = S!Load(m, b, sz)
  BY SameMemory, Zenon
<1>2. ASSUME NEW j \in Int PROVE j \in S!Load(m, b, sz) <=> j \in w
  <2>1. j \in S!Load(m, b, sz) <=> 0 <= j /\ j < 8 * sz /\ j + 8 * b \in m
    BY InLoad, Zenon
  <2>2. j \in 0 .. 8 * sz - 1 => (8 * b + j \in m <=> j \in w)
    BY Zenon DEF Holds
  <2>3. 8 * b + j = j + 8 * b
    OBVIOUS
  <2>4. j \in 0 .. 8 * sz - 1 <=> 0 <= j /\ j < 8 * sz
    OBVIOUS
  <2> QED BY <2>1, <2>2, <2>3, <2>4, Zenon
<1>3. S!Load(m, b, sz) \subseteq Int /\ w \subseteq Int
  <2>1. S!Load(m, b, sz) \in SUBSET Nat
    BY LoadNat, Zenon
  <2> QED BY <2>1
<1> QED BY <1>1, <1>2, <1>3, Zenon

LEMMA StoreHolds ==
  ASSUME NEW m \in SUBSET Nat, NEW b \in Nat, NEW sz \in Nat, NEW w \in SUBSET Nat
  PROVE  LET e == P!Store(m, b, sz, w) IN
         e \in SUBSET Nat /\ Holds(e, b, sz, w) /\ Changes(e, m, b, b + sz)
<1> DEFINE e == P!Store(m, b, sz, w)
<1>0. e = S!Store(m, b, sz, w)
  BY SameMemory, Zenon
<1> HIDE DEF e
<1>1. e \in SUBSET Nat
  BY <1>0, StoreNat, Zenon
<1>2. \A j \in Nat : j \in e
        <=> IF 8 * b <= j /\ j < 8 * b + 8 * sz THEN j - 8 * b \in w ELSE j \in m
  BY <1>0, InStore, Zenon
<1>3. Holds(e, b, sz, w)
  <2> SUFFICES ASSUME NEW i \in 0 .. 8 * sz - 1
               PROVE  8 * b + i \in e <=> i \in w
    BY Zenon DEF Holds
  <2>1. 8 * b + i \in Nat /\ 8 * b <= 8 * b + i /\ 8 * b + i < 8 * b + 8 * sz
        /\ (8 * b + i) - 8 * b = i
    OBVIOUS
  <2> QED BY <2>1, <1>2, Zenon
<1>4. Changes(e, m, b, b + sz)
  <2>1. 8 * (b + sz) = 8 * b + 8 * sz
    OBVIOUS
  <2> QED BY <1>1, <1>2, <2>1, Zenon DEF Changes
<1> QED BY <1>1, <1>3, <1>4, Zenon DEF e

LEMMA EncHolds ==
  ASSUME NEW m \in SUBSET Nat, NEW b \in Nat, NEW csz \in Sz, NEW x \in Integers64,
         P!Fits(x, csz)
  PROVE  LET e == P!EncFixed(m, b, csz, x) IN
         e \in SUBSET Nat /\ Coded(e, b, csz, x) /\ Changes(e, m, b, b + csz)
<1> DEFINE e == P!EncFixed(m, b, csz, x)
<1>1. e = S!EncFixed(m, b, csz, x) /\ S!Fits(x, csz)
  BY SameCodec, Zenon
<1> HIDE DEF e
<1>2. Written(e, m, b, csz, x)
  BY <1>1, EncWrites, Zenon
<1>3. 8 * (b + csz) = 8 * b + 8 * csz
  BY DEF Sz
<1> QED BY <1>2, <1>3, Zenon DEF Written, Changes, e

-----------------------------------------------------------------------------
(* Integers that are read from their first byte                             *)

LEMMA SvwSize ==
  ASSUME NEW x, P!IsInt(x, 64)
  PROVE  /\ x \in Integers64 /\ P!EncSz(x) \in Sz /\ P!Fits(x, P!EncSz(x))
         /\ P!EncSz(x) \in Nat \ {0}
<1>1. x \in Integers64
  BY DEF P!IsInt, Integers64
<1>2. P!EncSz(x) \in Sz /\ P!Fits(x, P!EncSz(x))
  BY <1>1, EncSzFits, SameCodec, Zenon
<1> QED BY <1>1, <1>2 DEF Sz

\* fd_ulong_svw_dec reads the integers that are legible.
LEMMA SvwRead ==
  ASSUME NEW m \in SUBSET Nat, NEW b \in Nat, NEW x, P!IsInt(x, 64), P!Tells(x),
         Coded(m, b, P!EncSz(x), x)
  PROVE  /\ P!DecSz(m, b) = P!EncSz(x) /\ P!DecFixed(m, b, P!EncSz(x)) = x
         /\ P!DecSvw(m, b) = x
<1> DEFINE csz == P!EncSz(x)
<1>1. x \in Integers64 /\ csz \in Sz /\ S!Fits(x, csz)
  BY SvwSize, SameCodec, Zenon
<1>2. Coded(m, b, csz, x)
  OBVIOUS
<1>3. S!Legible(x, csz)
  BY Zenon DEF P!Tells, P!Legible, S!Legible
<1>4. S!DecSz(m, b) = csz /\ S!DecFixed(m, b, csz) = x
  BY <1>1, <1>2, <1>3, FirstTells, DecReads, Zenon
<1>5. P!DecSz(m, b) = csz
  <2>1. P!Load(m, b, 1) = S!Load(m, b, 1)
    BY SameMemory, Zenon
  <2>2. P!SizeOf(m, b) = S!SizeOf(m, b)
    BY <2>1, Zenon DEF P!SizeOf, S!SizeOf
  <2> QED BY <2>2, <1>4, Zenon DEF P!DecSz, S!DecSz
<1>6. P!DecFixed(m, b, csz) = x
  BY <1>1, <1>4, SameCodec, Zenon
<1> QED BY <1>5, <1>6, Zenon DEF P!DecSvw

-----------------------------------------------------------------------------
(* Sizes, and the words they are                                            *)

LEMMA SizeWord ==
  ASSUME NEW n, P!IsSize(n)
  PROVE  /\ n \in Nat /\ n \in 0 .. Pow - 1 /\ P!IsInt(P!Word(n), 64) /\ P!Word(n) \in Words
         /\ P!Num(P!Word(n)) = n
<1>1. n \in 0 .. Pow - 1 /\ P!IsInt(P!Word(n), 64)
  BY Zenon DEF P!IsSize, Pow
<1>2. B!Cast(n) \in Words /\ B!Num(B!Cast(n)) = n
  BY <1>1, NumOfCast, Zenon
<1> QED BY <1>1, <1>2, SameWords DEF Pow

\* A number below a power of two has no bits from there on.
LEMMA BelowPower ==
  ASSUME NEW n \in Nat, NEW r \in 0 .. WordBits, n < 2 ^ r
  PROVE  P!Word(n) \subseteq 0 .. r - 1 /\ P!Num(P!Word(n)) = n /\ n \in 0 .. Pow - 1
<1> DEFINE x == B!Cast(n)  p == 2 ^ r
<1>1. p \in Nat \ {0} /\ p <= Pow /\ Pow \in Nat
  BY PowFacts, Zenon
<1> HIDE DEF p
<1>2. n \in 0 .. Pow - 1 /\ n % p = n
  <2>1. n < p
    BY Zenon DEF p
  <2>2. n % p = n
    BY <2>1, <1>1, ModSmall, Zenon
  <2> QED BY <2>1, <2>2, <1>1
<1>3. x \in Words /\ B!Num(x) = n
  BY <1>2, NumOfCast, Zenon
<1>4. B!Num(x \cap (0 .. r - 1)) = n
  BY <1>2, <1>3, NumLow, Zenon DEF p
<1>5. x \cap (0 .. r - 1) \in Words
  BY <1>3 DEF Words
<1>6. x \cap (0 .. r - 1) = x
  BY <1>3, <1>4, <1>5, SameNum, Zenon
<1>7. P!Word(n) = x /\ P!Num(x) = n
  BY <1>3, SameWords, Zenon
<1> HIDE DEF x
<1> QED BY <1>2, <1>6, <1>7

\* Where a size fits a smaller one fits.
LEMMA SmallerFits ==
  ASSUME NEW max, P!IsSize(max), NEW n \in Nat, n <= max,
         NEW csz \in Sz, P!Fits(P!Word(max), csz)
  PROVE  /\ P!Fits(P!Word(n), csz) /\ P!Word(n) \in Integers64 /\ P!Num(P!Word(n)) = n
<1> DEFINE r == S!Room[csz]  x == P!Word(max)
<1>1. r \in Nat /\ r <= 64 /\ P!Room = S!Room
  BY Rooms DEF Sz, P!Room, S!Room
<1>2. max \in Nat /\ max \in 0 .. Pow - 1 /\ x \in Words /\ B!Num(x) = max /\ x \subseteq 0 .. r - 1
  BY SizeWord, SameWords, <1>1, Zenon DEF P!Fits
<1> HIDE DEF r, x
<1>3. n \in 0 .. Pow - 1
  BY <1>2, PowFacts
<1>4. P!Word(n) \in Words /\ P!Num(P!Word(n)) = n
  BY <1>3, NumOfCast, SameWords, Zenon
<1>5. P!Word(n) \subseteq 0 .. r - 1
  <2>1. CASE r < WordBits
    <3>1. r \in 0 .. WordBits
      BY <2>1, <1>1, WordFacts
    <3>2. x \cap (0 .. r - 1) = x
      BY <1>2
    <3>3. max = max % 2 ^ r
      BY <3>1, <3>2, <1>2, NumLow, Zenon
    <3> DEFINE p == 2 ^ r
    <3>4. p \in Nat \ {0}
      BY <3>1, PowFacts, Zenon
    <3> HIDE DEF p
    <3>5. max % p \in 0 .. p - 1
      BY <1>2, <3>4, DivMod
    <3>6. n < p
      BY <3>3, <3>4, <3>5, <1>2 DEF p
    <3> QED BY <3>1, <3>6, BelowPower, Zenon DEF p
  <2>2. CASE ~(r < WordBits)
    BY <2>2, <1>1, <1>4, WordFacts DEF Words, Positions
  <2> QED BY <2>1, <2>2, Zenon
<1>6. P!Fits(P!Word(n), csz)
  BY <1>1, <1>5, Zenon DEF P!Fits, r
<1>7. P!Word(n) \in Integers64
  BY <1>5, <1>1 DEF Integers64
<1> QED BY <1>4, <1>6, <1>7, Zenon

LEMMA OneByte ==
  ASSUME NEW n \in 0 .. 255
  PROVE  P!Word(n) \subseteq 0 .. 7 /\ P!Num(P!Word(n)) = n
<1>1. 8 \in 0 .. WordBits /\ WordBits >= 8
  BY WordFacts
<1>2. 2 ^ 8 = 256
  <2>1. \A k \in 0 .. 7 : k + 1 \in 0 .. 2 * WordBits /\ k \in 0 .. 2 * WordBits - 1
    BY <1>1, WordFacts
  <2>2. \A k \in 0 .. 7 : 2 ^ (k + 1) = 2 * 2 ^ k
    BY <2>1, WordFacts, ZenonT(30) DEF Doubling
  <2>3. 2 ^ 0 = 1
    BY WordFacts, 0 \in 0 .. 2 * WordBits, PowNat
  <2> QED BY <2>2, <2>3
<1>3. n \in Nat /\ n < 2 ^ 8
  BY <1>2
<1>4. P!Word(n) \subseteq 0 .. 8 - 1 /\ P!Num(P!Word(n)) = n
  BY <1>1, <1>3, BelowPower, Zenon
<1> QED BY <1>4

-----------------------------------------------------------------------------
(* Vals: what is read is what was written                                   *)

LEMMA SameShifts ==
  ASSUME NEW x, NEW n
  PROVE  /\ P!Shl(x, n) = S!Shl(x, n) /\ P!Shr(x, n) = S!Shr(x, n)
         /\ P!Low(x, n) = S!Low(x, n)
BY SameMemory

LEMMA InMovedUp ==
  ASSUME NEW x \in SUBSET Nat, NEW n \in Nat, NEW j \in Int
  PROVE  j \in P!Shl(x, n) <=> j - n \in x
BY InShl, SameShifts

LEMMA InMovedDown ==
  ASSUME NEW x \in SUBSET Nat, NEW n \in Nat, NEW j \in Int
  PROVE  j \in P!Shr(x, n) <=> j >= 0 /\ j + n \in x
BY InShr, SameShifts

LEMMA InLowBits ==
  ASSUME NEW x, NEW n \in Nat, NEW j \in Int
  PROVE  j \in P!Low(x, n) <=> j \in x /\ 0 <= j /\ j < n
BY InLow, SameShifts

LEMMA MovedNat ==
  ASSUME NEW x \in SUBSET Nat, NEW n \in Nat
  PROVE  /\ P!Shl(x, n) \in SUBSET Nat /\ P!Shr(x, n) \in SUBSET Nat
         /\ P!Low(x, n) \in SUBSET Nat
<1>1. /\ S!Shl(x, n) \in SUBSET Nat /\ S!Shr(x, n) \in SUBSET Nat
      /\ S!Low(x, n) \in SUBSET Nat
  BY BitsNat, Zenon
<1> QED BY <1>1, SameShifts

\* fd_long_zz_dec of fd_long_zz_enc, for words of n bits.
LEMMA ZigZag ==
  ASSUME NEW n \in Nat \ {0}, NEW x, P!IsInt(x, n)
  PROVE  P!ZzDec(P!ZzEnc(x, n), n) = x
<1> DEFINE sign == n - 1 \in x
           low == P!Low(P!Shl(x, 1), n)
           y == P!ZzEnc(x, n)
           down == P!Shr(y, 1)
<1>1. x \in SUBSET Nat /\ \A j \in x : j < n
  BY DEF P!IsInt
<1>2. \A j \in Nat : j \in low <=> j - 1 \in x /\ j < n
  <2> TAKE j \in Nat
  <2>1. j \in Int /\ 1 \in Nat /\ 0 <= j /\ n \in Nat
    OBVIOUS
  <2> QED BY <1>1, <2>1, InMovedUp, InLowBits, Zenon
<1>3. low \in SUBSET Nat
  BY <1>1, 1 \in Nat, n \in Nat, MovedNat, Zenon
<1>4. y \in SUBSET Nat /\ \A j \in Nat : j \in y <=> ~((sign /\ j < n) <=> (j - 1 \in x /\ j < n))
  BY <1>2, <1>3 DEF P!ZzEnc, P!XorSet
<1> HIDE DEF y, low, sign
<1>5. down \in SUBSET Nat /\ \A j \in Nat : j \in down <=> j + 1 \in y
  <2>1. down \in SUBSET Nat
    BY <1>4, 1 \in Nat, MovedNat, Zenon
  <2>2. ASSUME NEW j \in Nat PROVE j \in down <=> j + 1 \in y
    <3>1. j \in Int /\ j >= 0 /\ 1 \in Nat
      OBVIOUS
    <3> QED BY <1>4, <3>1, InMovedDown, Zenon
  <2> QED BY <2>1, <2>2, Zenon
<1> HIDE DEF down
<1>6. 0 \in y <=> sign
  <2>1. 0 - 1 \notin x /\ 0 < n /\ 0 \in Nat
    BY <1>1
  <2> QED BY <2>1, <1>4, Zenon
<1>7. ASSUME NEW j \in Nat
      PROVE  j \in x <=> ~((j \in down) <=> (0 \in y /\ j < n))
  <2>1. j + 1 \in Nat /\ (j + 1) - 1 = j
    OBVIOUS
  <2>2. j + 1 \in y <=> ~((sign /\ j + 1 < n) <=> (j \in x /\ j + 1 < n))
    BY <2>1, <1>4, Zenon
  <2>3. CASE j + 1 < n
    <3>1. j < n
      BY <2>3
    <3> QED BY <2>2, <2>3, <3>1, <1>5, <1>6, Zenon
  <2>4. CASE ~(j + 1 < n) /\ j < n
    <3>1. j = n - 1
      BY <2>4
    <3>2. j \in x <=> sign
      BY <3>1 DEF sign
    <3> QED BY <2>2, <2>4, <3>2, <1>5, <1>6, Zenon
  <2>5. CASE ~(j < n)
    <3>1. ~(j + 1 < n) /\ j \notin x
      BY <2>5, <1>1
    <3> QED BY <2>2, <2>5, <3>1, <1>5, Zenon
  <2> QED BY <2>3, <2>4, <2>5, Zenon
<1>8. P!ZzDec(y, n) \in SUBSET Nat
        /\ \A j \in Nat : j \in P!ZzDec(y, n) <=> ~((j \in down) <=> (0 \in y /\ j < n))
  BY <1>5 DEF P!ZzDec, P!XorSet, down
<1>9. \A j \in Nat : j \in P!ZzDec(y, n) <=> j \in x
  BY <1>7, <1>8, Zenon
<1>10. P!ZzDec(y, n) = x
  BY <1>1, <1>8, <1>9
<1> QED BY <1>10, Zenon DEF y

\* The halves of 128 bits, and a zig-zag word, are integers too.
LEMMA Halves ==
  ASSUME NEW x, P!IsInt(x, 128)
  PROVE  P!IsInt(P!Low(x, 64), 64) /\ P!IsInt(P!Shr(x, 64), 64)
<1>1. x \in SUBSET Nat /\ \A j \in x : j < 128
  BY DEF P!IsInt
<1>2. P!Low(x, 64) \subseteq 0 .. 64 - 1
  BY DEF P!Low
<1>3. P!Shr(x, 64) \subseteq 0 .. 64 - 1
  <2>1. P!Shr(x, 64) \in SUBSET Nat
    BY <1>1, 64 \in Nat, MovedNat, Zenon
  <2>2. ASSUME NEW j \in P!Shr(x, 64) PROVE j \in 0 .. 64 - 1
    <3>1. j \in Nat /\ j \in Int
      BY <2>1
    <3>2. j + 64 \in x
      BY <1>1, <3>1, 64 \in Nat, InMovedDown, Zenon
    <3> QED BY <1>1, <3>1, <3>2
  <2> QED BY <2>2, Zenon
<1> QED BY <1>2, <1>3, Zenon DEF P!IsInt

LEMMA ZigZagInt ==
  ASSUME NEW n \in Nat \ {0}, NEW x, P!IsInt(x, n)
  PROVE  P!IsInt(P!ZzEnc(x, n), n)
BY DEF P!IsInt, P!ZzEnc, P!XorSet, P!Low

\* One integer, as it is encoded before it is put where it goes.
LEMMA EncodedOne ==
  ASSUME NEW x, P!IsInt(x, 64)
  PROVE  LET e == P!Svw1(x) IN
         /\ e.sz = P!EncSz(x) /\ e.w \in SUBSET Nat
         /\ Coded(e.w, 0, e.sz, x)
<1>1. P!Svw1(x).sz = P!EncSz(x) /\ P!Svw1(x).w = P!EncFixed({}, 0, P!EncSz(x), x)
  BY DEF P!Svw1, P!Enc
<1>2. {} \in SUBSET Nat /\ 0 \in Nat
  OBVIOUS
<1> DEFINE d == P!EncFixed({}, 0, P!EncSz(x), x)
<1>3. d \in SUBSET Nat /\ Coded(d, 0, P!EncSz(x), x)
  BY <1>2, SvwSize, EncHolds, Zenon
<1> HIDE DEF d
<1> QED BY <1>1, <1>3 DEF d

LEMMA EncodedTwo ==
  ASSUME NEW x, P!IsInt(x, 128)
  PROVE  LET e == P!SvwPair(x)  lo == P!Low(x, 64)  hi == P!Shr(x, 64) IN
         /\ e.sz = P!EncSz(lo) + P!EncSz(hi) /\ e.w \in SUBSET Nat
         /\ Coded(e.w, 0, P!EncSz(lo), lo)
         /\ Coded(e.w, P!EncSz(lo), P!EncSz(hi), hi)
<1> DEFINE e == P!SvwPair(x)  lo == P!Low(x, 64)  hi == P!Shr(x, 64)
           a == P!EncSz(lo)  c == P!EncSz(hi)  d == P!EncFixed({}, 0, a, lo)
<1>1. P!IsInt(lo, 64) /\ P!IsInt(hi, 64)
  BY Halves, Zenon
<1>2. e.sz = a + c /\ e.w = P!EncFixed(d, a, c, hi)
  BY DEF P!SvwPair, P!Enc
<1> HIDE DEF lo, hi, e
<1>3. /\ lo \in Integers64 /\ a \in Sz /\ P!Fits(lo, a) /\ a \in Nat
      /\ hi \in Integers64 /\ c \in Sz /\ P!Fits(hi, c)
  <2>1. /\ lo \in Integers64 /\ a \in Sz /\ P!Fits(lo, a) /\ a \in Nat \ {0}
        /\ hi \in Integers64 /\ c \in Sz /\ P!Fits(hi, c)
    BY <1>1, SvwSize, Zenon
  <2> QED BY <2>1, Zenon
<1> HIDE DEF a, c
<1>4. {} \in SUBSET Nat /\ 0 \in Nat
  OBVIOUS
<1>5. d \in SUBSET Nat /\ Coded(d, 0, a, lo)
  BY <1>3, <1>4, EncHolds, Zenon
<1> HIDE DEF d
<1>6. e.w \in SUBSET Nat /\ Coded(e.w, a, c, hi) /\ Changes(e.w, d, a, a + c)
  BY <1>2, <1>3, <1>5, EncHolds, ZenonT(30)
<1>7. c \in Nat /\ a + c \in Nat /\ 0 + a <= a /\ 0 + a \in Nat
  BY <1>3 DEF Sz
<1>8. Agree(d, e.w, 0, 0 + a)
  BY <1>3, <1>4, <1>6, <1>7, AgreeOutside, Zenon
<1>9. Coded(e.w, 0, a, lo)
  BY <1>3, <1>4, <1>5, <1>8, CodedOn, Zenon
<1> QED BY <1>2, <1>6, <1>9, Zenon DEF e, lo, hi, a, c

\* Bytes that hold the bytes of a code hold the integer.
LEMMA HeldCode ==
  ASSUME NEW m, NEW v \in Nat, NEW sz \in Nat, NEW w, Holds(m, v, sz, w),
         NEW k \in Nat, NEW csz \in Nat, k + csz <= sz, NEW x, Coded(w, k, csz, x)
  PROVE  Coded(m, v + k, csz, x)
<1> SUFFICES ASSUME NEW i \in 0 .. 8 * csz - 1
             PROVE  8 * (v + k) + i \in m <=> CodeBit(csz, x, i)
  BY Zenon DEF Coded
<1>1. 8 * k + i \in 0 .. 8 * sz - 1 /\ 8 * v + (8 * k + i) = 8 * (v + k) + i
  OBVIOUS
<1>2. 8 * (v + k) + i \in m <=> 8 * k + i \in w
  BY <1>1, Zenon DEF Holds
<1> QED BY <1>2, Zenon DEF Coded

LEMMA HeldOne ==
  ASSUME NEW x, P!IsInt(x, 64), P!Tells(x), NEW m \in SUBSET Nat, NEW v \in Nat,
         Holds(m, v, P!Svw1(x).sz, P!Svw1(x).w)
  PROVE  P!DecSvw(m, v) = x
<1> DEFINE e == P!Svw1(x)
<1>1. e.sz = P!EncSz(x) /\ Coded(e.w, 0, e.sz, x) /\ P!EncSz(x) \in Nat
  <2>1. P!EncSz(x) \in Nat \ {0}
    BY SvwSize, Zenon
  <2> QED BY <2>1, EncodedOne, Zenon
<1> HIDE DEF e
<1>2. 0 \in Nat /\ 0 + e.sz <= e.sz /\ v + 0 = v
  BY <1>1
<1>3. Coded(m, v + 0, e.sz, x)
  BY <1>1, <1>2, HeldCode, Zenon DEF e
<1>4. Coded(m, v, P!EncSz(x), x)
  BY <1>1, <1>2, <1>3, Zenon
<1> QED BY <1>4, SvwRead, Zenon

LEMMA HeldTwo ==
  ASSUME NEW x, P!IsInt(x, 128), P!Tells(P!Low(x, 64)), P!Tells(P!Shr(x, 64)), NEW m \in SUBSET Nat, NEW v \in Nat,
         Holds(m, v, P!SvwPair(x).sz, P!SvwPair(x).w)
  PROVE  P!DecPair(m, v) = x
<1> DEFINE e == P!SvwPair(x)  lo == P!Low(x, 64)  hi == P!Shr(x, 64)
           a == P!EncSz(lo)  c == P!EncSz(hi)
<1>1. P!IsInt(lo, 64) /\ P!IsInt(hi, 64) /\ P!Tells(lo) /\ P!Tells(hi) /\ P!IsInt(x, 128)
  BY Halves, Zenon
<1>2. a \in Nat /\ c \in Nat
  <2>1. a \in Nat \ {0} /\ c \in Nat \ {0}
    BY <1>1, SvwSize, Zenon
  <2> QED BY <2>1, Zenon
<1>3. e.sz = a + c /\ Coded(e.w, 0, a, lo) /\ Coded(e.w, a, c, hi)
  BY EncodedTwo, Zenon
<1> HIDE DEF lo, hi
<1>4. Holds(m, v, e.sz, e.w)
  OBVIOUS
<1> HIDE DEF a, c, e
<1>5. /\ 0 \in Nat /\ e.sz \in Nat /\ 0 + a <= e.sz /\ a + c <= e.sz /\ v + 0 = v
      /\ v + a \in Nat
  BY <1>2, <1>3
<1>6. Coded(m, v, a, lo)
  <2>1. Coded(m, v + 0, a, lo)
    BY <1>2, <1>3, <1>4, <1>5, HeldCode, Zenon
  <2> QED BY <2>1, <1>5, Zenon
<1>7. Coded(m, v + a, c, hi)
  BY <1>2, <1>3, <1>4, <1>5, HeldCode, Zenon
<1>8. P!DecSz(m, v) = a /\ P!DecSvw(m, v) = lo
  BY <1>1, <1>6, SvwRead, Zenon DEF a
<1>9. P!DecSvw(m, v + a) = hi
  BY <1>1, <1>5, <1>7, SvwRead, Zenon DEF c
<1>10. lo \cup P!Shl(hi, 64) = x
  <2>1. x \in SUBSET Nat /\ 64 \in Nat
    BY <1>1 DEF P!IsInt
  <2>2. lo \in SUBSET Nat /\ hi \in SUBSET Nat /\ P!Shl(hi, 64) \in SUBSET Nat
    BY <2>1, MovedNat, Zenon DEF lo, hi
  <2>3. ASSUME NEW j \in Nat PROVE j \in x <=> j \in lo \/ j \in P!Shl(hi, 64)
    <3>1. j \in lo <=> j \in x /\ 0 <= j /\ j < 64
      BY <2>1, InLowBits DEF lo
    <3>2. j \in P!Shl(hi, 64) <=> j - 64 \in hi
      BY <2>2, InMovedUp
    <3>3. j - 64 \in hi <=> j - 64 >= 0 /\ (j - 64) + 64 \in x
      BY <2>1, InMovedDown DEF hi
    <3> QED BY <3>1, <3>2, <3>3
  <2> QED BY <2>1, <2>2, <2>3
<1> QED BY <1>8, <1>9, <1>10, Zenon DEF P!DecPair

\* fd_pod_insert_[type] and fd_pod_query_[type]: a val that is legible can be
\* read from the bytes that it was encoded into.
LEMMA ValRead ==
  ASSUME NEW type, NEW val, P!IsInput(type, val), P!EncVal(type, val).sz \in Nat
  PROVE  LET e == P!EncVal(type, val) IN
         /\ type \in 1 .. 13 /\ e.w \in SUBSET Nat
         /\ P!ValTells(type, val) => \A m \in SUBSET Nat, v \in Nat :
              Holds(m, v, e.sz, e.w) => P!DecVal(m, v, e.sz, type) = val
<1> DEFINE e == P!EncVal(type, val)
<1>0. P!UINT128 = 13 /\ P!INT128 = 8 /\ P!SUBPOD = 0 /\ P!Raw = {0, 1, 2, 9}
      /\ P!Unsigned = {10, 11, 12} /\ P!Signed = {5, 6, 7}
  BY DEF P!UINT128, P!INT128, P!SUBPOD, P!Raw, P!Unsigned, P!Signed, P!BUF, P!CSTR,
         P!UCHAR, P!USHORT, P!UINT, P!ULONG, P!SHORT, P!INT, P!LONG
<1>1. CASE type \in {1, 2, 9} /\ val = [sz |-> val.sz, w |-> val.w]
           /\ P!IsInt(val.w, 8 * val.sz)
  <2>1. e = val
    BY <1>0, <1>1 DEF P!EncVal
  <2>2. val.sz \in Nat
    BY <2>1
  <2>3. val.w \in SUBSET Nat
    BY <1>1, <2>2 DEF P!IsInt
  <2>4. ASSUME NEW m \in SUBSET Nat, NEW v \in Nat, Holds(m, v, val.sz, val.w)
        PROVE  P!DecVal(m, v, val.sz, type) = val
    <3>1. P!Load(m, v, val.sz) = val.w
      BY <1>1, <2>2, <2>4, HoldsLoad, Zenon DEF P!IsInt
    <3>2. P!DecVal(m, v, val.sz, type) = [sz |-> val.sz, w |-> P!Load(m, v, val.sz)]
      BY <1>0, <1>1 DEF P!DecVal
    <3> QED BY <3>1, <3>2, <1>1, Zenon
  <2>5. type \in 1 .. 13
    BY <1>1
  <2> QED BY <2>1, <2>3, <2>4, <2>5, Zenon
<1>2. CASE type \in {10, 11, 12} /\ P!IsInt(val, 64)
  <2>1. e = P!Svw1(val)
    BY <1>0, <1>2 DEF P!EncVal
  <2>2. \A m, v : P!DecVal(m, v, e.sz, type) = P!DecSvw(m, v)
    BY <1>0, <1>2 DEF P!DecVal
  <2>3. e.w \in SUBSET Nat
    BY <2>1, <1>2, EncodedOne, Zenon
  <2>4. P!ValTells(type, val) =>
          \A m \in SUBSET Nat, v \in Nat : Holds(m, v, e.sz, e.w) => P!DecSvw(m, v) = val
    <3>1. P!ValTells(type, val) => P!Tells(val)
      BY <1>0, <1>2, Zenon DEF P!ValTells
    <3> QED BY <3>1, <2>1, <1>2, HeldOne, Zenon
  <2>5. type \in 1 .. 13
    BY <1>2
  <2> HIDE DEF e
  <2> QED BY <2>2, <2>3, <2>4, <2>5, Zenon DEF e
<1>3. CASE type \in {5, 6, 7} /\ P!IsInt(val, 64)
  <2> DEFINE z == P!ZzEnc(val, 64)
  <2>0. P!IsInt(z, 64) /\ P!ZzDec(z, 64) = val
    BY <1>3, 64 \in Nat \ {0}, ZigZag, ZigZagInt, Zenon
  <2>1. e = P!Svw1(z)
    BY <1>0, <1>3 DEF P!EncVal
  <2>2. \A m, v : P!DecVal(m, v, e.sz, type) = P!ZzDec(P!DecSvw(m, v), 64)
    BY <1>0, <1>3 DEF P!DecVal
  <2>3. P!ValTells(type, val) => P!Tells(z)
    BY <1>0, <1>3, Zenon DEF P!ValTells
  <2> HIDE DEF z
  <2>4. e.w \in SUBSET Nat
    BY <2>0, <2>1, EncodedOne, Zenon
  <2>5. type \in 1 .. 13
    BY <1>3
  <2>6. ASSUME P!ValTells(type, val), NEW m \in SUBSET Nat, NEW v \in Nat,
               Holds(m, v, e.sz, e.w)
        PROVE  P!DecVal(m, v, e.sz, type) = val
    <3>1. P!DecSvw(m, v) = z
      BY <2>0, <2>1, <2>3, <2>6, HeldOne, Zenon
    <3>2. P!ZzDec(P!DecSvw(m, v), 64) = val
      BY <3>1, <2>0
    <3> QED BY <3>2, <2>2
  <2> HIDE DEF e
  <2> QED BY <2>4, <2>5, <2>6, Zenon DEF e
<1>4. CASE type = 13 /\ P!IsInt(val, 128)
  <2>1. e = P!SvwPair(val)
    BY <1>0, <1>4 DEF P!EncVal
  <2>2. \A m, v : P!DecVal(m, v, e.sz, type) = P!DecPair(m, v)
    BY <1>0, <1>4 DEF P!DecVal
  <2>3. e.w \in SUBSET Nat
    BY <2>1, <1>4, EncodedTwo, Zenon
  <2>4. P!ValTells(type, val) =>
          \A m \in SUBSET Nat, v \in Nat : Holds(m, v, e.sz, e.w) => P!DecPair(m, v) = val
    <3>1. P!ValTells(type, val) => P!Tells(P!Low(val, 64)) /\ P!Tells(P!Shr(val, 64))
      BY <1>0, <1>4, Zenon DEF P!ValTells
    <3> QED BY <3>1, <2>1, <1>4, HeldTwo, Zenon
  <2>5. type \in 1 .. 13
    BY <1>4
  <2> HIDE DEF e
  <2> QED BY <2>2, <2>3, <2>4, <2>5, Zenon DEF e
<1>5. CASE type = 8 /\ P!IsInt(val, 128)
  <2> DEFINE z == P!ZzEnc(val, 128)
  <2>0. P!IsInt(z, 128) /\ P!ZzDec(z, 128) = val
    BY <1>5, 128 \in Nat \ {0}, ZigZag, ZigZagInt, Zenon
  <2>1. e = P!SvwPair(z)
    BY <1>0, <1>5 DEF P!EncVal
  <2>2. \A m, v : P!DecVal(m, v, e.sz, type) = P!ZzDec(P!DecPair(m, v), 128)
    BY <1>0, <1>5 DEF P!DecVal
  <2>3. P!ValTells(type, val) => P!Tells(P!Low(z, 64)) /\ P!Tells(P!Shr(z, 64))
    BY <1>0, <1>5, Zenon DEF P!ValTells
  <2> HIDE DEF z
  <2>4. e.w \in SUBSET Nat
    BY <2>0, <2>1, EncodedTwo, Zenon
  <2>5. type \in 1 .. 13
    BY <1>5
  <2>6. ASSUME P!ValTells(type, val), NEW m \in SUBSET Nat, NEW v \in Nat,
               Holds(m, v, e.sz, e.w)
        PROVE  P!DecVal(m, v, e.sz, type) = val
    <3>1. P!DecPair(m, v) = z
      BY <2>0, <2>1, <2>3, <2>6, HeldTwo, Zenon
    <3>2. P!ZzDec(P!DecPair(m, v), 128) = val
      BY <3>1, <2>0
    <3> QED BY <3>2, <2>2
  <2> HIDE DEF e
  <2> QED BY <2>4, <2>5, <2>6, Zenon DEF e
<1>6. \/ type \in {1, 2, 9} /\ val = [sz |-> val.sz, w |-> val.w]
         /\ P!IsInt(val.w, 8 * val.sz)
      \/ type \in {10, 11, 12} /\ P!IsInt(val, 64)
      \/ type \in {5, 6, 7} /\ P!IsInt(val, 64)
      \/ type = 13 /\ P!IsInt(val, 128)
      \/ type = 8 /\ P!IsInt(val, 128)
  <2>1. {0, 1, 2, 9} \ {0} = {1, 2, 9}
    OBVIOUS
  <2>2. \/ type \in {1, 2, 9} /\ val = [sz |-> val.sz, w |-> val.w]
           /\ P!IsInt(val.w, 8 * val.sz)
        \/ type \in {10, 11, 12} \cup {5, 6, 7} /\ P!IsInt(val, 64)
        \/ type \in {13, 8} /\ P!IsInt(val, 128)
    BY <1>0, <2>1, ZenonT(30) DEF P!IsInput
  <2> QED BY <2>2, ZenonT(30)
<1> QED BY <1>1, <1>2, <1>3, <1>4, <1>5, <1>6, ZenonT(30)

-----------------------------------------------------------------------------
(* Pairs and pods                                                           *)

\* What a pair is in front of its val.
HeadAt(m, at, key, type, sz) ==
  /\ Coded(m, at, 1, P!Word(2))
  /\ Holds(m, at + 1, 1, P!Word(key)) /\ Holds(m, at + 3, 1, P!Word(type))
  /\ Coded(m, at + 4, P!EncSz(P!Word(sz)), P!Word(sz))

\* The bytes of the val of a pair, and where they are.
ValSz(p) == IF p.type = 0 THEN SubMax ELSE P!EncVal(p.type, p.val).sz
ValPlace(at, p) == at + 4 + P!EncSz(P!Word(ValSz(p)))

PairAt(m, at, p) ==
  /\ HeadAt(m, at, p.key, p.type, ValSz(p))
  /\ IF p.type = 0 THEN p.val = ValPlace(at, p)
     ELSE Holds(m, ValPlace(at, p), ValSz(p), P!EncVal(p.type, p.val).w)

Entry == [key : Keys, type : 0 .. 13, val : Nat \cup {in.val : in \in Inputs}]

\* A pair is a subpod, or one that the user may insert.
Inserted(p) ==
  /\ p \in Entry
  /\ IF p.type = 0 THEN p.val \in Nat
     ELSE \E in \in Inputs : p.type = in.type /\ p.val = in.val

\* The bytes a pod may use, and those of each integer of its header.
MaxOf(b) == IF b = 0 THEN RootMax ELSE SubMax
HdrSz(b) == P!EncSz(P!Word(MaxOf(b)))

HeaderAt(m, b, used, cnt) ==
  /\ Coded(m, b, HdrSz(b), P!Word(MaxOf(b)))
  /\ Coded(m, b + HdrSz(b), HdrSz(b), P!Word(used))
  /\ Coded(m, b + 2 * HdrSz(b), HdrSz(b), P!Word(cnt))

\* The pairs lie one behind the other: ps[k] is where the k-th is, and the
\* last of ps where they end.
Places(ps, b, s) ==
  /\ ps \in Seq(Nat) /\ Len(ps) = Len(s) + 1
  /\ ps[1] = b + 3 * HdrSz(b) /\ ps[Len(ps)] <= b + MaxOf(b)
  /\ \A k \in 1 .. Len(s) : ps[k + 1] = ps[k] + P!PairSz(ValSz(s[k]))
  /\ \A j, k \in 1 .. Len(ps) : j < k => ps[j] + (k - j) <= ps[k]

\* The sizes of all of its vals are legible.
AllTell(s) == \A k \in 1 .. Len(s) : P!SizeTells(ValSz(s[k]))

\* The pod at b holds the pairs s.  Their keys differ while all of them can be
\* found.
PodAt(m, b, s, ps) ==
  /\ s \in Seq(Entry) /\ \A k \in 1 .. Len(s) : Inserted(s[k])
  /\ AllTell(s) => \A j, k \in 1 .. Len(s) : j # k => s[j].key # s[k].key
  /\ Places(ps, b, s)
  /\ HeaderAt(m, b, ps[Len(ps)] - b, Len(s))
  /\ \A k \in 1 .. Len(s) : PairAt(m, ps[k], s[k])

LEMMA PodFacts ==
  /\ P!IsSize(2) /\ P!IsSize(RootMax) /\ P!IsSize(SubMax)
  /\ \A key \in Keys : key \in 1 .. 255
  /\ \A max \in {RootMax, SubMax} : P!SizeTells(max) /\ 3 * P!EncSz(P!Word(max)) <= max
  /\ \A in \in Inputs : P!IsInput(in.type, in.val) /\ P!IsSize(P!EncVal(in.type, in.val).sz)
BY CodecsAssumption, Zenon DEF CodecsAssumption, P!PodAssumption

LEMMA TwoIs == P!Word(2) = {1} /\ P!EncSz(P!Word(2)) = 1
<1>1. 2 \in 0 .. 255 /\ 0 \in 0 .. 2 * WordBits /\ 1 \in 0 .. 2 * WordBits
      /\ 1 \in 0 .. WordBits /\ 0 \in 0 .. 2 * WordBits - 1
  BY WordFacts
<1>2. P!Word(2) = {1}
  <2>1. 2 ^ 1 = 2
    <3>1. 2 ^ (0 + 1) = 2 * 2 ^ 0
      BY <1>1, WordFacts, Zenon DEF Doubling
    <3> QED BY <3>1
  <2>2. 1 \in Positions
    BY WordFacts DEF Positions
  <2>3. B!Num({1}) = 2 /\ {1} \in Words
    BY <2>1, <2>2, OneBit
  <2>4. B!Cast(B!Num({1})) = {1}
    BY <2>3, CastOfNum, Zenon DEF Words
  <2> QED BY <2>3, <2>4, SameWords, Zenon
<1>3. {1} \in Integers64
  BY DEF Integers64
<1>4. S!Fits({1}, 1)
  BY Rooms DEF S!Fits
<1>5. S!EncSz({1}) = 1
  <2>1. \A c \in Sz : 1 <= c
    BY DEF Sz
  <2>2. S!EncSz({1}) = CHOOSE c \in Sz : S!Fits({1}, c) /\ \A d \in Sz : S!Fits({1}, d) => c <= d
    BY Rooms DEF S!EncSz
  <2>3. 1 \in Sz
    BY DEF Sz
  <2>4. S!EncSz({1}) \in Sz /\ \A d \in Sz : S!Fits({1}, d) => S!EncSz({1}) <= d
    BY <1>4, <2>1, <2>2, <2>3
  <2> QED BY <1>4, <2>1, <2>3, <2>4 DEF Sz
<1> QED BY <1>2, <1>5, SameCodec, Zenon

LEMMA EntryFacts ==
  ASSUME NEW p, Inserted(p)
  PROVE  /\ P!IsSize(ValSz(p)) /\ p.key \in 1 .. 255 /\ p.type \in 0 .. 13
         /\ p.type # 0 => P!IsInput(p.type, p.val) /\ ValSz(p) = P!EncVal(p.type, p.val).sz
<1>1. p.key \in Keys /\ p.type \in 0 .. 13
  BY DEF Inserted, Entry
<1>2. p.type # 0 => P!IsInput(p.type, p.val) /\ P!IsSize(P!EncVal(p.type, p.val).sz)
  BY PodFacts, Zenon DEF Inserted
<1> QED BY <1>1, <1>2, PodFacts, Zenon DEF ValSz

LEMMA PairSzIs ==
  ASSUME NEW sz, P!IsSize(sz)
  PROVE  /\ P!EncSz(P!Word(sz)) \in Sz /\ P!EncSz(P!Word(sz)) \in Nat \ {0} /\ sz \in Nat
         /\ P!PairSz(sz) = 4 + P!EncSz(P!Word(sz)) + sz
         /\ P!PairSz(sz) \in Nat /\ 5 <= P!PairSz(sz)
<1>1. sz \in Nat /\ P!IsInt(P!Word(sz), 64)
  BY SizeWord, Zenon
<1>2. P!EncSz(P!Word(sz)) \in Sz /\ P!EncSz(P!Word(sz)) \in Nat \ {0}
  BY <1>1, SvwSize, Zenon
<1> QED BY <1>1, <1>2 DEF P!PairSz

LEMMA TwoTells == P!Tells(P!Word(2))
<1>1. ASSUME NEW x, NEW csz, csz = 1 PROVE P!Legible(x, csz)
  BY <1>1 DEF P!Legible
<1> QED BY <1>1, TwoIs, Zenon DEF P!Tells

\* fd_pod_iter_info and fd_pod_iter_next
LEMMA HeadRead ==
  ASSUME NEW m \in SUBSET Nat, NEW at \in Nat, NEW key \in 1 .. 255, NEW type \in 0 .. 13,
         NEW sz, P!IsSize(sz), P!SizeTells(sz), HeadAt(m, at, key, type, sz)
  PROVE  /\ P!Info(m, at) = [key |-> key, type |-> type, sz |-> sz,
                             at |-> at + 4 + P!EncSz(P!Word(sz))]
         /\ P!Skip(m, at) = at + P!PairSz(sz)
<1> DEFINE c == P!EncSz(P!Word(sz))
<1>1. P!EncSz(P!Word(2)) = 1 /\ P!IsInt(P!Word(2), 64) /\ P!Tells(P!Word(2))
      /\ P!Num(P!Word(2)) = 2
  BY TwoTells, TwoIs, PodFacts, SizeWord, Zenon
<1>2. P!DecSz(m, at) = 1 /\ P!Num(P!DecFixed(m, at, 1)) = 2
  <2>1. Coded(m, at, P!EncSz(P!Word(2)), P!Word(2))
    BY <1>1, Zenon DEF HeadAt
  <2>2. P!DecSz(m, at) = 1 /\ P!DecFixed(m, at, 1) = P!Word(2)
    BY <1>1, <2>1, SvwRead
  <2> QED BY <1>1, <2>2, Zenon
<1>3. P!Num(P!Load(m, at + 1, 1)) = key
  <2>1. key \in 0 .. 255 /\ at + 1 \in Nat /\ 1 \in Nat /\ 8 * 1 - 1 = 7
    OBVIOUS
  <2>2. P!Word(key) \subseteq 0 .. 7 /\ P!Num(P!Word(key)) = key
    BY <2>1, OneByte, Zenon
  <2>3. P!Load(m, at + 1, 1) = P!Word(key)
    BY <2>1, <2>2, HoldsLoad, Zenon DEF HeadAt
  <2> QED BY <2>2, <2>3, Zenon
<1>4. P!Num(P!Load(m, at + 3, 1)) = type
  <2>1. type \in 0 .. 255 /\ at + 3 \in Nat /\ 1 \in Nat /\ 8 * 1 - 1 = 7
    OBVIOUS
  <2>2. P!Word(type) \subseteq 0 .. 7 /\ P!Num(P!Word(type)) = type
    BY <2>1, OneByte, Zenon
  <2>3. P!Load(m, at + 3, 1) = P!Word(type)
    BY <2>1, <2>2, HoldsLoad, Zenon DEF HeadAt
  <2> QED BY <2>2, <2>3, Zenon
<1>5. P!DecSz(m, at + 4) = c /\ P!Num(P!DecFixed(m, at + 4, c)) = sz
  <2>1. P!IsInt(P!Word(sz), 64) /\ P!Num(P!Word(sz)) = sz /\ at + 4 \in Nat
    BY SizeWord
  <2>2. P!Tells(P!Word(sz))
    BY Zenon DEF P!SizeTells
  <2>3. Coded(m, at + 4, c, P!Word(sz))
    BY Zenon DEF HeadAt
  <2>4. P!DecSz(m, at + 4) = c /\ P!DecFixed(m, at + 4, c) = P!Word(sz)
    BY <2>1, <2>2, <2>3, SvwRead, Zenon
  <2> QED BY <2>1, <2>4, Zenon
<1>6. c \in Nat /\ sz \in Nat /\ P!PairSz(sz) = 4 + c + sz
  BY PairSzIs
<1> HIDE DEF c
<1>7. (at + 1) + 2 = at + 3 /\ (at + 3) + 1 = at + 4 /\ at + 1 + 2 + 1 = at + 4
  OBVIOUS
<1>8. P!Info(m, at) = [key |-> key, type |-> type, sz |-> sz, at |-> at + 4 + c]
  BY <1>2, <1>3, <1>4, <1>5, <1>6, <1>7 DEF P!Info
<1>9. P!Skip(m, at) = at + P!PairSz(sz)
  BY <1>2, <1>5, <1>6, <1>7 DEF P!Skip
<1> QED BY <1>8, <1>9, Zenon DEF c

LEMMA HdrFacts ==
  ASSUME NEW b
  PROVE  /\ MaxOf(b) \in Nat /\ P!IsSize(MaxOf(b))
         /\ P!IsInt(P!Word(MaxOf(b)), 64) /\ P!Tells(P!Word(MaxOf(b)))
         /\ P!Num(P!Word(MaxOf(b))) = MaxOf(b)
         /\ HdrSz(b) \in Sz /\ HdrSz(b) \in Nat \ {0} /\ 3 * HdrSz(b) <= MaxOf(b)
         /\ P!Fits(P!Word(MaxOf(b)), HdrSz(b))
<1>1. MaxOf(b) \in {RootMax, SubMax}
  BY DEF MaxOf
<1>2. P!IsSize(MaxOf(b)) /\ P!Tells(P!Word(MaxOf(b))) /\ 3 * HdrSz(b) <= MaxOf(b)
  BY <1>1, PodFacts, Zenon DEF HdrSz, P!SizeTells
<1> QED BY <1>2, SizeWord, SvwSize, Zenon DEF HdrSz

\* What fits the header of a pod.
LEMMA InHeader ==
  ASSUME NEW b, NEW n \in Nat, n <= MaxOf(b)
  PROVE  /\ P!Fits(P!Word(n), HdrSz(b)) /\ P!Word(n) \in Integers64
         /\ P!Num(P!Word(n)) = n
BY HdrFacts, SmallerFits, Zenon

LEMMA HeaderRead ==
  ASSUME NEW m \in SUBSET Nat, NEW b \in Nat, NEW used \in Nat, NEW cnt \in Nat,
         used <= MaxOf(b), cnt <= MaxOf(b), HeaderAt(m, b, used, cnt)
  PROVE  /\ P!HdrCsz(m, b) = HdrSz(b) /\ P!PodMax(m, b) = MaxOf(b)
         /\ P!PodUsed(m, b) = used /\ P!PodCnt(m, b) = cnt
         /\ P!First(m, b) = b + 3 * HdrSz(b) /\ P!Stop(m, b) = b + used
         /\ P!PodAvail(m, b) = MaxOf(b) - used
<1> DEFINE c == HdrSz(b)
<1>1. c \in Sz /\ c \in Nat /\ c \in Nat \ {0}
  BY HdrFacts, Zenon
<1>2. P!DecSz(m, b) = c /\ P!DecFixed(m, b, c) = P!Word(MaxOf(b))
  BY HdrFacts, SvwRead, Zenon DEF HeaderAt, HdrSz
<1>3. P!HdrCsz(m, b) = c
  BY <1>2, Zenon DEF P!HdrCsz
<1>4. ASSUME NEW a \in Nat, NEW n \in Nat, n <= MaxOf(b), Coded(m, a, c, P!Word(n))
      PROVE  P!Num(P!DecFixed(m, a, c)) = n
  <2>1. P!Fits(P!Word(n), c) /\ P!Word(n) \in Integers64 /\ P!Num(P!Word(n)) = n
    BY <1>4, InHeader, Zenon
  <2>2. S!Fits(P!Word(n), c)
    BY <2>1, SameCodec, Zenon
  <2>3. S!DecFixed(m, a, c) = P!Word(n)
    BY <1>1, <1>4, <2>1, <2>2, DecReads, Zenon
  <2>4. P!DecFixed(m, a, c) = S!DecFixed(m, a, c)
    BY <1>1, SameCodec, Zenon
  <2> QED BY <2>1, <2>3, <2>4, Zenon
<1>5. b + c \in Nat /\ b + 2 * c \in Nat /\ b + 0 * c = b /\ b + 1 * c = b + c
  BY <1>1
<1>6. /\ P!Num(P!DecFixed(m, b + c, c)) = used
      /\ P!Num(P!DecFixed(m, b + 2 * c, c)) = cnt
  BY <1>4, <1>5, Zenon DEF HeaderAt
<1>7. P!Num(P!DecFixed(m, b, c)) = MaxOf(b)
  BY <1>2, HdrFacts, Zenon
<1> HIDE DEF c
<1>8. P!PodMax(m, b) = MaxOf(b) /\ P!PodUsed(m, b) = used /\ P!PodCnt(m, b) = cnt
  BY <1>3, <1>5, <1>6, <1>7 DEF P!PodMax, P!PodUsed, P!PodCnt, P!HdrField
<1> QED BY <1>3, <1>8, Zenon DEF P!First, P!Stop, P!PodAvail, c

LEMMA PlaceFacts ==
  ASSUME NEW b \in Nat, NEW s \in Seq(Entry), NEW ps, Places(ps, b, s),
         \A k \in 1 .. Len(s) : Inserted(s[k])
  PROVE  /\ Len(s) \in Nat /\ Len(ps) = Len(s) + 1 /\ ps[1] = b + 3 * HdrSz(b)
         /\ \A k \in 1 .. Len(s) + 1 :
              ps[k] \in Nat /\ ps[1] <= ps[k] /\ ps[k] <= ps[Len(s) + 1]
         /\ \A k \in 1 .. Len(s) :
              /\ ps[k] \in Nat /\ ps[k + 1] \in Nat /\ ps[k] + 5 <= ps[k + 1]
              /\ P!IsSize(ValSz(s[k])) /\ ValPlace(ps[k], s[k]) \in Nat
              /\ ps[k] + 5 <= ValPlace(ps[k], s[k])
              /\ ValPlace(ps[k], s[k]) + ValSz(s[k]) = ps[k + 1]
         /\ \A j \in 1 .. Len(s) : \A k \in 1 .. Len(s) + 1 : j < k => ps[j + 1] <= ps[k]
         /\ ps[Len(ps)] - b \in Nat /\ ps[Len(ps)] - b <= MaxOf(b)
         /\ Len(s) <= MaxOf(b) /\ b <= ps[1]
<1> DEFINE n == Len(s)
<1>1. n \in Nat /\ Len(ps) = n + 1 /\ ps[1] = b + 3 * HdrSz(b)
  BY DEF Places
<1>2. \A k \in 1 .. n + 1 : ps[k] \in Nat
  BY <1>1 DEF Places
<1>3. \A j, k \in 1 .. n + 1 : j < k => ps[j] + (k - j) <= ps[k]
  BY <1>1, Zenon DEF Places
<1>4. ps[n + 1] <= b + MaxOf(b) /\ HdrSz(b) \in Nat /\ MaxOf(b) \in Nat
  BY <1>1, HdrFacts, Zenon DEF Places
<1>5. ASSUME NEW k \in 1 .. n
      PROVE  /\ ps[k] \in Nat /\ ps[k + 1] \in Nat /\ ps[k] + 5 <= ps[k + 1]
             /\ P!IsSize(ValSz(s[k])) /\ ValPlace(ps[k], s[k]) \in Nat
             /\ ps[k] + 5 <= ValPlace(ps[k], s[k])
             /\ ValPlace(ps[k], s[k]) + ValSz(s[k]) = ps[k + 1]
  <2> DEFINE z == ValSz(s[k])  c == P!EncSz(P!Word(z))
  <2>1. P!IsSize(z)
    BY <1>5, EntryFacts, Zenon
  <2>2. c \in Nat \ {0} /\ z \in Nat /\ P!PairSz(z) = 4 + c + z
    BY <2>1, PairSzIs, Zenon
  <2>3. ps[k + 1] = ps[k] + P!PairSz(z)
    BY <1>5, Zenon DEF Places
  <2>4. k \in 1 .. n + 1 /\ k + 1 \in 1 .. n + 1
    BY <1>1
  <2>5. ValPlace(ps[k], s[k]) = ps[k] + 4 + c
    BY Zenon DEF ValPlace
  <2>6. ps[k] \in Nat /\ ps[k + 1] \in Nat
    BY <1>2, <2>4, Zenon
  <2> HIDE DEF z, c
  <2>7. ps[k] + 5 <= ps[k + 1] /\ ValPlace(ps[k], s[k]) \in Nat
        /\ ps[k] + 5 <= ValPlace(ps[k], s[k]) /\ ValPlace(ps[k], s[k]) + z = ps[k + 1]
    BY <2>2, <2>3, <2>5, <2>6, SMTT(30)
  <2> QED BY <2>1, <2>6, <2>7, Zenon DEF z
<1> HIDE DEF n
<1>6. \A k \in 1 .. n + 1 : ps[1] <= ps[k] /\ ps[k] <= ps[n + 1]
  <2> TAKE k \in 1 .. n + 1
  <2>1. 1 \in 1 .. n + 1 /\ n + 1 \in 1 .. n + 1
    BY <1>1
  <2>2. 1 < k => ps[1] + (k - 1) <= ps[k]
    BY <1>3, <2>1, Zenon
  <2>3. k < n + 1 => ps[k] + ((n + 1) - k) <= ps[n + 1]
    BY <1>3, <2>1, Zenon
  <2>4. ps[1] \in Nat /\ ps[k] \in Nat /\ ps[n + 1] \in Nat
    BY <1>2, <2>1, Zenon
  <2>5. k = 1 \/ 1 < k
    BY <1>1
  <2>6. k = n + 1 \/ k < n + 1
    BY <1>1
  <2>7. ps[1] <= ps[k]
    BY <2>2, <2>4, <2>5
  <2>8. ps[k] <= ps[n + 1]
    BY <1>1, <2>3, <2>4, <2>6
  <2> QED BY <2>7, <2>8
<1>7. \A j \in 1 .. n : \A k \in 1 .. n + 1 : j < k => ps[j + 1] <= ps[k]
  <2> SUFFICES ASSUME NEW j \in 1 .. n, NEW k \in 1 .. n + 1, j < k
               PROVE  ps[j + 1] <= ps[k]
    BY Zenon
  <2>1. j + 1 \in 1 .. n + 1 /\ (j + 1 = k \/ j + 1 < k)
    BY <1>1
  <2>2. j + 1 < k => ps[j + 1] + (k - (j + 1)) <= ps[k]
    BY <1>3, <2>1, Zenon
  <2>3. ps[j + 1] \in Nat /\ ps[k] \in Nat
    BY <1>2, <2>1, Zenon
  <2> QED BY <1>1, <2>1, <2>2, <2>3
<1>8. ps[Len(ps)] - b \in Nat /\ ps[Len(ps)] - b <= MaxOf(b) /\ n <= MaxOf(b) /\ b <= ps[1]
  <2>1. ps[1] \in Nat /\ ps[n + 1] \in Nat /\ ps[1] <= ps[n + 1] /\ n + 1 \in 1 .. n + 1
        /\ 1 \in 1 .. n + 1
    BY <1>1, <1>2, <1>6
  <2>2. b <= ps[1]
    BY <1>1, <1>4, <2>1
  <2>3. 1 < n + 1 => ps[1] + ((n + 1) - 1) <= ps[n + 1]
    BY <1>3, <2>1, Zenon
  <2>4. n <= ps[n + 1] - b
    BY <1>1, <2>1, <2>2, <2>3
  <2> QED BY <1>1, <1>4, <2>1, <2>2, <2>4
<1> QED BY <1>1, <1>2, <1>5, <1>6, <1>7, <1>8, Zenon DEF n

\* What an iterator shows of a pair.
Shown(p, at) ==
  [key |-> p.key, type |-> p.type, sz |-> ValSz(p), at |-> ValPlace(at, p)]

LEMMA PairRead ==
  ASSUME NEW m \in SUBSET Nat, NEW b \in Nat, NEW s, NEW ps, PodAt(m, b, s, ps),
         AllTell(s), NEW k \in 1 .. Len(s)
  PROVE  P!Info(m, ps[k]) = Shown(s[k], ps[k]) /\ P!Skip(m, ps[k]) = ps[k + 1]
<1>1. s \in Seq(Entry) /\ Places(ps, b, s) /\ \A i \in 1 .. Len(s) : Inserted(s[i])
  BY Zenon DEF PodAt
<1>2. Inserted(s[k]) /\ ps[k] \in Nat
  BY <1>1, PlaceFacts, Zenon
<1>3. P!IsSize(ValSz(s[k])) /\ s[k].key \in 1 .. 255 /\ s[k].type \in 0 .. 13
  BY <1>2, EntryFacts, ZenonT(30)
<1>4. HeadAt(m, ps[k], s[k].key, s[k].type, ValSz(s[k]))
  BY Zenon DEF PodAt, PairAt
<1>5. P!SizeTells(ValSz(s[k]))
  BY Zenon DEF AllTell
<1>6. P!Info(m, ps[k]) = Shown(s[k], ps[k])
      /\ P!Skip(m, ps[k]) = ps[k] + P!PairSz(ValSz(s[k]))
  BY <1>2, <1>3, <1>4, <1>5, HeadRead, Zenon DEF Shown, ValPlace
<1>7. ps[k + 1] = ps[k] + P!PairSz(ValSz(s[k]))
  BY <1>1, Zenon DEF Places
<1> QED BY <1>6, <1>7, Zenon

LEMMA PairSkip ==
  ASSUME NEW m \in SUBSET Nat, NEW b \in Nat, NEW s, NEW ps, PodAt(m, b, s, ps),
         AllTell(s), NEW k \in 1 .. Len(s), NEW behind, behind = ps[k + 1]
  PROVE  P!Skip(m, ps[k]) = behind
<1> DEFINE at == ps[k]
<1>1. P!Info(m, at) = Shown(s[k], at) /\ P!Skip(m, at) = ps[k + 1]
  BY PairRead
<1> QED BY <1>1, Zenon

LEMMA PodRead ==
  ASSUME NEW m \in SUBSET Nat, NEW b \in Nat, NEW s, NEW ps, PodAt(m, b, s, ps)
  PROVE  /\ P!HdrCsz(m, b) = HdrSz(b) /\ P!PodMax(m, b) = MaxOf(b)
         /\ P!PodUsed(m, b) = ps[Len(ps)] - b /\ P!PodCnt(m, b) = Len(s)
         /\ P!First(m, b) = ps[1] /\ P!Stop(m, b) = ps[Len(s) + 1]
         /\ P!PodAvail(m, b) = MaxOf(b) - (ps[Len(ps)] - b)
<1> DEFINE used == ps[Len(ps)] - b
<1>0. s \in Seq(Entry) /\ Places(ps, b, s) /\ \A k \in 1 .. Len(s) : Inserted(s[k])
  BY Zenon DEF PodAt
<1>1. /\ used \in Nat /\ used <= MaxOf(b) /\ Len(s) \in Nat /\ Len(s) <= MaxOf(b)
      /\ Len(ps) = Len(s) + 1 /\ ps[1] = b + 3 * HdrSz(b)
  BY <1>0, PlaceFacts, Zenon
<1>2. /\ P!HdrCsz(m, b) = HdrSz(b) /\ P!PodMax(m, b) = MaxOf(b)
      /\ P!PodUsed(m, b) = used /\ P!PodCnt(m, b) = Len(s)
      /\ P!First(m, b) = b + 3 * HdrSz(b) /\ P!Stop(m, b) = b + used
      /\ P!PodAvail(m, b) = MaxOf(b) - used
  BY <1>1, HeaderRead, Zenon DEF PodAt
<1>3. b + used = ps[Len(s) + 1]
  <2>1. Len(s) + 1 \in 1 .. Len(s) + 1
    BY <1>1
  <2>2. ps[Len(s) + 1] \in Nat
    BY <1>0, <2>1, PlaceFacts, Zenon
  <2> QED BY <1>1, <2>2
<1> QED BY <1>1, <1>2, <1>3, Zenon

\* The cursors of the pairs are where the pairs are.
CursorsAt(m, b, s, ps) == \A k \in 1 .. Len(s) : P!Cursors(m, b)[k] = ps[k]

LEMMA CursorsAre ==
  ASSUME NEW m \in SUBSET Nat, NEW b \in Nat, NEW s, NEW ps, PodAt(m, b, s, ps),
         AllTell(s)
  PROVE  CursorsAt(m, b, s, ps)
<1>0. P!PodCnt(m, b) = Len(s) /\ P!First(m, b) = ps[1]
  BY PodRead
<1>1. \A k \in 1 .. Len(s) : P!Skip(m, ps[k]) = ps[k + 1]
  <2> TAKE k \in 1 .. Len(s)
  <2>1. PICK behind : behind = ps[k + 1]
    OBVIOUS
  <2>2. P!Skip(m, ps[k]) = behind
    BY <2>1, PairSkip
  <2> QED BY <2>1, <2>2, Zenon
<1>2. Len(s) \in Nat
  <2>1. s \in Seq(Entry)
    BY Zenon DEF PodAt
  <2> QED BY <2>1
<1> DEFINE F(f) == [k \in 1 .. P!PodCnt(m, b) |->
                      IF k = 1 THEN P!First(m, b) ELSE P!Skip(m, f[k - 1])]
           h == CHOOSE f : f = F(f)
           g == [k \in 1 .. Len(s) |-> ps[k]]
<1>3. P!Cursors(m, b) = h
  BY Zenon DEF P!Cursors
<1>4. g = F(g)
  <2>1. \A k \in 1 .. Len(s) : g[k] = IF k = 1 THEN ps[1] ELSE P!Skip(m, g[k - 1])
    <3> TAKE k \in 1 .. Len(s)
    <3>1. k # 1 => k - 1 \in 1 .. Len(s) /\ (k - 1) + 1 = k
      BY <1>2
    <3>2. k # 1 => P!Skip(m, g[k - 1]) = ps[k]
      BY <3>1, <1>1
    <3> QED BY <3>2
  <2> QED BY <2>1, <1>0
<1>5. h = F(h)
  <2>1. \E f : f = F(f)
    BY <1>4, Zenon
  <2> QED BY <2>1, Zenon
<1> HIDE DEF h
<1>6. \A k \in 1 .. Len(s) : h[k] = IF k = 1 THEN ps[1] ELSE P!Skip(m, h[k - 1])
  BY <1>0, <1>5
<1>7. \A k \in 1 .. Len(s) : h[k] = ps[k]
  <2> DEFINE Bad == {k \in 1 .. Len(s) : h[k] # ps[k]}
  <2> SUFFICES ASSUME Bad # {} PROVE FALSE
    BY Zenon
  <2>1. Bad \in SUBSET Nat
    BY <1>2
  <2>2. PICK k \in Bad : \A j \in Bad : k <= j
    BY <2>1, HasLeast, Zenon
  <2>3. k \in 1 .. Len(s) /\ h[k] # ps[k]
    BY Zenon
  <2>4. k # 1
    BY <2>3, <1>6, Zenon
  <2>5. k - 1 \in 1 .. Len(s) /\ ~(k <= k - 1) /\ (k - 1) + 1 = k
    BY <2>3, <2>4, <1>2
  <2>6. h[k - 1] = ps[k - 1]
    BY <2>2, <2>5, Zenon
  <2>7. h[k] = P!Skip(m, ps[k - 1])
    BY <2>3, <2>4, <2>6, <1>6, Zenon
  <2>8. P!Skip(m, ps[k - 1]) = ps[k]
    BY <2>5, <1>1
  <2> QED BY <2>3, <2>7, <2>8, Zenon
<1> QED BY <1>3, <1>7, Zenon DEF CursorsAt

LEMMA FindIs ==
  ASSUME NEW m \in SUBSET Nat, NEW b \in Nat, NEW s, NEW ps, PodAt(m, b, s, ps),
         AllTell(s), NEW key
  PROVE  /\ \A k \in 1 .. Len(s) :
              s[k].key = key => P!Find(m, b, key) = {Shown(s[k], ps[k])}
         /\ (\A k \in 1 .. Len(s) : s[k].key # key) => P!Find(m, b, key) = {}
<1> DEFINE cs == P!Cursors(m, b)
<1>1. P!PodCnt(m, b) = Len(s)
  BY PodRead
<1>2. \A k \in 1 .. Len(s) : P!Info(m, cs[k]) = Shown(s[k], ps[k])
  <2> TAKE k \in 1 .. Len(s)
  <2>1. cs[k] = ps[k]
    <3>1. CursorsAt(m, b, s, ps)
      BY CursorsAre, Zenon
    <3> QED BY <3>1, Zenon DEF CursorsAt
  <2>2. P!Info(m, ps[k]) = Shown(s[k], ps[k])
    BY PairRead
  <2> QED BY <2>1, <2>2, Zenon
<1>3. \A k \in 1 .. Len(s) : P!Info(m, cs[k]).key = s[k].key
  <2> TAKE k \in 1 .. Len(s)
  <2>1. Shown(s[k], ps[k]).key = s[k].key
    BY DEF Shown
  <2> QED BY <1>2, <2>1, Zenon
<1>4. P!Find(m, b, key)
        = {P!Info(m, cs[k]) : k \in {i \in 1 .. Len(s) : P!Info(m, cs[i]).key = key}}
  BY <1>1, Zenon DEF P!Find
<1> HIDE DEF cs
<1>5. \A j, k \in 1 .. Len(s) : s[j].key = s[k].key => j = k
  BY Zenon DEF PodAt
<1>6. ASSUME NEW k \in 1 .. Len(s), s[k].key = key
      PROVE  P!Find(m, b, key) = {Shown(s[k], ps[k])}
  <2>1. {i \in 1 .. Len(s) : P!Info(m, cs[i]).key = key} = {k}
    BY <1>3, <1>5, <1>6
  <2> QED BY <2>1, <1>2, <1>4
<1>7. ASSUME \A k \in 1 .. Len(s) : s[k].key # key PROVE P!Find(m, b, key) = {}
  <2>1. {i \in 1 .. Len(s) : P!Info(m, cs[i]).key = key} = {}
    BY <1>3, <1>7
  <2> QED BY <2>1, <1>4
<1> QED BY <1>6, <1>7

\* What a query for each of the pairs s has to give.
GivesBack(m, b, s) ==
  \A k \in 1 .. Len(s) :
    /\ {<<f.type, f.sz>> : f \in P!Find(m, b, s[k].key)} = {<<s[k].type, ValSz(s[k])>>}
    /\ s[k].type = 0 => {f.at : f \in P!Find(m, b, s[k].key)} = {s[k].val}
    /\ s[k].type # 0 /\ P!ValTells(s[k].type, s[k].val) =>
         P!QueryVal(m, b, s[k].key, s[k].type, P!Null) = s[k].val

\* A pod gives back what was put into it.
LEMMA PodHolds ==
  ASSUME NEW m \in SUBSET Nat, NEW b \in Nat, NEW s, NEW ps, PodAt(m, b, s, ps),
         AllTell(s)
  PROVE  GivesBack(m, b, s)
<1> SUFFICES ASSUME NEW k \in 1 .. Len(s)
             PROVE  /\ {<<f.type, f.sz>> : f \in P!Find(m, b, s[k].key)}
                         = {<<s[k].type, ValSz(s[k])>>}
                    /\ s[k].type = 0 =>
                         {f.at : f \in P!Find(m, b, s[k].key)} = {s[k].val}
                    /\ s[k].type # 0 /\ P!ValTells(s[k].type, s[k].val) =>
                         P!QueryVal(m, b, s[k].key, s[k].type, P!Null) = s[k].val
  BY Zenon DEF GivesBack
<1> DEFINE p == s[k]  f == Shown(p, ps[k])  v == ValPlace(ps[k], p)
<1>1. P!Find(m, b, p.key) = {f}
  <2>1. \A i \in 1 .. Len(s) :
          s[i].key = p.key => P!Find(m, b, p.key) = {Shown(s[i], ps[i])}
    BY FindIs
  <2> QED BY <2>1, Zenon
<1>2. f.at = v /\ f.type = p.type /\ f.sz = ValSz(p)
  BY DEF Shown
<1>3. s \in Seq(Entry) /\ Places(ps, b, s) /\ (\A i \in 1 .. Len(s) : Inserted(s[i]))
      /\ PairAt(m, ps[k], p)
  BY Zenon DEF PodAt
<1>4. v \in Nat /\ Inserted(p)
  BY <1>3, PlaceFacts, Zenon
<1> HIDE DEF f, v
<1>5. ASSUME p.type = 0 PROVE {g.at : g \in P!Find(m, b, p.key)} = {p.val}
  <2>1. p.val = v
    BY <1>3, <1>5 DEF PairAt, v
  <2>2. {g.at : g \in {f}} = {f.at}
    OBVIOUS
  <2> QED BY <1>1, <1>2, <2>1, <2>2, Zenon
<1>6. ASSUME p.type # 0, P!ValTells(p.type, p.val)
      PROVE  P!QueryVal(m, b, p.key, p.type, P!Null) = p.val
  <2>1. P!IsInput(p.type, p.val) /\ ValSz(p) = P!EncVal(p.type, p.val).sz /\ P!IsSize(ValSz(p))
    BY <1>4, <1>6, EntryFacts, Zenon
  <2>2. P!EncVal(p.type, p.val).sz \in Nat
    BY <2>1, SizeWord, Zenon
  <2>3. Holds(m, v, ValSz(p), P!EncVal(p.type, p.val).w)
    BY <1>3, <1>6 DEF PairAt, v
  <2>4. P!DecVal(m, v, ValSz(p), p.type) = p.val
    <3> DEFINE e == P!EncVal(p.type, p.val)
    <3>1. Holds(m, v, e.sz, e.w)
      BY <2>1, <2>3, Zenon
    <3>2. Holds(m, v, e.sz, e.w) => P!DecVal(m, v, e.sz, p.type) = p.val
      BY <1>4, <1>6, <2>1, <2>2, ValRead, Zenon
    <3> QED BY <2>1, <3>1, <3>2, Zenon
  <2>5. {g \in P!Find(m, b, p.key) : g.type = p.type} = {f}
    <3>1. {g \in {f} : g.type = p.type} = {f}
      BY <1>2
    <3> QED BY <3>1, <1>1, Zenon
  <2>6. (CHOOSE g \in {f} : TRUE) = f /\ {f} # {}
    OBVIOUS
  <2>7. P!QueryVal(m, b, p.key, p.type, P!Null) = P!DecVal(m, f.at, f.sz, p.type)
    BY <2>5, <2>6 DEF P!QueryVal
  <2> QED BY <1>2, <2>4, <2>7
<1>7. {<<g.type, g.sz>> : g \in P!Find(m, b, p.key)} = {<<p.type, ValSz(p)>>}
  <2>1. {<<g.type, g.sz>> : g \in {f}} = {<<f.type, f.sz>>}
    OBVIOUS
  <2> QED BY <1>1, <1>2, <2>1, Zenon
<1> QED BY <1>5, <1>6, <1>7, Zenon

\* The last pair ends where the pod is used up to.
LEMMA PodTight ==
  ASSUME NEW m \in SUBSET Nat, NEW b \in Nat, NEW s, NEW ps, PodAt(m, b, s, ps)
  PROVE  /\ P!PodUsed(m, b) <= P!PodMax(m, b)
         /\ AllTell(s) =>
              P!Stop(m, b) = IF s = <<>> THEN P!First(m, b)
                             ELSE P!Skip(m, P!Cursors(m, b)[Len(s)])
<1>1. s \in Seq(Entry) /\ Places(ps, b, s) /\ \A i \in 1 .. Len(s) : Inserted(s[i])
  BY Zenon DEF PodAt
<1>2. P!PodMax(m, b) = MaxOf(b) /\ P!PodUsed(m, b) = ps[Len(ps)] - b
      /\ P!First(m, b) = ps[1] /\ P!Stop(m, b) = ps[Len(s) + 1]
  BY PodRead
<1>3. ps[Len(ps)] - b <= MaxOf(b) /\ Len(s) \in Nat
  BY <1>1, PlaceFacts, Zenon
<1>4. s = <<>> => Len(s) + 1 = 1
  BY <1>1
<1>5. s # <<>> => Len(s) \in 1 .. Len(s)
  BY <1>1
<1>6. AllTell(s) /\ s # <<>> => P!Skip(m, P!Cursors(m, b)[Len(s)]) = ps[Len(s) + 1]
  <2> SUFFICES ASSUME AllTell(s), s # <<>>
               PROVE  P!Skip(m, P!Cursors(m, b)[Len(s)]) = ps[Len(s) + 1]
    BY Zenon
  <2>1. P!Cursors(m, b)[Len(s)] = ps[Len(s)]
    <3>1. CursorsAt(m, b, s, ps)
      BY CursorsAre, Zenon
    <3> QED BY <3>1, <1>5, Zenon DEF CursorsAt
  <2>2. PICK k \in 1 .. Len(s) : k = Len(s)
    BY <1>5, Zenon
  <2>3. PICK behind : behind = ps[k + 1]
    OBVIOUS
  <2>4. P!Skip(m, ps[k]) = behind
    BY <2>3, PairSkip
  <2> QED BY <2>1, <2>2, <2>3, <2>4, Zenon
<1> QED BY <1>2, <1>3, <1>4, <1>6, Zenon

-----------------------------------------------------------------------------
(* What a pod needs of memory                                               *)

LEMMA HeadKept ==
  ASSUME NEW m, NEW e, NEW at \in Nat, NEW key, NEW type, NEW sz, P!IsSize(sz),
         HeadAt(m, at, key, type, sz), Agree(m, e, at, at + 4 + P!EncSz(P!Word(sz)))
  PROVE  HeadAt(e, at, key, type, sz)
<1> DEFINE c == P!EncSz(P!Word(sz))
<1>1. c \in Nat
  BY PairSzIs, Zenon
<1>2. P!EncSz(P!Word(2)) = 1
  BY TwoIs
<1> HIDE DEF c
<1>3. /\ at + 4 + c \in Nat /\ at + 1 \in Nat /\ at + 3 \in Nat /\ at + 4 \in Nat
      /\ at + 2 \in Nat /\ (at + 1) + 1 = at + 2 /\ (at + 3) + 1 = at + 4 /\ 1 \in Nat
      /\ at <= at + 1 /\ at <= at + 3 /\ at <= at + 4 /\ at <= at
      /\ at + 1 <= at + 4 + c /\ at + 2 <= at + 4 + c /\ at + 4 <= at + 4 + c
      /\ at + 4 + c <= at + 4 + c
  BY <1>1
<1>4. Agree(m, e, at, at + 4 + c)
  BY DEF c
<1>5. Agree(m, e, at, at + 1) /\ Agree(m, e, at + 1, (at + 1) + 1)
      /\ Agree(m, e, at + 3, (at + 3) + 1) /\ Agree(m, e, at + 4, at + 4 + c)
  <2>1. Agree(m, e, at, at + 1)
    BY <1>3, <1>4, AgreeWithin, Zenon
  <2>2. Agree(m, e, at + 1, at + 2)
    BY <1>3, <1>4, AgreeWithin, Zenon
  <2>3. Agree(m, e, at + 3, at + 4)
    BY <1>3, <1>4, AgreeWithin, Zenon
  <2>4. Agree(m, e, at + 4, at + 4 + c)
    BY <1>3, <1>4, AgreeWithin, Zenon
  <2> QED BY <1>3, <2>1, <2>2, <2>3, <2>4, Zenon
<1>6. Coded(e, at, 1, P!Word(2))
  BY <1>3, <1>5, CodedOn, Zenon DEF HeadAt
<1>7. Holds(e, at + 1, 1, P!Word(key))
  BY <1>3, <1>5, HoldsOn, Zenon DEF HeadAt
<1>8. Holds(e, at + 3, 1, P!Word(type))
  BY <1>3, <1>5, HoldsOn, Zenon DEF HeadAt
<1>9. Coded(e, at + 4, c, P!Word(sz))
  <2>1. Coded(m, at + 4, c, P!Word(sz))
    BY Zenon DEF HeadAt, c
  <2> QED BY <1>1, <1>3, <1>5, <2>1, CodedOn, Zenon
<1> QED BY <1>6, <1>7, <1>8, <1>9, Zenon DEF HeadAt, c

LEMMA PairKept ==
  ASSUME NEW m, NEW e, NEW at \in Nat, NEW p, Inserted(p), PairAt(m, at, p),
         Agree(m, e, at, ValPlace(at, p)),
         p.type # 0 => Agree(m, e, ValPlace(at, p), ValPlace(at, p) + ValSz(p))
  PROVE  PairAt(e, at, p)
<1>1. P!IsSize(ValSz(p)) /\ ValSz(p) \in Nat /\ P!EncSz(P!Word(ValSz(p))) \in Nat
  <2>1. P!IsSize(ValSz(p))
    BY EntryFacts, Zenon
  <2> QED BY <2>1, PairSzIs, Zenon
<1>2. HeadAt(e, at, p.key, p.type, ValSz(p))
  BY <1>1, HeadKept, Zenon DEF PairAt, ValPlace
<1>3. ValPlace(at, p) \in Nat
  BY <1>1 DEF ValPlace
<1>4. p.type # 0 => Holds(e, ValPlace(at, p), ValSz(p), P!EncVal(p.type, p.val).w)
  <2> SUFFICES ASSUME p.type # 0
               PROVE  Holds(e, ValPlace(at, p), ValSz(p), P!EncVal(p.type, p.val).w)
    BY Zenon
  <2>1. Holds(m, ValPlace(at, p), ValSz(p), P!EncVal(p.type, p.val).w)
    BY DEF PairAt
  <2> QED BY <1>1, <1>3, <2>1, HoldsOn, Zenon
<1>5. p.type = 0 => p.val = ValPlace(at, p)
  BY DEF PairAt
<1> QED BY <1>2, <1>4, <1>5 DEF PairAt

LEMMA HeaderKept ==
  ASSUME NEW m, NEW e, NEW b \in Nat, NEW used, NEW cnt, HeaderAt(m, b, used, cnt),
         Agree(m, e, b, b + 3 * HdrSz(b))
  PROVE  HeaderAt(e, b, used, cnt)
<1> DEFINE c == HdrSz(b)
<1>1. c \in Nat
  BY HdrFacts, Zenon
<1>2. Agree(m, e, b, b + 3 * c)
  OBVIOUS
<1> HIDE DEF c
<1>3. /\ b + c \in Nat /\ b + 2 * c \in Nat /\ b + 3 * c \in Nat /\ (b + c) + c = b + 2 * c
      /\ (b + 2 * c) + c = b + 3 * c /\ b <= b + c /\ b <= b /\ b <= b + 2 * c
      /\ b + c <= b + 3 * c /\ b + 2 * c <= b + 3 * c /\ b + 3 * c <= b + 3 * c
  BY <1>1
<1>4. Agree(m, e, b, b + c)
  BY <1>2, <1>3, AgreeWithin, Zenon
<1>5. Agree(m, e, b + c, (b + c) + c)
  <2>1. Agree(m, e, b + c, b + 2 * c)
    BY <1>2, <1>3, AgreeWithin, Zenon
  <2> QED BY <2>1, <1>3, Zenon
<1>6. Agree(m, e, b + 2 * c, (b + 2 * c) + c)
  <2>1. Agree(m, e, b + 2 * c, b + 3 * c)
    BY <1>2, <1>3, AgreeWithin, Zenon
  <2> QED BY <2>1, <1>3, Zenon
<1>7. /\ Coded(m, b, c, P!Word(MaxOf(b))) /\ Coded(m, b + c, c, P!Word(used))
      /\ Coded(m, b + 2 * c, c, P!Word(cnt))
  BY Zenon DEF HeaderAt, c
<1>8. Coded(e, b, c, P!Word(MaxOf(b)))
  BY <1>1, <1>4, <1>7, CodedOn, Zenon
<1>9. Coded(e, b + c, c, P!Word(used))
  BY <1>1, <1>3, <1>5, <1>7, CodedOn, Zenon
<1>10. Coded(e, b + 2 * c, c, P!Word(cnt))
  BY <1>1, <1>3, <1>6, <1>7, CodedOn, Zenon
<1> QED BY <1>8, <1>9, <1>10, Zenon DEF HeaderAt, c

\* A pod stays as it is when its header, and what its pairs are but for their
\* subpods, is not written.
LEMMA PodKept ==
  ASSUME NEW m, NEW e, NEW b \in Nat, NEW s, NEW ps, PodAt(m, b, s, ps),
         Agree(m, e, b, ps[1]),
         \A k \in 1 .. Len(s) :
           /\ Agree(m, e, ps[k], ValPlace(ps[k], s[k]))
           /\ s[k].type # 0 => Agree(m, e, ValPlace(ps[k], s[k]), ps[k + 1])
  PROVE  PodAt(e, b, s, ps)
<1>1. s \in Seq(Entry) /\ Places(ps, b, s) /\ \A i \in 1 .. Len(s) : Inserted(s[i])
  BY Zenon DEF PodAt
<1>2. HeaderAt(e, b, ps[Len(ps)] - b, Len(s))
  <2>1. ps[1] = b + 3 * HdrSz(b)
    BY <1>1, PlaceFacts, Zenon
  <2>2. Agree(m, e, b, b + 3 * HdrSz(b))
    BY <2>1, Zenon
  <2> QED BY <2>2, HeaderKept, Zenon DEF PodAt
<1>3. ASSUME NEW k \in 1 .. Len(s) PROVE PairAt(e, ps[k], s[k])
  <2>1. ps[k] \in Nat /\ ValPlace(ps[k], s[k]) + ValSz(s[k]) = ps[k + 1]
    BY <1>1, PlaceFacts, Zenon
  <2>2. PairAt(m, ps[k], s[k]) /\ Inserted(s[k])
    BY Zenon DEF PodAt
  <2> QED BY <2>1, <2>2, PairKept, Zenon
<1> QED BY <1>1, <1>2, <1>3, Zenon DEF PodAt

-----------------------------------------------------------------------------
(* Writing pairs                                                            *)

LEMMA ChangesOn ==
  ASSUME NEW m, NEW d, NEW e, NEW lo \in Nat, NEW hi \in Nat, NEW from \in Nat, NEW to \in Nat,
         Changes(d, m, lo, hi), Changes(e, d, from, to), lo <= from, to <= hi
  PROVE  Changes(e, m, lo, hi)
<1>1. \A j \in Nat : ~(8 * lo <= j /\ j < 8 * hi) => ~(8 * from <= j /\ j < 8 * to)
  OBVIOUS
<1> QED BY <1>1, Zenon DEF Changes

LEMMA ChangesIn ==
  ASSUME NEW m, NEW e, NEW lo \in Nat, NEW hi \in Nat, NEW from \in Nat, NEW to \in Nat,
         Changes(e, m, from, to), lo <= from, to <= hi
  PROVE  Changes(e, m, lo, hi)
<1>1. \A j \in Nat : ~(8 * lo <= j /\ j < 8 * hi) => ~(8 * from <= j /\ j < 8 * to)
  OBVIOUS
<1> QED BY <1>1, Zenon DEF Changes

\* An integer of the header of the pod at b.
LEMMA FieldWritten ==
  ASSUME NEW m \in SUBSET Nat, NEW b, NEW n \in Nat, n <= MaxOf(b), NEW at \in Nat
  PROVE  LET e == P!EncFixed(m, at, HdrSz(b), P!Word(n)) IN
         /\ e \in SUBSET Nat /\ Coded(e, at, HdrSz(b), P!Word(n))
         /\ Changes(e, m, at, at + HdrSz(b))
<1>1. HdrSz(b) \in Sz /\ P!Fits(P!Word(n), HdrSz(b)) /\ P!Word(n) \in Integers64
  BY HdrFacts, InHeader, Zenon
<1> QED BY <1>1, EncHolds, Zenon

\* The last two integers of a header, behind the max that is there.
LEMMA FieldsWritten ==
  ASSUME NEW m \in SUBSET Nat, NEW b \in Nat, NEW used \in Nat, NEW cnt \in Nat,
         used <= MaxOf(b), cnt <= MaxOf(b), Coded(m, b, HdrSz(b), P!Word(MaxOf(b)))
  PROVE  LET e == P!SetField(P!SetField(m, b, HdrSz(b), 1, used), b, HdrSz(b), 2, cnt) IN
         /\ e \in SUBSET Nat /\ HeaderAt(e, b, used, cnt)
         /\ Changes(e, m, b, b + 3 * HdrSz(b))
<1> DEFINE c == HdrSz(b)  d == P!SetField(m, b, c, 1, used)
           e == P!SetField(P!SetField(m, b, HdrSz(b), 1, used), b, HdrSz(b), 2, cnt)
<1>1. c \in Nat
  BY HdrFacts, Zenon
<1>2. e = P!SetField(d, b, c, 2, cnt)
  OBVIOUS
<1> HIDE DEF c, e
<1>3. /\ b + c \in Nat /\ b + 2 * c \in Nat /\ b + 3 * c \in Nat /\ (b + c) + c = b + 2 * c
      /\ (b + 2 * c) + c = b + 3 * c /\ b <= b + c /\ b <= b + 2 * c /\ b + c <= b + c
      /\ b + 2 * c <= b + 2 * c /\ b + 2 * c <= b + 3 * c /\ b + 1 * c = b + c
      /\ b + 3 * c <= b + 3 * c /\ b + c <= b + 2 * c /\ 1 \in 0 .. 2 /\ 2 \in 0 .. 2
  BY <1>1
<1>4. d \in SUBSET Nat /\ Coded(d, b + c, c, P!Word(used)) /\ Changes(d, m, b + c, (b + c) + c)
  <2>1. d = P!EncFixed(m, b + c, c, P!Word(used))
    BY <1>3, Zenon DEF P!SetField
  <2> HIDE DEF d
  <2> QED BY <1>3, <2>1, FieldWritten, Zenon DEF c
<1> HIDE DEF d
<1>5. e \in SUBSET Nat /\ Coded(e, b + 2 * c, c, P!Word(cnt))
      /\ Changes(e, d, b + 2 * c, (b + 2 * c) + c)
  <2>1. e = P!EncFixed(d, b + 2 * c, c, P!Word(cnt))
    BY <1>2, <1>3, Zenon DEF P!SetField
  <2> QED BY <1>3, <1>4, <2>1, FieldWritten, Zenon DEF c
<1>6. Changes(d, m, b + c, b + 2 * c) /\ Changes(e, d, b + 2 * c, b + 3 * c)
  BY <1>3, <1>4, <1>5, Zenon
<1>7. Changes(d, m, b, b + 3 * c)
  BY <1>3, <1>6, ChangesIn, Zenon
<1>8. Changes(e, m, b, b + 3 * c)
  BY <1>3, <1>6, <1>7, ChangesOn
<1>9. Coded(e, b, c, P!Word(MaxOf(b)))
  <2>1. Agree(m, d, b, b + c)
    BY <1>3, <1>6, AgreeOutside, Zenon
  <2>2. Agree(d, e, b, b + c)
    BY <1>3, <1>6, AgreeOutside, Zenon
  <2>3. Agree(m, e, b, b + c)
    BY <1>3, <2>1, <2>2, AgreeOn, Zenon
  <2>4. Coded(m, b, c, P!Word(MaxOf(b)))
    BY Zenon DEF c
  <2> QED BY <1>1, <2>3, <2>4, CodedOn, Zenon
<1>10. Coded(e, b + c, c, P!Word(used))
  <2>1. Agree(d, e, b + c, (b + c) + c)
    <3>1. Agree(d, e, b + c, b + 2 * c)
      BY <1>3, <1>6, AgreeOutside, Zenon
    <3> QED BY <3>1, <1>3, Zenon
  <2> QED BY <1>1, <1>3, <1>4, <2>1, CodedOn, Zenon
<1> QED BY <1>5, <1>8, <1>9, <1>10, Zenon DEF HeaderAt, c, e

\* fd_pod_new
LEMMA NewWritten ==
  ASSUME NEW m \in SUBSET Nat, NEW b \in Nat, NEW e, e = P!NewAt(m, b, MaxOf(b))
  PROVE  /\ e \in SUBSET Nat /\ HeaderAt(e, b, 3 * HdrSz(b), 0)
         /\ Changes(e, m, b, b + 3 * HdrSz(b))
<1> DEFINE c == HdrSz(b)  d == P!SetField(m, b, c, 0, MaxOf(b))
<1>1. c \in Nat /\ 3 * c <= MaxOf(b) /\ MaxOf(b) \in Nat
  BY HdrFacts, Zenon
<1>2. e = P!SetField(P!SetField(d, b, c, 1, 3 * c), b, c, 2, 0)
  BY Zenon DEF P!NewAt, HdrSz
<1> HIDE DEF c
<1>3. /\ b + c \in Nat /\ b + 3 * c \in Nat /\ b <= b /\ b + c <= b + 3 * c /\ 3 * c \in Nat
      /\ 0 <= MaxOf(b) /\ MaxOf(b) <= MaxOf(b) /\ 0 \in Nat /\ b + 0 * c = b /\ 0 \in 0 .. 2
      /\ b + 3 * c <= b + 3 * c
  BY <1>1
<1>4. d \in SUBSET Nat /\ Coded(d, b, c, P!Word(MaxOf(b))) /\ Changes(d, m, b, b + c)
  <2>1. c \in Sz /\ P!Fits(P!Word(MaxOf(b)), c) /\ P!Word(MaxOf(b)) \in Integers64
    BY <1>1, <1>3, HdrFacts, InHeader, Zenon DEF c
  <2>2. d = P!EncFixed(m, b, c, P!Word(MaxOf(b)))
    BY <1>3, Zenon DEF P!SetField
  <2> QED BY <2>1, <2>2, EncHolds, Zenon
<1> HIDE DEF d
<1>5. e \in SUBSET Nat /\ HeaderAt(e, b, 3 * c, 0) /\ Changes(e, d, b, b + 3 * c)
  <2>1. e = P!SetField(P!SetField(d, b, HdrSz(b), 1, 3 * c), b, HdrSz(b), 2, 0)
        /\ Coded(d, b, HdrSz(b), P!Word(MaxOf(b)))
    BY <1>2, <1>4, Zenon DEF c
  <2> DEFINE w == P!SetField(P!SetField(d, b, HdrSz(b), 1, 3 * c), b, HdrSz(b), 2, 0)
  <2>2. w \in SUBSET Nat /\ HeaderAt(w, b, 3 * c, 0) /\ Changes(w, d, b, b + 3 * HdrSz(b))
    BY <1>1, <1>3, <1>4, <2>1, FieldsWritten, Zenon
  <2> QED BY <2>1, <2>2, Zenon DEF c
<1>6. Changes(d, m, b, b + 3 * c)
  BY <1>3, <1>4, ChangesIn, Zenon
<1>7. Changes(e, m, b, b + 3 * c)
  BY <1>3, <1>5, <1>6, ChangesOn
<1> QED BY <1>5, <1>7, Zenon DEF c

\* What fd_pod_alloc puts in front of a val: the size of the key, the key with
\* its end, the type and the size of the val.
HeadOf(m, at, key, type, sz) ==
  P!Enc(P!Store(P!Enc(m, at, P!Word(2)), at + 1, 3, P!Word(key) \cup P!Shl(P!Word(type), 16)),
        at + 4, P!Word(sz))

LEMMA HeadWritten ==
  ASSUME NEW m \in SUBSET Nat, NEW at \in Nat, NEW key \in 1 .. 255, NEW type \in 0 .. 13,
         NEW sz, P!IsSize(sz)
  PROVE  LET e == HeadOf(m, at, key, type, sz) IN
         /\ e \in SUBSET Nat /\ HeadAt(e, at, key, type, sz)
         /\ Changes(e, m, at, at + 4 + P!EncSz(P!Word(sz)))
<1> DEFINE e == HeadOf(m, at, key, type, sz)
           c == P!EncSz(P!Word(sz))
           both == P!Word(key) \cup P!Shl(P!Word(type), 16)
           d1 == P!EncFixed(m, at, 1, P!Word(2))
           d2 == P!Store(d1, at + 1, 3, both)
<1>0. P!EncSz(P!Word(2)) = 1 /\ P!IsInt(P!Word(2), 64) /\ P!IsInt(P!Word(sz), 64)
  BY TwoIs, PodFacts, SizeWord, Zenon
<1>1. e = P!EncFixed(d2, at + 4, c, P!Word(sz))
  BY <1>0, Zenon DEF P!Enc, HeadOf
<1> HIDE DEF e
<1>2. /\ c \in Nat /\ c \in Sz /\ P!Fits(P!Word(sz), c) /\ P!Word(sz) \in Integers64
      /\ 1 \in Sz /\ P!Fits(P!Word(2), 1) /\ P!Word(2) \in Integers64
  <2>1. c \in Nat \ {0} /\ c \in Sz /\ P!Fits(P!Word(sz), c) /\ P!Word(sz) \in Integers64
    BY <1>0, SvwSize, Zenon
  <2>2. P!EncSz(P!Word(2)) \in Sz /\ P!Fits(P!Word(2), P!EncSz(P!Word(2)))
        /\ P!Word(2) \in Integers64
    BY <1>0, SvwSize, Zenon
  <2> QED BY <1>0, <2>1, <2>2, Zenon
<1> HIDE DEF c
<1>3. /\ at + 1 \in Nat /\ at + 3 \in Nat /\ at + 4 \in Nat /\ at + 4 + c \in Nat
      /\ (at + 1) + 3 = at + 4 /\ (at + 4) + c = at + 4 + c /\ 3 \in Nat /\ 1 \in Nat
      /\ (at + 1) + 1 <= at + 4 /\ (at + 3) + 1 <= at + 4 /\ at + 1 <= at + 1
      /\ at <= at + 1 /\ at + 4 <= at + 4 + c /\ at <= at + 4 /\ at + 1 <= at + 4 /\ at <= at
      /\ (at + 1) + 1 \in Nat /\ (at + 3) + 1 \in Nat /\ at + 4 + c <= at + 4 + c
      /\ at + 4 <= at + 4 /\ at + 1 <= at + 4 + c
  BY <1>2
<1>4. P!Word(key) \subseteq 0 .. 7 /\ P!Word(type) \subseteq 0 .. 7
  <2>1. key \in 0 .. 255 /\ type \in 0 .. 255
    OBVIOUS
  <2> QED BY <2>1, OneByte, Zenon
<1>5. P!Word(type) \in SUBSET Nat /\ P!Word(key) \in SUBSET Nat /\ 16 \in Nat
  BY <1>4
<1>6. both \in SUBSET Nat
  <2>1. P!Shl(P!Word(type), 16) \in SUBSET Nat
    BY <1>5, MovedNat, Zenon
  <2> QED BY <1>5, <2>1
<1>7. \A i \in Nat : i \in both <=> i \in P!Word(key) \/ i - 16 \in P!Word(type)
  <2> TAKE i \in Nat
  <2>1. i \in P!Shl(P!Word(type), 16) <=> i - 16 \in P!Word(type)
    BY <1>5, InMovedUp
  <2> QED BY <2>1
<1>8. d1 \in SUBSET Nat /\ Coded(d1, at, 1, P!Word(2)) /\ Changes(d1, m, at, at + 1)
  BY <1>2, EncHolds, Zenon
<1> HIDE DEF d1, both
<1>9. d2 \in SUBSET Nat /\ Holds(d2, at + 1, 3, both) /\ Changes(d2, d1, at + 1, at + 4)
  <2>1. d2 \in SUBSET Nat /\ Holds(d2, at + 1, 3, both) /\ Changes(d2, d1, at + 1, (at + 1) + 3)
    BY <1>3, <1>6, <1>8, StoreHolds, Zenon
  <2> QED BY <2>1, <1>3, Zenon
<1> HIDE DEF d2
<1>10. e \in SUBSET Nat /\ Coded(e, at + 4, c, P!Word(sz)) /\ Changes(e, d2, at + 4, at + 4 + c)
  BY <1>1, <1>2, <1>3, <1>9, EncHolds, Zenon
<1>11. Holds(d2, at + 1, 1, P!Word(key)) /\ Holds(d2, at + 3, 1, P!Word(type))
  <2>1. ASSUME NEW i \in 0 .. 8 * 1 - 1
        PROVE  /\ 8 * (at + 1) + i \in d2 <=> i \in P!Word(key)
               /\ 8 * (at + 3) + i \in d2 <=> i \in P!Word(type)
    <3>1. /\ i \in 0 .. 8 * 3 - 1 /\ i + 16 \in 0 .. 8 * 3 - 1 /\ i \in Nat /\ i + 16 \in Nat
          /\ 8 * (at + 1) + (i + 16) = 8 * (at + 3) + i /\ (i + 16) - 16 = i
          /\ i + 16 \notin 0 .. 7 /\ i - 16 \notin 0 .. 7
      OBVIOUS
    <3>2. /\ 8 * (at + 1) + i \in d2 <=> i \in both
          /\ 8 * (at + 1) + (i + 16) \in d2 <=> i + 16 \in both
      BY <1>9, <3>1, Zenon DEF Holds
    <3>3. i \in both <=> i \in P!Word(key)
      BY <1>4, <1>7, <3>1
    <3>4. i + 16 \in both <=> i \in P!Word(type)
      BY <1>4, <1>7, <3>1
    <3> QED BY <3>1, <3>2, <3>3, <3>4, Zenon
  <2> QED BY <2>1, Zenon DEF Holds
<1>12. /\ Agree(d1, d2, at, at + 1) /\ Agree(d2, e, at, at + 1)
       /\ Agree(d2, e, at + 1, (at + 1) + 1) /\ Agree(d2, e, at + 3, (at + 3) + 1)
  <2>1. Agree(d1, d2, at, at + 1)
    BY <1>3, <1>9, AgreeOutside, Zenon
  <2>2. Agree(d2, e, at, at + 1)
    BY <1>3, <1>10, AgreeOutside, Zenon
  <2>3. Agree(d2, e, at + 1, (at + 1) + 1)
    BY <1>3, <1>10, AgreeOutside, Zenon
  <2>4. Agree(d2, e, at + 3, (at + 3) + 1)
    BY <1>3, <1>10, AgreeOutside, Zenon
  <2> QED BY <2>1, <2>2, <2>3, <2>4, Zenon
<1>13. HeadAt(e, at, key, type, sz)
  <2>1. Coded(d2, at, 1, P!Word(2))
    BY <1>3, <1>8, <1>12, CodedOn, Zenon
  <2>2. Coded(e, at, 1, P!Word(2))
    BY <1>3, <2>1, <1>12, CodedOn, Zenon
  <2>3. Holds(e, at + 1, 1, P!Word(key))
    BY <1>3, <1>11, <1>12, HoldsOn, Zenon
  <2>4. Holds(e, at + 3, 1, P!Word(type))
    BY <1>3, <1>11, <1>12, HoldsOn
  <2> QED BY <1>10, <2>2, <2>3, <2>4, Zenon DEF HeadAt, c
<1>14. Changes(e, m, at, at + 4 + c)
  <2>1. Changes(d1, m, at, at + 4)
    BY <1>3, <1>8, ChangesIn, Zenon
  <2>2. Changes(d2, m, at, at + 4)
    BY <1>3, <1>9, <2>1, ChangesOn
  <2>3. Changes(d2, m, at, at + 4 + c)
    BY <1>3, <2>2, ChangesIn
  <2> QED BY <1>3, <1>10, <2>3, ChangesOn
<1> QED BY <1>10, <1>13, <1>14, Zenon DEF c, e

\* The header of a pod and the bytes from lo on and before hi are all that
\* is written.
Within(m, e, b, lo, hi) ==
  \A from, to \in Nat :
    (to <= b \/ b + 3 * HdrSz(b) <= from) /\ (to <= lo \/ hi <= from) => Agree(m, e, from, to)

LEMMA RoomSums ==
  ASSUME NEW at \in Nat, NEW b \in Nat, NEW n \in Nat, NEW max \in Nat, NEW len \in Nat,
         b <= at, 5 <= n, len <= at - b, at + n <= b + max
  PROVE  (at + n) - b \in Nat /\ (at + n) - b <= max /\ len + 1 \in Nat /\ len + 1 <= max
OBVIOUS

LEMMA HeadSums ==
  ASSUME NEW at \in Nat, NEW b \in Nat, NEW c \in Nat, NEW h \in Nat, b + 3 * h <= at
  PROVE  /\ at + 4 + c \in Nat /\ b + 3 * h \in Nat /\ b + h \in Nat /\ b + h <= at
         /\ b + h <= b + 3 * h /\ b <= b /\ b + 3 * h <= b + 3 * h
OBVIOUS

\* fd_pod_alloc
LEMMA AllocWritten ==
  ASSUME NEW m \in SUBSET Nat, NEW b \in Nat, NEW s, NEW ps, PodAt(m, b, s, ps),
         NEW key \in 1 .. 255, NEW type \in 0 .. 13, NEW sz, P!IsSize(sz),
         NEW at \in Nat, at = ps[Len(s) + 1], at + P!PairSz(sz) <= b + MaxOf(b)
  PROVE  LET e == P!Alloc(m, b, key, type, sz) IN
         /\ e \in SUBSET Nat /\ HeadAt(e, at, key, type, sz)
         /\ HeaderAt(e, b, (at + P!PairSz(sz)) - b, Len(s) + 1)
         /\ Within(m, e, b, at, at + 4 + P!EncSz(P!Word(sz)))
<1> DEFINE c == P!EncSz(P!Word(sz))  h == HdrSz(b)  n == P!PairSz(sz)
           used == (at + n) - b
           d == HeadOf(m, at, key, type, sz)  e == P!Alloc(m, b, key, type, sz)
<1>1. s \in Seq(Entry) /\ Places(ps, b, s) /\ \A i \in 1 .. Len(s) : Inserted(s[i])
  BY Zenon DEF PodAt
<1>2. /\ Len(s) \in Nat /\ Len(ps) = Len(s) + 1 /\ at - b \in Nat /\ b + 3 * h <= at
      /\ b <= at /\ Len(s) <= at - b
  <2>1. /\ Len(s) \in Nat /\ Len(ps) = Len(s) + 1 /\ ps[1] = b + 3 * h
        /\ ps[Len(ps)] - b \in Nat
    BY <1>1, PlaceFacts, ZenonT(30)
  <2>2. ps[1] <= ps[Len(s) + 1]
    <3>1. Len(s) + 1 \in 1 .. Len(s) + 1
      BY <2>1
    <3> QED BY <1>1, <3>1, PlaceFacts, Zenon
  <2>3. Len(s) <= at - b
    <3>1. 1 \in 1 .. Len(ps) /\ Len(s) + 1 \in 1 .. Len(ps)
      BY <2>1
    <3>2. 1 < Len(s) + 1 => ps[1] + ((Len(s) + 1) - 1) <= ps[Len(s) + 1]
      BY <1>1, <3>1, Zenon DEF Places
    <3>3. h \in Nat
      BY HdrFacts, Zenon
    <3> QED BY <2>1, <2>2, <3>2, <3>3
  <2>4. h \in Nat
    BY HdrFacts, Zenon
  <2> QED BY <2>1, <2>2, <2>3, <2>4
<1>3. P!HdrCsz(m, b) = h /\ P!PodUsed(m, b) = at - b /\ P!PodCnt(m, b) = Len(s)
      /\ P!Stop(m, b) = at
  <2>1. P!HdrCsz(m, b) = h /\ P!PodUsed(m, b) = ps[Len(ps)] - b /\ P!PodCnt(m, b) = Len(s)
        /\ P!Stop(m, b) = ps[Len(s) + 1]
    BY PodRead
  <2> QED BY <2>1, <1>2
<1>4. /\ c \in Nat /\ sz \in Nat /\ n = 4 + c + sz /\ n \in Nat
      /\ 5 <= n /\ h \in Nat /\ MaxOf(b) \in Nat
  <2>1. c \in Nat \ {0} /\ sz \in Nat /\ n = 4 + c + sz /\ n \in Nat /\ 5 <= n
    BY PairSzIs, Zenon
  <2> QED BY <2>1, HdrFacts, Zenon
<1>5. /\ used \in Nat /\ used <= MaxOf(b) /\ Len(s) + 1 \in Nat /\ Len(s) + 1 <= MaxOf(b)
      /\ (at - b) + n = used
  <2>1. at + n <= b + MaxOf(b)
    OBVIOUS
  <2> HIDE DEF c, h, n
  <2>2. PICK len \in Nat : len = Len(s)
    BY <1>2, Zenon
  <2>3. PICK max \in Nat : max = MaxOf(b)
    BY <1>4, Zenon
  <2>4. PICK nn \in Nat : nn = n /\ 5 <= nn
    BY <1>4, Zenon
  <2>5. len <= at - b /\ b <= at /\ at + nn <= b + max
    BY <1>2, <2>1, <2>2, <2>3, <2>4, Zenon
  <2>6. /\ (at + nn) - b \in Nat /\ (at + nn) - b <= max /\ len + 1 \in Nat
         /\ len + 1 <= max
    BY <2>5, <2>4, RoomSums, Zenon
  <2>7. /\ (at + n) - b \in Nat /\ (at + n) - b <= MaxOf(b) /\ len + 1 \in Nat
         /\ len + 1 <= MaxOf(b)
    BY <2>6, <2>3, <2>4, Zenon
  <2>8. (at - b) + n = used
    BY <1>4
  <2> QED BY <2>2, <2>7, <2>8, Zenon
<1>6. e = P!SetField(P!SetField(d, b, h, 1, used), b, h, 2, Len(s) + 1)
  BY <1>3, <1>5, Zenon DEF P!Alloc, HeadOf
<1>7. d \in SUBSET Nat /\ HeadAt(d, at, key, type, sz) /\ Changes(d, m, at, at + 4 + c)
  BY HeadWritten, Zenon
<1> HIDE DEF used, c, h, n, d, e
<1>8. /\ at + 4 + c \in Nat /\ b + 3 * h \in Nat /\ b + h \in Nat /\ b + h <= at
      /\ b + h <= b + 3 * h /\ b <= b /\ b + 3 * h <= b + 3 * h
  BY <1>2, <1>4, HeadSums, Zenon
<1>9. Coded(d, b, h, P!Word(MaxOf(b)))
  <2>1. Coded(m, b, h, P!Word(MaxOf(b)))
    BY Zenon DEF PodAt, HeaderAt, h
  <2>2. Agree(m, d, b, b + h)
    BY <1>7, <1>8, AgreeOutside, Zenon
  <2> QED BY <1>4, <2>1, <2>2, CodedOn, Zenon
<1>10. e \in SUBSET Nat /\ HeaderAt(e, b, used, Len(s) + 1) /\ Changes(e, d, b, b + 3 * h)
  <2>1. PICK k \in Nat : k = Len(s) + 1 /\ k <= MaxOf(b)
    BY <1>5, Zenon
  <2>2. e = P!SetField(P!SetField(d, b, HdrSz(b), 1, used), b, HdrSz(b), 2, k)
        /\ Coded(d, b, HdrSz(b), P!Word(MaxOf(b)))
    BY <1>6, <1>9, <2>1, Zenon DEF h
  <2> DEFINE w == P!SetField(P!SetField(d, b, HdrSz(b), 1, used), b, HdrSz(b), 2, k)
  <2>3. w \in SUBSET Nat /\ HeaderAt(w, b, used, k) /\ Changes(w, d, b, b + 3 * HdrSz(b))
    BY <1>5, <1>7, <2>1, <2>2, FieldsWritten, Zenon
  <2> QED BY <2>1, <2>2, <2>3, Zenon DEF h
<1>11. HeadAt(e, at, key, type, sz)
  <2>1. Agree(d, e, at, at + 4 + c)
    BY <1>2, <1>8, <1>10, AgreeOutside, Zenon
  <2> QED BY <1>7, <2>1, HeadKept, Zenon DEF c
<1>12. Within(m, e, b, at, at + 4 + c)
  <2> SUFFICES ASSUME NEW from \in Nat, NEW to \in Nat, to <= b \/ b + 3 * h <= from,
                      to <= at \/ at + 4 + c <= from
               PROVE  Agree(m, e, from, to)
    BY Zenon DEF Within, h
  <2>1. Agree(m, d, from, to)
    BY <1>7, <1>8, AgreeOutside, Zenon
  <2>2. Agree(d, e, from, to)
    BY <1>8, <1>10, AgreeOutside, Zenon
  <2> QED BY <2>1, <2>2, AgreeOn, Zenon
<1> QED BY <1>10, <1>11, <1>12, Zenon DEF used, c, n, e

LEMMA PlacesGrown ==
  ASSUME NEW b \in Nat, NEW s \in Seq(Entry), NEW ps, Places(ps, b, s), NEW p \in Entry,
         P!IsSize(ValSz(p)),
         NEW size, size = P!PairSz(ValSz(p)), NEW fin \in Nat,
         fin = ps[Len(s) + 1] + size, fin <= b + MaxOf(b)
  PROVE  Places(Append(ps, fin), b, Append(s, p))
<1> DEFINE n == Len(s)  t == Append(s, p)  qs == Append(ps, fin)
<1>1. /\ n \in Nat /\ ps \in Seq(Nat) /\ Len(ps) = n + 1 /\ ps[1] = b + 3 * HdrSz(b)
      /\ \A k \in 1 .. n : ps[k + 1] = ps[k] + P!PairSz(ValSz(s[k]))
      /\ \A j, k \in 1 .. n + 1 : j < k => ps[j] + (k - j) <= ps[k]
  <2>1. n \in Nat /\ ps \in Seq(Nat) /\ Len(ps) = n + 1
    BY DEF Places
  <2> QED BY <2>1, Zenon DEF Places
<1>2. /\ Len(t) = n + 1 /\ t[n + 1] = p /\ \A k \in 1 .. n : t[k] = s[k]
  OBVIOUS
<1>3. /\ qs \in Seq(Nat) /\ Len(qs) = n + 2 /\ qs[n + 2] = fin
      /\ \A k \in 1 .. n + 1 : qs[k] = ps[k]
  <2>1. fin \in Nat
    OBVIOUS
  <2> QED BY <1>1, <2>1
<1>4. fin = ps[n + 1] + size /\ size \in Nat /\ 5 <= size
  <2>1. P!PairSz(ValSz(p)) \in Nat /\ 5 <= P!PairSz(ValSz(p))
    BY PairSzIs, Zenon
  <2> QED BY <2>1
<1>5. Len(qs) = Len(t) + 1
  BY <1>1, <1>2, <1>3
<1>6. qs[1] = b + 3 * HdrSz(b) /\ qs[Len(qs)] <= b + MaxOf(b)
  <2>1. 1 \in 1 .. n + 1
    BY <1>1
  <2>2. fin <= b + MaxOf(b)
    OBVIOUS
  <2> QED BY <1>1, <1>3, <2>1, <2>2, Zenon
<1>7. ASSUME NEW k \in 1 .. n + 1 PROVE qs[k + 1] = qs[k] + P!PairSz(ValSz(t[k]))
  <2>1. CASE k = n + 1
    <3>1. k \in 1 .. n + 1 /\ k + 1 = n + 2
      BY <2>1, <1>1
    <3> QED BY <3>1, <2>1, <1>2, <1>3, <1>4, Zenon
  <2>2. CASE k # n + 1
    <3>1. k \in 1 .. n /\ k \in 1 .. n + 1 /\ k + 1 \in 1 .. n + 1
      BY <2>2, <1>1
    <3> QED BY <3>1, <1>1, <1>2, <1>3, Zenon
  <2> QED BY <2>1, <2>2, Zenon
<1>8. ASSUME NEW j \in 1 .. n + 2, NEW k \in 1 .. n + 2, j < k
      PROVE  qs[j] + (k - j) <= qs[k]
  <2>1. CASE k = n + 2
    <3>1. j \in 1 .. n + 1 /\ n + 1 \in 1 .. n + 1 /\ (j = n + 1 \/ j < n + 1)
      BY <2>1, <1>1, <1>8
    <3>2. PICK x \in Nat : x = ps[j]
      BY <3>1, <1>1
    <3>3. PICK y \in Nat : y = ps[n + 1]
      BY <3>1, <1>1
    <3>4. j < n + 1 => x + ((n + 1) - j) <= y
      BY <3>1, <3>2, <3>3, <1>1, Zenon
    <3>5. x + ((n + 1) - j) <= y
      BY <3>1, <3>2, <3>3, <3>4, <1>1
    <3>6. x + ((n + 2) - j) <= y + size
      BY <3>5, <1>1, <1>4, SMTT(30)
    <3>7. qs[j] = x /\ qs[k] = y + size
      BY <2>1, <3>1, <3>2, <3>3, <1>3, <1>4, Zenon
    <3> QED BY <2>1, <3>6, <3>7, Zenon
  <2>2. CASE k # n + 2
    <3>1. j \in 1 .. n + 1 /\ k \in 1 .. n + 1
      BY <2>2, <1>1, <1>8
    <3> QED BY <3>1, <1>1, <1>3, <1>8, Zenon
  <2> QED BY <2>1, <2>2, Zenon
<1> QED BY <1>2, <1>3, <1>5, <1>6, <1>7, <1>8, Zenon DEF Places

\* The pairs of a pod stay as they are when bytes behind them are written.
LEMMA PairsKept ==
  ASSUME NEW m, NEW e, NEW b \in Nat, NEW s, NEW ps, PodAt(m, b, s, ps),
         NEW at \in Nat, ps[Len(s) + 1] <= at, NEW fin \in Nat, Within(m, e, b, at, fin)
  PROVE  \A k \in 1 .. Len(s) : PairAt(e, ps[k], s[k])
<1> DEFINE n == Len(s)
<1>1. /\ s \in Seq(Entry) /\ Places(ps, b, s)
      /\ \A k \in 1 .. n : Inserted(s[k]) /\ PairAt(m, ps[k], s[k])
  BY Zenon DEF PodAt
<1>2. n \in Nat /\ Len(ps) = n + 1 /\ ps[1] = b + 3 * HdrSz(b)
  BY <1>1, PlaceFacts, Zenon
<1>3. ASSUME NEW k \in 1 .. n PROVE PairAt(e, ps[k], s[k])
  <2>1. /\ ps[k] \in Nat /\ ps[k + 1] \in Nat /\ ValPlace(ps[k], s[k]) \in Nat
        /\ ps[k] + 5 <= ValPlace(ps[k], s[k])
        /\ ValPlace(ps[k], s[k]) + ValSz(s[k]) = ps[k + 1]
        /\ P!IsSize(ValSz(s[k]))
    BY <1>1, <1>3, PlaceFacts, ZenonT(30)
  <2>2. k \in 1 .. n + 1 /\ k + 1 \in 1 .. n + 1
    BY <1>2, <1>3
  <2>3. ps[1] <= ps[k] /\ ps[k + 1] <= ps[n + 1]
    BY <1>1, <2>2, PlaceFacts, Zenon
  <2>4. PICK v \in Nat : v = ValPlace(ps[k], s[k])
    BY <2>1, Zenon
  <2>5. PICK x \in Nat : x = ps[k]
    BY <2>1, Zenon
  <2>6. PICK y \in Nat : y = ps[k + 1]
    BY <2>1, Zenon
  <2>7. PICK z \in Nat : z = ValSz(s[k])
    BY <2>1, SizeWord, Zenon
  <2>8. PICK h \in Nat : h = b + 3 * HdrSz(b)
    <3>1. HdrSz(b) \in Nat
      BY HdrFacts, Zenon
    <3> QED BY <3>1
  <2>9. PICK w \in Nat : w = ps[n + 1]
    <3>1. n + 1 \in 1 .. n + 1
      BY <1>2
    <3> QED BY <1>1, <3>1, PlaceFacts, Zenon
  <2>10. x + 5 <= v /\ v + z = y /\ y <= w /\ w <= at /\ h <= x
    BY <1>2, <2>1, <2>3, <2>4, <2>5, <2>6, <2>7, <2>8, <2>9, Zenon
  <2>11. x <= at /\ v <= at /\ h <= x /\ h <= v /\ y <= at
    BY <2>10
  <2>12. Agree(m, e, x, v) /\ Agree(m, e, v, y)
    BY <2>8, <2>10, <2>11, Zenon DEF Within
  <2>13. /\ Agree(m, e, ps[k], ValPlace(ps[k], s[k]))
         /\ Agree(m, e, ValPlace(ps[k], s[k]), ValPlace(ps[k], s[k]) + ValSz(s[k]))
    BY <2>4, <2>5, <2>6, <2>7, <2>10, <2>12, Zenon
  <2> QED BY <1>1, <1>3, <2>1, <2>13, PairKept, Zenon
<1> QED BY <1>3, Zenon

\* A pair behind the others.
LEMMA PodGrown ==
  ASSUME NEW m \in SUBSET Nat, NEW e \in SUBSET Nat, NEW b \in Nat, NEW s, NEW ps,
         PodAt(m, b, s, ps), NEW p, Inserted(p),
         AllTell(s) => \A k \in 1 .. Len(s) : s[k].key # p.key,
         NEW at \in Nat, at = ps[Len(s) + 1], NEW size, size = P!PairSz(ValSz(p)),
         NEW fin \in Nat, fin = at + size, fin <= b + MaxOf(b),
         HeaderAt(e, b, fin - b, Len(s) + 1), Within(m, e, b, at, fin), PairAt(e, at, p)
  PROVE  PodAt(e, b, Append(s, p), Append(ps, fin))
<1> DEFINE n == Len(s)  t == Append(s, p)  qs == Append(ps, fin)
<1>1. /\ s \in Seq(Entry) /\ Places(ps, b, s) /\ p \in Entry
      /\ \A k \in 1 .. n : Inserted(s[k]) /\ PairAt(m, ps[k], s[k])
      /\ AllTell(s) => \A j, k \in 1 .. n : j # k => s[j].key # s[k].key
  BY Zenon DEF PodAt, Inserted
<1>2. n \in Nat /\ Len(ps) = n + 1 /\ ps[1] = b + 3 * HdrSz(b) /\ ps \in Seq(Nat)
  BY <1>1, PlaceFacts, Zenon DEF Places
<1>3. P!IsSize(ValSz(p))
  BY EntryFacts, Zenon
<1>4. t \in Seq(Entry) /\ Len(t) = n + 1 /\ t[n + 1] = p /\ \A k \in 1 .. n : t[k] = s[k]
  <2>1. p \in Entry /\ s \in Seq(Entry)
    BY <1>1
  <2> QED BY <2>1
<1>5. Len(qs) = n + 2 /\ qs[n + 2] = fin /\ \A k \in 1 .. n + 1 : qs[k] = ps[k]
  <2>1. fin \in Nat
    OBVIOUS
  <2> QED BY <1>2, <2>1
<1>6. Places(qs, b, t)
  BY <1>1, <1>3, PlacesGrown, Zenon
<1>7. \A k \in 1 .. n : PairAt(e, ps[k], s[k])
  <2>1. ps[n + 1] <= at
    OBVIOUS
  <2> QED BY <2>1, PairsKept, Zenon
<1>8. \A k \in 1 .. n + 1 : Inserted(t[k]) /\ PairAt(e, qs[k], t[k])
  <2> TAKE k \in 1 .. n + 1
  <2>1. CASE k = n + 1
    BY <2>1, <1>4, <1>5, Zenon
  <2>2. CASE k # n + 1
    <3>1. k \in 1 .. n
      BY <2>2, <1>2
    <3> QED BY <3>1, <1>1, <1>4, <1>5, <1>7, Zenon
  <2> QED BY <2>1, <2>2, Zenon
<1>9. AllTell(t) => \A j, k \in 1 .. n + 1 : j # k => t[j].key # t[k].key
  <2> SUFFICES ASSUME AllTell(t), NEW j \in 1 .. n + 1, NEW k \in 1 .. n + 1, j # k
               PROVE  t[j].key # t[k].key
    BY Zenon
  <2>3. AllTell(s)
    <3>1. \A i \in 1 .. n : i \in 1 .. n + 1
      BY <1>2
    <3> QED BY <3>1, <1>4, Zenon DEF AllTell
  <2>1. (j \in 1 .. n \/ j = n + 1) /\ (k \in 1 .. n \/ k = n + 1)
    BY <1>2
  <2>2. \A i \in 1 .. n : s[i].key # p.key
    BY <2>3
  <2> QED BY <2>1, <2>2, <2>3, <1>1, <1>4, Zenon
<1>10. HeaderAt(e, b, qs[Len(qs)] - b, Len(t))
  BY <1>4, <1>5, Zenon
<1> QED BY <1>4, <1>6, <1>8, <1>9, <1>10, Zenon DEF PodAt

\* A pod that nothing has been put into.
LEMMA EmptyPod ==
  ASSUME NEW m, NEW b \in Nat, HeaderAt(m, b, 3 * HdrSz(b), 0)
  PROVE  PodAt(m, b, <<>>, <<b + 3 * HdrSz(b)>>)
<1> DEFINE first == b + 3 * HdrSz(b)
<1>1. HdrSz(b) \in Nat /\ MaxOf(b) \in Nat /\ 3 * HdrSz(b) <= MaxOf(b)
  BY HdrFacts, Zenon
<1>2. first \in Nat /\ first <= b + MaxOf(b) /\ first - b = 3 * HdrSz(b)
  BY <1>1
<1> HIDE DEF first
<1>3. /\ <<first>> \in Seq(Nat) /\ Len(<<first>>) = 1 /\ <<first>>[1] = first
      /\ <<>> \in Seq(Entry) /\ Len(<<>>) = 0
  BY <1>2
<1>4. (\A k \in 1 .. 0 : FALSE) /\ (\A j, k \in 1 .. 1 : ~(j < k)) /\ 0 + 1 = 1
  OBVIOUS
<1>5. Places(<<first>>, b, <<>>)
  BY <1>2, <1>3, <1>4, Zenon DEF Places, first
<1>6. HeaderAt(m, b, <<first>>[Len(<<first>>)] - b, Len(<<>>))
  BY <1>2, <1>3, Zenon
<1> QED BY <1>3, <1>4, <1>5, <1>6, Zenon DEF PodAt, first

LEMMA FirstIs ==
  ASSUME NEW m, NEW b \in Nat, NEW s, NEW ps, PodAt(m, b, s, ps)
  PROVE  /\ ps[1] = b + 3 * HdrSz(b) /\ ps[1] \in Nat /\ b <= ps[1]
         /\ ps[1] <= ps[Len(s) + 1]
<1>1. s \in Seq(Entry) /\ Places(ps, b, s) /\ \A i \in 1 .. Len(s) : Inserted(s[i])
  BY Zenon DEF PodAt
<1>2. ps[1] = b + 3 * HdrSz(b) /\ Len(s) \in Nat
  BY <1>1, PlaceFacts, Zenon
<1>3. b <= ps[1]
  BY <1>1, PlaceFacts, Zenon
<1>4. Len(s) + 1 \in 1 .. Len(s) + 1 /\ 1 \in 1 .. Len(s) + 1
  BY <1>2
<1>5. ps[1] <= ps[Len(s) + 1] /\ ps[1] \in Nat
  BY <1>1, <1>4, PlaceFacts, Zenon
<1> QED BY <1>2, <1>3, <1>5, Zenon

\* fd_pod_reset
LEMMA ResetWritten ==
  ASSUME NEW m \in SUBSET Nat, NEW b \in Nat, NEW s, NEW ps, PodAt(m, b, s, ps)
  PROVE  LET e == P!ResetAt(m, b) IN
         /\ e \in SUBSET Nat /\ Changes(e, m, b, b + 3 * HdrSz(b))
         /\ PodAt(e, b, <<>>, <<b + 3 * HdrSz(b)>>)
<1> DEFINE h == HdrSz(b)  e == P!ResetAt(m, b)
           w == P!SetField(P!SetField(m, b, HdrSz(b), 1, 3 * h), b, HdrSz(b), 2, 0)
<1>1. h \in Nat /\ MaxOf(b) \in Nat /\ 3 * h <= MaxOf(b)
  BY HdrFacts, Zenon
<1>2. P!HdrCsz(m, b) = h
  BY PodRead
<1>3. e = w
  BY <1>2, Zenon DEF P!ResetAt
<1>4. Coded(m, b, HdrSz(b), P!Word(MaxOf(b)))
  BY Zenon DEF PodAt, HeaderAt
<1>5. 3 * h \in Nat /\ 0 \in Nat /\ 0 <= MaxOf(b)
  BY <1>1
<1> HIDE DEF h
<1>6. w \in SUBSET Nat /\ HeaderAt(w, b, 3 * h, 0) /\ Changes(w, m, b, b + 3 * HdrSz(b))
  BY <1>1, <1>4, <1>5, FieldsWritten, Zenon
<1> HIDE DEF w, e
<1>7. PodAt(w, b, <<>>, <<b + 3 * HdrSz(b)>>)
  BY <1>6, EmptyPod, Zenon DEF h
<1> QED BY <1>3, <1>6, <1>7, Zenon DEF e

\* What fd_pod_alloc asks for.
LEMMA RoomIs ==
  ASSUME NEW m \in SUBSET Nat, NEW b \in Nat, NEW s, NEW ps, PodAt(m, b, s, ps),
         NEW key, NEW sz, P!IsSize(sz), P!Room4(m, b, key, sz)
  PROVE  /\ AllTell(s) => \A k \in 1 .. Len(s) : s[k].key # key
         /\ ps[Len(s) + 1] \in Nat /\ P!PairSz(sz) \in Nat
         /\ ps[Len(s) + 1] + P!PairSz(sz) \in Nat
         /\ ps[Len(s) + 1] + P!PairSz(sz) <= b + MaxOf(b)
         /\ b <= ps[Len(s) + 1]
<1>1. P!Find(m, b, key) = {} /\ P!PairSz(sz) <= P!PodAvail(m, b)
  BY Zenon DEF P!Room4
<1>2. ASSUME AllTell(s), NEW k \in 1 .. Len(s), s[k].key = key PROVE FALSE
  <2>1. P!Find(m, b, key) = {Shown(s[k], ps[k])}
    BY <1>2, FindIs
  <2> QED BY <1>1, <2>1
<1>3. s \in Seq(Entry) /\ Places(ps, b, s) /\ \A i \in 1 .. Len(s) : Inserted(s[i])
  BY Zenon DEF PodAt
<1>4. Len(s) \in Nat /\ Len(ps) = Len(s) + 1
  BY <1>3, PlaceFacts, Zenon
<1>5. ps[Len(s) + 1] \in Nat /\ ps[1] <= ps[Len(s) + 1] /\ b <= ps[1] /\ ps[1] \in Nat
  <2>1. Len(s) + 1 \in 1 .. Len(s) + 1 /\ 1 \in 1 .. Len(s) + 1
    BY <1>4
  <2>2. ps[Len(s) + 1] \in Nat /\ ps[1] <= ps[Len(s) + 1]
    BY <1>3, <2>1, PlaceFacts, Zenon
  <2>3. b <= ps[1]
    BY <1>3, PlaceFacts, Zenon
  <2>4. ps[1] \in Nat
    BY <1>3, <2>1, PlaceFacts, Zenon
  <2> QED BY <2>2, <2>3, <2>4, Zenon
<1>6. P!PodAvail(m, b) = MaxOf(b) - (ps[Len(ps)] - b)
  BY PodRead
<1>7. PICK at \in Nat : at = ps[Len(s) + 1]
  BY <1>5, Zenon
<1>8. PICK n \in Nat : n = P!PairSz(sz)
  BY PairSzIs, Zenon
<1>9. PICK max \in Nat : max = MaxOf(b)
  BY HdrFacts, Zenon
<1>10. n <= max - (at - b)
  BY <1>1, <1>4, <1>6, <1>7, <1>8, <1>9, Zenon
<1>11. at + n \in Nat /\ at + n <= b + max
  BY <1>10
<1>12. b <= at
  BY <1>5, <1>7
<1> QED BY <1>2, <1>5, <1>7, <1>8, <1>9, <1>11, <1>12, Zenon

\* fd_pod_insert and fd_pod_insert_[type]
LEMMA InsertWritten ==
  ASSUME NEW m \in SUBSET Nat, NEW b \in Nat, NEW s, NEW ps, PodAt(m, b, s, ps),
         NEW p, Inserted(p), p.type # 0, P!Room4(m, b, p.key, ValSz(p))
  PROVE  LET x == P!EncVal(p.type, p.val)
             e == P!Store(P!Alloc(m, b, p.key, p.type, x.sz), P!ValAt(m, b, x.sz), x.sz, x.w)
         IN  /\ e \in SUBSET Nat
             /\ \E fin \in Nat :
                  /\ PodAt(e, b, Append(s, p), Append(ps, fin))
                  /\ ps[Len(s) + 1] <= fin /\ fin <= b + MaxOf(b)
                  /\ Within(m, e, b, ps[Len(s) + 1], fin)
<1> DEFINE x == P!EncVal(p.type, p.val)  c == P!EncSz(P!Word(x.sz))
<1>1. /\ P!IsSize(ValSz(p)) /\ p.key \in 1 .. 255 /\ p.type \in 0 .. 13
      /\ P!IsInput(p.type, p.val) /\ ValSz(p) = x.sz
  BY EntryFacts, ZenonT(30)
<1>2. x.sz \in Nat /\ x.w \in SUBSET Nat
  <2>1. x.sz \in Nat
    BY <1>1, SizeWord, Zenon
  <2> QED BY <1>1, <2>1, ValRead, Zenon
<1>3. PICK at \in Nat : at = ps[Len(s) + 1]
  BY <1>1, RoomIs, Zenon
<1>4. PICK n \in Nat : n = P!PairSz(x.sz) /\ n = 4 + c + x.sz /\ c \in Nat
  BY <1>1, PairSzIs, Zenon
<1>5. (AllTell(s) => \A k \in 1 .. Len(s) : s[k].key # p.key) /\ at + n <= b + MaxOf(b) /\ b <= at
  BY <1>1, <1>3, <1>4, RoomIs, ZenonT(30)
<1>6. P!Stop(m, b) = at
  BY <1>3, PodRead
<1>7. PICK v \in Nat : v = at + 4 + c
  BY <1>4
<1>8. P!ValAt(m, b, x.sz) = v
  BY <1>6, <1>7, Zenon DEF P!ValAt
<1>9. PICK fin \in Nat : fin = at + n
  BY <1>4
<1>10. v + x.sz = fin /\ at <= v /\ v <= v /\ fin <= fin /\ v <= fin /\ at <= fin
  BY <1>2, <1>4, <1>7, <1>9
<1> DEFINE d == P!Alloc(m, b, p.key, p.type, x.sz)  e == P!Store(d, v, x.sz, x.w)
<1>11. /\ d \in SUBSET Nat /\ HeadAt(d, at, p.key, p.type, x.sz)
       /\ HeaderAt(d, b, fin - b, Len(s) + 1) /\ Within(m, d, b, at, v)
  <2>1. at + P!PairSz(x.sz) <= b + MaxOf(b) /\ P!IsSize(x.sz)
    BY <1>1, <1>4, <1>5, Zenon
  <2>2. /\ d \in SUBSET Nat /\ HeadAt(d, at, p.key, p.type, x.sz)
        /\ HeaderAt(d, b, (at + P!PairSz(x.sz)) - b, Len(s) + 1)
        /\ Within(m, d, b, at, at + 4 + c)
    BY <1>1, <1>3, <2>1, AllocWritten, ZenonT(30)
  <2> QED BY <2>2, <1>4, <1>7, <1>9, Zenon
<1> HIDE DEF d
<1>12. e \in SUBSET Nat /\ Holds(e, v, x.sz, x.w) /\ Changes(e, d, v, fin)
  <2>1. e \in SUBSET Nat /\ Holds(e, v, x.sz, x.w) /\ Changes(e, d, v, v + x.sz)
    BY <1>2, <1>7, <1>11, StoreHolds, Zenon
  <2> QED BY <2>1, <1>10, Zenon
<1> HIDE DEF e
<1>13. Within(m, e, b, at, fin)
  <2> SUFFICES ASSUME NEW from \in Nat, NEW to \in Nat, to <= b \/ b + 3 * HdrSz(b) <= from,
                      to <= at \/ fin <= from
               PROVE  Agree(m, e, from, to)
    BY Zenon DEF Within
  <2>1. (to <= at \/ v <= from) /\ (to <= v \/ fin <= from)
    BY <1>10
  <2>2. Agree(m, d, from, to)
    BY <1>11, <2>1, Zenon DEF Within
  <2>3. Agree(d, e, from, to)
    BY <1>12, <2>1, AgreeOutside, Zenon
  <2> QED BY <2>2, <2>3, AgreeOn, Zenon
<1>14. HeadAt(e, at, p.key, p.type, x.sz)
  <2>1. Agree(d, e, at, v)
    BY <1>10, <1>12, AgreeOutside, Zenon
  <2>2. Agree(d, e, at, at + 4 + c)
    BY <2>1, <1>7, Zenon
  <2>3. P!IsSize(x.sz)
    BY <1>1, Zenon
  <2> QED BY <1>11, <2>2, <2>3, HeadKept, Zenon
<1>15. PairAt(e, at, p)
  <2>1. ValPlace(at, p) = v
    BY <1>1, <1>7, Zenon DEF ValPlace
  <2> QED BY <1>1, <1>12, <1>14, <2>1, Zenon DEF PairAt
<1>16. HeaderAt(e, b, fin - b, Len(s) + 1)
  <2>1. PICK h \in Nat : h = b + 3 * HdrSz(b)
    <3>1. HdrSz(b) \in Nat
      BY HdrFacts, Zenon
    <3> QED BY <3>1
  <2>2. h <= at
    <3>1. ps[1] = h /\ ps[1] <= ps[Len(s) + 1]
      BY <2>1, FirstIs, Zenon
    <3> QED BY <3>1, <1>3, Zenon
  <2>3. h <= v
    BY <2>2, <1>10
  <2>4. Agree(d, e, b, h)
    BY <2>3, <1>12, AgreeOutside, Zenon
  <2>5. Agree(d, e, b, b + 3 * HdrSz(b))
    BY <2>1, <2>4, Zenon
  <2> QED BY <1>11, <2>5, HeaderKept, Zenon
<1>17. PodAt(e, b, Append(s, p), Append(ps, fin))
  <2>1. PICK size : size = P!PairSz(ValSz(p)) /\ fin = at + size
    BY <1>1, <1>4, <1>9, Zenon
  <2>2. fin <= b + MaxOf(b)
    BY <1>5, <1>9, Zenon
  <2> QED BY <1>3, <1>5, <1>12, <1>13, <1>15, <1>16, <2>1, <2>2, PodGrown, Zenon
<1>18. ps[Len(s) + 1] <= fin /\ fin <= b + MaxOf(b) /\ Within(m, e, b, ps[Len(s) + 1], fin)
  BY <1>3, <1>5, <1>9, <1>10, <1>13, Zenon
<1>19. e = P!Store(P!Alloc(m, b, p.key, p.type, x.sz), P!ValAt(m, b, x.sz), x.sz, x.w)
  BY <1>8, Zenon DEF d, e
<1> QED BY <1>12, <1>17, <1>18, <1>19, Zenon

\* fd_pod_alloc_subpod
LEMMA SubpodWritten ==
  ASSUME NEW m \in SUBSET Nat, NEW b \in Nat, NEW s, NEW ps, PodAt(m, b, s, ps),
         NEW key \in Keys, P!Room4(m, b, key, SubMax)
  PROVE  LET v == P!ValAt(m, b, SubMax)
             p == [key |-> key, type |-> 0, val |-> v]
             e == P!NewAt(P!Alloc(m, b, key, 0, SubMax), v, SubMax)
         IN  /\ e \in SUBSET Nat /\ v \in Nat \ {0} /\ p \in Entry
             /\ PodAt(e, v, <<>>, <<v + 3 * HdrSz(v)>>)
             /\ \E fin \in Nat :
                  /\ PodAt(e, b, Append(s, p), Append(ps, fin))
                  /\ ps[Len(s) + 1] <= v /\ v + SubMax <= fin /\ fin <= b + MaxOf(b)
                  /\ Within(m, e, b, ps[Len(s) + 1], fin)
<1> DEFINE v == P!ValAt(m, b, SubMax)  p == [key |-> key, type |-> 0, val |-> v]
           c == P!EncSz(P!Word(SubMax))
<1>1. P!IsSize(SubMax) /\ key \in 1 .. 255 /\ SubMax \in Nat /\ 0 \in 0 .. 13
  <2>1. P!IsSize(SubMax) /\ key \in 1 .. 255
    BY PodFacts, Zenon
  <2> QED BY <2>1, SizeWord
<1>2. PICK at \in Nat : at = ps[Len(s) + 1]
  BY <1>1, RoomIs, Zenon
<1>3. PICK n \in Nat : n = P!PairSz(SubMax) /\ n = 4 + c + SubMax /\ c \in Nat
  BY <1>1, PairSzIs, Zenon
<1>4. (AllTell(s) => \A k \in 1 .. Len(s) : s[k].key # key) /\ at + n <= b + MaxOf(b) /\ b <= at
  BY <1>1, <1>2, <1>3, RoomIs, Zenon
<1>5. P!Stop(m, b) = at
  BY <1>2, PodRead
<1>6. v = at + 4 + c
  BY <1>5, Zenon DEF P!ValAt
<1>7. v \in Nat \ {0} /\ v \in Nat
  <2>1. at + 4 + c \in Nat \ {0}
    BY <1>3
  <2> QED BY <2>1, <1>6, Zenon
<1> HIDE DEF v
<1>8. PICK fin \in Nat : fin = at + n
  BY <1>3
<1>9. /\ v + SubMax = fin /\ at <= v /\ v <= v /\ fin <= fin /\ v <= fin /\ at <= fin
      /\ v + SubMax <= fin
  BY <1>1, <1>3, <1>6, <1>8
<1> DEFINE d == P!Alloc(m, b, key, 0, SubMax)  e == P!NewAt(d, v, SubMax)
<1>10. /\ d \in SUBSET Nat /\ HeadAt(d, at, key, 0, SubMax)
       /\ HeaderAt(d, b, fin - b, Len(s) + 1) /\ Within(m, d, b, at, v)
  <2>1. at + P!PairSz(SubMax) <= b + MaxOf(b)
    BY <1>3, <1>4, Zenon
  <2>2. /\ d \in SUBSET Nat /\ HeadAt(d, at, key, 0, SubMax)
        /\ HeaderAt(d, b, (at + P!PairSz(SubMax)) - b, Len(s) + 1)
        /\ Within(m, d, b, at, at + 4 + c)
    BY <1>1, <1>2, <2>1, AllocWritten, ZenonT(30)
  <2> QED BY <2>2, <1>3, <1>6, <1>8, Zenon
<1> HIDE DEF d
<1>11. MaxOf(v) = SubMax
  BY <1>7 DEF MaxOf
<1>12. /\ e \in SUBSET Nat /\ HeaderAt(e, v, 3 * HdrSz(v), 0) /\ Changes(e, d, v, fin)
  <2>1. e = P!NewAt(d, v, MaxOf(v))
    BY <1>11, Zenon
  <2>2. /\ e \in SUBSET Nat /\ HeaderAt(e, v, 3 * HdrSz(v), 0)
        /\ Changes(e, d, v, v + 3 * HdrSz(v))
    BY <1>7, <1>10, <2>1, NewWritten, Zenon
  <2>3. PICK h \in Nat : h = HdrSz(v) /\ 3 * h <= SubMax
    BY <1>11, HdrFacts, Zenon
  <2>4. v + 3 * h \in Nat /\ v + 3 * h <= fin
    BY <2>3, <1>1, <1>7, <1>9
  <2>5. Changes(e, d, v, v + 3 * h)
    BY <2>2, <2>3, Zenon
  <2>6. Changes(e, d, v, fin)
    BY <2>4, <2>5, <1>7, <1>9, ChangesIn, Zenon
  <2> QED BY <2>2, <2>6, Zenon
<1> HIDE DEF e
<1>13. PodAt(e, v, <<>>, <<v + 3 * HdrSz(v)>>)
  BY <1>7, <1>12, EmptyPod, Zenon
<1>14. Within(m, e, b, at, fin)
  <2> SUFFICES ASSUME NEW from \in Nat, NEW to \in Nat, to <= b \/ b + 3 * HdrSz(b) <= from,
                      to <= at \/ fin <= from
               PROVE  Agree(m, e, from, to)
    BY Zenon DEF Within
  <2>1. (to <= at \/ v <= from) /\ (to <= v \/ fin <= from)
    BY <1>7, <1>9
  <2>2. Agree(m, d, from, to)
    BY <1>10, <2>1, Zenon DEF Within
  <2>3. Agree(d, e, from, to)
    BY <1>7, <1>12, <2>1, AgreeOutside, Zenon
  <2> QED BY <2>2, <2>3, AgreeOn, Zenon
<1>15. p \in Entry /\ Inserted(p) /\ p.type = 0 /\ p.key = key /\ p.val = v
  <2>1. p \in Entry /\ p.type = 0 /\ p.key = key /\ p.val = v
    BY <1>1, <1>7 DEF Entry
  <2> QED BY <2>1, <1>7, Zenon DEF Inserted
<1> HIDE DEF p
<1>16. ValSz(p) = SubMax
  BY <1>15, Zenon DEF ValSz
<1>17. PairAt(e, at, p)
  <2>1. Agree(d, e, at, v)
    BY <1>7, <1>9, <1>12, AgreeOutside, Zenon
  <2>2. Agree(d, e, at, at + 4 + c)
    BY <2>1, <1>6, Zenon
  <2>3. HeadAt(e, at, key, 0, SubMax)
    BY <1>1, <1>10, <2>2, HeadKept, Zenon
  <2>4. ValPlace(at, p) = v
    BY <1>16, <1>6, Zenon DEF ValPlace
  <2> QED BY <1>15, <1>16, <2>3, <2>4, Zenon DEF PairAt
<1>18. HeaderAt(e, b, fin - b, Len(s) + 1)
  <2>1. PICK h \in Nat : h = b + 3 * HdrSz(b)
    <3>1. HdrSz(b) \in Nat
      BY HdrFacts, Zenon
    <3> QED BY <3>1
  <2>2. h <= at
    <3>1. ps[1] = h /\ ps[1] <= ps[Len(s) + 1]
      BY <2>1, FirstIs, Zenon
    <3> QED BY <3>1, <1>2, Zenon
  <2>3. h <= v
    BY <2>2, <1>7, <1>9
  <2>4. Agree(d, e, b, h)
    BY <2>3, <1>7, <1>12, AgreeOutside, Zenon
  <2>5. Agree(d, e, b, b + 3 * HdrSz(b))
    BY <2>1, <2>4, Zenon
  <2> QED BY <1>10, <2>5, HeaderKept, Zenon
<1>19. PodAt(e, b, Append(s, p), Append(ps, fin))
  <2>1. PICK size : size = P!PairSz(ValSz(p)) /\ fin = at + size
    BY <1>3, <1>8, <1>16, Zenon
  <2>2. fin <= b + MaxOf(b)
    BY <1>4, <1>8, Zenon
  <2>3. AllTell(s) => \A k \in 1 .. Len(s) : s[k].key # p.key
    BY <1>4, <1>15, Zenon
  <2> QED BY <1>2, <1>12, <1>14, <1>15, <1>17, <1>18, <2>1, <2>2, <2>3, PodGrown, Zenon
<1>20. ps[Len(s) + 1] <= v /\ fin <= b + MaxOf(b) /\ Within(m, e, b, ps[Len(s) + 1], fin)
  BY <1>2, <1>4, <1>8, <1>9, <1>14, Zenon
<1> QED BY <1>7, <1>9, <1>12, <1>13, <1>15, <1>19, <1>20, Zenon DEF v, p, d, e

\* There is no room for a subpod in a subpod.
LEMMA NoSubSubpod ==
  ASSUME NEW m \in SUBSET Nat, NEW b \in Nat, NEW s, NEW ps, PodAt(m, b, s, ps),
         NEW key, P!Room4(m, b, key, SubMax)
  PROVE  b = 0
<1> SUFFICES ASSUME b # 0 PROVE FALSE
  OBVIOUS
<1>1. P!IsSize(SubMax)
  BY PodFacts, Zenon
<1>2. PICK at \in Nat : at = ps[Len(s) + 1]
  BY <1>1, RoomIs, Zenon
<1>3. PICK n \in Nat : n = P!PairSz(SubMax)
  BY <1>1, PairSzIs, Zenon
<1>4. at + n <= b + MaxOf(b) /\ b <= at
  BY <1>1, <1>2, <1>3, RoomIs, Zenon
<1>5. PICK c \in Nat : n = 4 + c + SubMax
  BY <1>1, <1>3, PairSzIs, Zenon
<1>6. SubMax \in Nat
  BY <1>1, SizeWord, Zenon
<1>7. MaxOf(b) = SubMax
  BY DEF MaxOf
<1>8. at + (4 + c + SubMax) <= b + SubMax
  BY <1>4, <1>5, <1>7, Zenon
<1> QED BY <1>4, <1>6, <1>8

-----------------------------------------------------------------------------
(* Where the pairs of a pod are                                             *)

Between(first, x, last) ==
  first \in Nat /\ x \in Nat /\ last \in Nat /\ first <= x /\ x <= last

LEMMA PlaceIs ==
  ASSUME NEW m, NEW b \in Nat, NEW s, NEW ps, PodAt(m, b, s, ps), NEW k \in 1 .. Len(s) + 1
  PROVE  Between(ps[1], ps[k], ps[Len(s) + 1])
<1>1. s \in Seq(Entry) /\ Places(ps, b, s) /\ \A i \in 1 .. Len(s) : Inserted(s[i])
  BY Zenon DEF PodAt
<1>2. Len(s) \in Nat
  BY <1>1, PlaceFacts, Zenon
<1>3. 1 \in 1 .. Len(s) + 1 /\ Len(s) + 1 \in 1 .. Len(s) + 1
  BY <1>2
<1>4. \A i \in 1 .. Len(s) + 1 : ps[i] \in Nat /\ ps[1] <= ps[i] /\ ps[i] <= ps[Len(s) + 1]
  BY <1>1, PlaceFacts, Zenon
<1> QED BY <1>3, <1>4, Zenon DEF Between

\* A pair from x to y, with a val of z bytes at v.
Span(x, v, z, y) ==
  x \in Nat /\ v \in Nat /\ z \in Nat /\ y \in Nat /\ x + 5 <= v /\ v + z = y

LEMMA PairPlace ==
  ASSUME NEW m, NEW b \in Nat, NEW s, NEW ps, PodAt(m, b, s, ps), NEW k \in 1 .. Len(s)
  PROVE  Span(ps[k], ValPlace(ps[k], s[k]), ValSz(s[k]), ps[k + 1])
<1>1. s \in Seq(Entry) /\ Places(ps, b, s) /\ \A i \in 1 .. Len(s) : Inserted(s[i])
  BY Zenon DEF PodAt
<1>2. ps[k] \in Nat /\ ps[k + 1] \in Nat /\ ValPlace(ps[k], s[k]) \in Nat
      /\ ps[k] + 5 <= ValPlace(ps[k], s[k]) /\ P!IsSize(ValSz(s[k]))
  BY <1>1, PlaceFacts, Zenon
<1>3. ps[k] \in Nat /\ ValPlace(ps[k], s[k]) + ValSz(s[k]) = ps[k + 1]
  BY <1>1, PlaceFacts, Zenon
<1>4. ValSz(s[k]) \in Nat
  BY <1>2, SizeWord, Zenon
<1> QED BY <1>2, <1>3, <1>4, Zenon DEF Span

LEMMA PlaceOrder ==
  ASSUME NEW m, NEW b \in Nat, NEW s, NEW ps, PodAt(m, b, s, ps), NEW j \in 1 .. Len(s),
         NEW k \in 1 .. Len(s) + 1, j < k
  PROVE  ps[j + 1] <= ps[k]
<1>1. s \in Seq(Entry) /\ Places(ps, b, s) /\ \A i \in 1 .. Len(s) : Inserted(s[i])
  BY Zenon DEF PodAt
<1> QED BY <1>1, PlaceFacts, Zenon

LEMMA PodLen ==
  ASSUME NEW m, NEW b \in Nat, NEW s, NEW ps, PodAt(m, b, s, ps)
  PROVE  /\ Len(s) \in Nat /\ Len(ps) = Len(s) + 1 /\ ps[Len(s) + 1] <= b + MaxOf(b)
         /\ \A k \in 1 .. Len(s) :
              k \in 1 .. Len(s) + 1 /\ k + 1 \in 1 .. Len(s) + 1
<1>1. s \in Seq(Entry) /\ Places(ps, b, s) /\ \A i \in 1 .. Len(s) : Inserted(s[i])
  BY Zenon DEF PodAt
<1>2. Len(s) \in Nat /\ Len(ps) = Len(s) + 1
  BY <1>1, PlaceFacts, Zenon
<1>3. ps[Len(ps)] <= b + MaxOf(b)
  BY <1>1, Zenon DEF Places
<1>4. \A k \in 1 .. Len(s) : k \in 1 .. Len(s) + 1 /\ k + 1 \in 1 .. Len(s) + 1
  BY <1>2
<1> QED BY <1>2, <1>3, <1>4, Zenon

-----------------------------------------------------------------------------
(* Pods in a pod                                                            *)

\* Only the pod at b is written.
Local(m, e, b) ==
  \A from, to \in Nat : to <= b \/ b + MaxOf(b) <= from => Agree(m, e, from, to)

LEMMA WithinLocal ==
  ASSUME NEW m, NEW e, NEW b \in Nat, NEW lo \in Nat, NEW hi \in Nat, Within(m, e, b, lo, hi),
         b <= lo, hi <= b + MaxOf(b)
  PROVE  Local(m, e, b)
<1> SUFFICES ASSUME NEW from \in Nat, NEW to \in Nat, to <= b \/ b + MaxOf(b) <= from
             PROVE  Agree(m, e, from, to)
  BY Zenon DEF Local
<1>1. PICK h \in Nat : h = HdrSz(b)
  BY HdrFacts, Zenon
<1>2. PICK max \in Nat : max = MaxOf(b)
  BY HdrFacts, Zenon
<1>3. 3 * h <= max /\ hi <= b + max /\ (to <= b \/ b + max <= from)
  BY <1>1, <1>2, HdrFacts, Zenon
<1>4. (to <= b \/ b + 3 * h <= from) /\ (to <= lo \/ hi <= from)
  BY <1>3
<1> QED BY <1>1, <1>4, Zenon DEF Within

LEMMA ChangesLocal ==
  ASSUME NEW m, NEW e, NEW b \in Nat, Changes(e, m, b, b + 3 * HdrSz(b))
  PROVE  Local(m, e, b)
<1> SUFFICES ASSUME NEW from \in Nat, NEW to \in Nat, to <= b \/ b + MaxOf(b) <= from
             PROVE  Agree(m, e, from, to)
  BY Zenon DEF Local
<1>1. PICK h \in Nat : h = HdrSz(b)
  BY HdrFacts, Zenon
<1>2. PICK max \in Nat : max = MaxOf(b)
  BY HdrFacts, Zenon
<1>3. 3 * h <= max /\ (to <= b \/ b + max <= from) /\ Changes(e, m, b, b + 3 * h)
  BY <1>1, <1>2, HdrFacts, Zenon
<1>4. (to <= b \/ b + 3 * h <= from) /\ b + 3 * h \in Nat
  BY <1>3
<1> QED BY <1>3, <1>4, AgreeOutside, Zenon

LEMMA WholeKept ==
  ASSUME NEW m, NEW e, NEW b \in Nat, NEW s, NEW ps, PodAt(m, b, s, ps),
         Agree(m, e, b, b + MaxOf(b))
  PROVE  PodAt(e, b, s, ps)
<1>1. PICK max \in Nat : max = MaxOf(b)
  BY HdrFacts, Zenon
<1>2. PICK first : first = ps[1]
  BY Zenon
<1>3. PICK last : last = ps[Len(s) + 1]
  BY Zenon
<1>4. Len(s) \in Nat /\ last <= b + max /\ b <= first
  BY <1>1, <1>2, <1>3, PodLen, FirstIs, Zenon
<1>5. \A k \in 1 .. Len(s) + 1 : Between(first, ps[k], last)
  BY <1>2, <1>3, PlaceIs, Zenon
<1>6. Agree(m, e, b, b + max) /\ b + max \in Nat /\ b <= b
  BY <1>1
<1>7. Agree(m, e, b, ps[1])
  <2>1. 1 \in 1 .. Len(s) + 1
    BY <1>4
  <2>2. Between(first, first, last)
    BY <1>2, <1>5, <2>1, Zenon
  <2>3. first \in Nat /\ first <= b + max
    BY <1>4, <1>6, <2>2 DEF Between
  <2> QED BY <1>2, <1>6, <2>3, AgreeWithin, Zenon
<1>8. ASSUME NEW k \in 1 .. Len(s)
      PROVE  /\ Agree(m, e, ps[k], ValPlace(ps[k], s[k]))
             /\ Agree(m, e, ValPlace(ps[k], s[k]), ps[k + 1])
  <2>1. PICK x : x = ps[k]
    BY Zenon
  <2>2. PICK v : v = ValPlace(ps[k], s[k])
    BY Zenon
  <2>3. PICK z : z = ValSz(s[k])
    BY Zenon
  <2>4. PICK y : y = ps[k + 1]
    BY Zenon
  <2>5. k \in 1 .. Len(s) + 1 /\ k + 1 \in 1 .. Len(s) + 1
    BY PodLen, Zenon
  <2>6. Between(first, x, last) /\ Between(first, y, last)
    BY <1>5, <2>1, <2>4, <2>5, Zenon
  <2>7. Span(x, v, z, y)
    BY <2>1, <2>2, <2>3, <2>4, PairPlace, Zenon
  <2>8. /\ x \in Nat /\ v \in Nat /\ y \in Nat
        /\ b <= x /\ v <= b + max /\ b <= v /\ y <= b + max
    BY <1>4, <2>6, <2>7 DEF Between, Span
  <2>9. Agree(m, e, x, v)
    BY <1>6, <2>8, AgreeWithin, Zenon
  <2>10. Agree(m, e, v, y)
    BY <1>6, <2>8, AgreeWithin, Zenon
  <2> QED BY <2>1, <2>2, <2>4, <2>9, <2>10, Zenon
<1> QED BY <1>7, <1>8, PodKept, Zenon

\* Where a subpod of the outermost pod is.
SubSpan(x, q, y) ==
  /\ x \in Nat /\ q \in Nat \ {0} /\ y \in Nat /\ SubMax \in Nat \ {0}
  /\ x <= q /\ q + SubMax = y /\ MaxOf(q) = SubMax

LEMMA SubpodPlace ==
  ASSUME NEW m, NEW s, NEW ps, PodAt(m, 0, s, ps), NEW k \in 1 .. Len(s), s[k].type = 0
  PROVE  SubSpan(ps[k], s[k].val, ps[k + 1])
<1>0. 0 \in Nat
  OBVIOUS
<1>1. PairAt(m, ps[k], s[k])
  BY Zenon DEF PodAt
<1>2. s[k].val = ValPlace(ps[k], s[k]) /\ ValSz(s[k]) = SubMax
  BY <1>1 DEF PairAt, ValSz
<1>3. PICK x : x = ps[k]
  BY Zenon
<1>4. PICK v : v = ValPlace(ps[k], s[k])
  BY Zenon
<1>5. PICK y : y = ps[k + 1]
  BY Zenon
<1>6. Span(x, v, SubMax, y)
  BY <1>0, <1>2, <1>3, <1>4, <1>5, PairPlace, Zenon
<1>7. SubMax \in Nat \ {0}
  <2>1. MaxOf(1) = SubMax
    BY DEF MaxOf
  <2>2. HdrSz(1) \in Nat \ {0} /\ 3 * HdrSz(1) <= MaxOf(1)
    BY HdrFacts, Zenon
  <2>3. 3 * HdrSz(1) <= SubMax
    BY <2>1, <2>2, Zenon
  <2> QED BY <1>6, <2>2, <2>3 DEF Span
<1>8. x \in Nat /\ v \in Nat \ {0} /\ y \in Nat /\ x <= v /\ v + SubMax = y
  BY <1>6 DEF Span
<1>9. MaxOf(v) = SubMax
  BY <1>8 DEF MaxOf
<1>10. SubSpan(x, v, y)
  BY <1>7, <1>8, <1>9, Zenon DEF SubSpan
<1> QED BY <1>2, <1>3, <1>4, <1>5, <1>10, Zenon

\* Two of them share no byte.
LEMMA SubpodsApart ==
  ASSUME NEW m, NEW s, NEW ps, PodAt(m, 0, s, ps), NEW j \in 1 .. Len(s), NEW k \in 1 .. Len(s),
         s[j].type = 0, s[k].type = 0, s[j].val # s[k].val
  PROVE  s[j].val + SubMax <= s[k].val \/ s[k].val + SubMax <= s[j].val
<1>1. ASSUME NEW i \in 1 .. Len(s), NEW l \in 1 .. Len(s), s[i].type = 0, s[l].type = 0, i < l
      PROVE  s[i].val + SubMax <= s[l].val
  <2>0. 0 \in Nat
    OBVIOUS
  <2>1. l \in 1 .. Len(s) + 1
    BY <2>0, PodLen, Zenon
  <2>2. ps[i + 1] <= ps[l]
    BY <2>0, <2>1, <1>1, PlaceOrder, Zenon
  <2>3. PICK v : v = s[i].val
    BY Zenon
  <2>4. PICK w : w = s[l].val
    BY Zenon
  <2>5. PICK x : x = ps[i + 1]
    BY Zenon
  <2>6. PICK y : y = ps[l]
    BY Zenon
  <2>7. SubSpan(ps[i], v, x)
    BY <1>1, <2>3, <2>5, SubpodPlace, Zenon
  <2>8. SubSpan(y, w, ps[l + 1])
    BY <1>1, <2>4, <2>6, SubpodPlace, Zenon
  <2>9. x <= y
    BY <2>2, <2>5, <2>6, Zenon
  <2>10. v + SubMax <= w
    BY <2>7, <2>8, <2>9 DEF SubSpan
  <2> QED BY <2>3, <2>4, <2>10, Zenon
<1>2. j \in Nat /\ k \in Nat
  <2>1. Len(s) \in Nat
    <3>1. 0 \in Nat
      OBVIOUS
    <3> QED BY <3>1, PodLen, Zenon
  <2> QED BY <2>1
<1>3. j # k
  BY Zenon
<1>4. j < k \/ k < j
  BY <1>2, <1>3
<1> QED BY <1>1, <1>4, Zenon

\* The outermost pod stays as it is when only a subpod is written.
LEMMA RootKept ==
  ASSUME NEW m, NEW e, NEW s, NEW ps, PodAt(m, 0, s, ps), NEW k \in 1 .. Len(s),
         s[k].type = 0, Local(m, e, s[k].val)
  PROVE  PodAt(e, 0, s, ps)
<1>0. 0 \in Nat
  OBVIOUS
<1>1. PICK q : q = s[k].val
  BY Zenon
<1>2. PICK f : f = ps[k]
  BY Zenon
<1>3. PICK g : g = ps[k + 1]
  BY Zenon
<1>4. SubSpan(f, q, g) /\ ValPlace(ps[k], s[k]) = q
  <2>1. SubSpan(f, q, g)
    BY <1>1, <1>2, <1>3, SubpodPlace, Zenon
  <2>2. PairAt(m, ps[k], s[k])
    BY Zenon DEF PodAt
  <2> QED BY <1>1, <2>1, <2>2, Zenon DEF PairAt
<1>5. /\ f \in Nat /\ q \in Nat /\ g \in Nat /\ f <= q /\ q + SubMax = g
      /\ MaxOf(q) = SubMax /\ SubMax \in Nat
  BY <1>4 DEF SubSpan
<1>6. \A from, to \in Nat : to <= q \/ g <= from => Agree(m, e, from, to)
  BY <1>1, <1>5, Zenon DEF Local
<1>7. k \in 1 .. Len(s) + 1 /\ Len(s) \in Nat
  BY <1>0, PodLen, Zenon
<1>8. Agree(m, e, 0, ps[1])
  <2>1. PICK first : first = ps[1]
    BY Zenon
  <2>2. Between(first, f, ps[Len(s) + 1])
    BY <1>0, <1>2, <1>7, <2>1, PlaceIs, Zenon
  <2>3. first \in Nat /\ first <= q
    BY <1>5, <2>2 DEF Between
  <2> QED BY <1>0, <1>6, <2>1, <2>3, Zenon
<1>9. ASSUME NEW j \in 1 .. Len(s)
      PROVE  /\ Agree(m, e, ps[j], ValPlace(ps[j], s[j]))
             /\ s[j].type # 0 => Agree(m, e, ValPlace(ps[j], s[j]), ps[j + 1])
  <2>1. PICK x : x = ps[j]
    BY Zenon
  <2>2. PICK v : v = ValPlace(ps[j], s[j])
    BY Zenon
  <2>3. PICK y : y = ps[j + 1]
    BY Zenon
  <2>4. Span(x, v, ValSz(s[j]), y)
    BY <1>0, <2>1, <2>2, <2>3, PairPlace, Zenon
  <2>5. x \in Nat /\ v \in Nat /\ y \in Nat /\ x <= v /\ v <= y
    BY <2>4 DEF Span
  <2>6. j \in 1 .. Len(s) + 1
    BY <1>0, PodLen, Zenon
  <2>7. CASE j = k
    <3>1. v = q
      BY <1>4, <2>2, <2>7, Zenon
    <3>2. v <= q
      BY <1>5, <3>1
    <3>3. Agree(m, e, x, v)
      BY <1>6, <2>5, <3>2, Zenon
    <3> QED BY <2>1, <2>2, <2>7, <3>3, Zenon
  <2>8. CASE j < k
    <3>1. ps[j + 1] <= ps[k]
      BY <1>0, <1>7, <2>8, PlaceOrder, Zenon
    <3>2. y <= f
      BY <1>2, <2>3, <3>1, Zenon
    <3>3. v <= q /\ y <= q
      BY <1>5, <2>5, <3>2
    <3>4. Agree(m, e, x, v) /\ Agree(m, e, v, y)
      BY <1>6, <2>5, <3>3, Zenon
    <3> QED BY <2>1, <2>2, <2>3, <3>4, Zenon
  <2>9. CASE k < j
    <3>1. ps[k + 1] <= ps[j]
      BY <1>0, <2>6, <2>9, PlaceOrder, Zenon
    <3>2. g <= x
      BY <1>3, <2>1, <3>1, Zenon
    <3>3. g <= v
      BY <1>5, <2>5, <3>2
    <3>4. Agree(m, e, x, v) /\ Agree(m, e, v, y)
      BY <1>6, <2>5, <3>2, <3>3, Zenon
    <3> QED BY <2>1, <2>2, <2>3, <3>4, Zenon
  <2>10. j = k \/ j < k \/ k < j
    BY <1>7
  <2> QED BY <2>7, <2>8, <2>9, <2>10, Zenon
<1> QED BY <1>0, <1>8, <1>9, PodKept, Zenon

-----------------------------------------------------------------------------
(* The invariant of the pods                                                *)

\* Every pod that is alive is in memory, and those but the outermost are
\* vals of it.
Nested(prs) ==
  \A q \in DOMAIN prs \ {0} :
    \E k \in 1 .. Len(prs[0]) : prs[0][k].type = 0 /\ prs[0][k].val = q

Alive(m, prs, pos) ==
  /\ DOMAIN prs \in SUBSET Nat /\ 0 \in DOMAIN prs /\ Nested(prs)
  /\ \A b \in DOMAIN prs : PodAt(m, b, prs[b], pos[b])

\* The iterator has shown the pairs in front of it, or is in a pod where it
\* cannot find its way.
Shows == [key : Nat, type : Nat, sz : Nat, at : Nat]

IterOk(it, sn, prs, pos) ==
  \/ it = P!NoIter
  \/ \E b \in DOMAIN prs :
       /\ it = [pod |-> b, cursor |-> pos[b][Len(sn) + 1], stop |-> pos[b][Len(prs[b]) + 1]]
       /\ sn \in Seq(Shows) /\ Len(sn) <= Len(prs[b])
       /\ \A k \in 1 .. Len(sn) : sn[k] = Shown(prs[b][k], pos[b][k])
  \/ \E b \in DOMAIN prs :
       ~AllTell(prs[b]) /\ \E c, d : it = [pod |-> b, cursor |-> c, stop |-> d]

PodsInv ==
  /\ pod \in SUBSET Nat
  /\ \E pos : Alive(pod, pairs, pos) /\ IterOk(iter, seen, pairs, pos)

\* A pod in the outermost one is not the only one to be kept when it is
\* written.
LEMMA LocalKeeps ==
  ASSUME NEW m, NEW e, NEW prs, NEW pos, Alive(m, prs, pos), NEW b \in DOMAIN prs, b # 0,
         Local(m, e, b), NEW q \in DOMAIN prs, q # b
  PROVE  PodAt(e, q, prs[q], pos[q])
<1> DEFINE s == prs[0]  ps == pos[0]
<1>1. PodAt(m, 0, s, ps) /\ PodAt(m, q, prs[q], pos[q]) /\ q \in Nat /\ b \in Nat /\ Nested(prs)
  BY Zenon DEF Alive
<1>2. PICK k \in 1 .. Len(s) : s[k].type = 0 /\ s[k].val = b
  BY <1>1, Zenon DEF Nested
<1> HIDE DEF s, ps
<1>3. CASE q = 0
  <2>1. PodAt(e, 0, s, ps)
    BY <1>1, <1>2, RootKept, Zenon
  <2> QED BY <1>3, <2>1, Zenon DEF s, ps
<1>4. CASE q # 0
  <2>1. PICK j \in 1 .. Len(s) : s[j].type = 0 /\ s[j].val = q
    BY <1>1, <1>4, Zenon DEF Nested, s
  <2>2. q + SubMax <= b \/ b + SubMax <= q
    BY <1>1, <1>2, <2>1, SubpodsApart, Zenon
  <2>3. MaxOf(q) = SubMax /\ MaxOf(b) = SubMax /\ SubMax \in Nat
    <3>1. SubSpan(ps[j], q, ps[j + 1]) /\ SubSpan(ps[k], b, ps[k + 1])
      BY <1>1, <1>2, <2>1, SubpodPlace, Zenon
    <3> QED BY <3>1 DEF SubSpan
  <2>4. q + SubMax \in Nat
    BY <1>1, <2>3
  <2>5. Agree(m, e, q, q + SubMax)
    BY <1>1, <2>2, <2>3, <2>4, Zenon DEF Local
  <2>6. Agree(m, e, q, q + MaxOf(q))
    BY <2>3, <2>5, Zenon
  <2> QED BY <1>1, <2>6, WholeKept, Zenon
<1> QED BY <1>3, <1>4, Zenon

LEMMA RootWriteKeeps ==
  ASSUME NEW m, NEW e, NEW prs, NEW pos, Alive(m, prs, pos), NEW at \in Nat, NEW fin \in Nat,
         pos[0][Len(prs[0]) + 1] <= at, Within(m, e, 0, at, fin), NEW q \in DOMAIN prs, q # 0
  PROVE  PodAt(e, q, prs[q], pos[q])
<1> DEFINE s == prs[0]  ps == pos[0]
<1>0. 0 \in Nat
  OBVIOUS
<1>1. PodAt(m, 0, s, ps) /\ PodAt(m, q, prs[q], pos[q]) /\ q \in Nat /\ Nested(prs)
  BY Zenon DEF Alive
<1>2. PICK k \in 1 .. Len(s) : s[k].type = 0 /\ s[k].val = q
  BY <1>1, Zenon DEF Nested
<1>3. PICK last : last = ps[Len(s) + 1] /\ last <= at
  BY Zenon
<1> HIDE DEF s, ps
<1>4. PICK x : x = ps[k]
  BY Zenon
<1>5. PICK y : y = ps[k + 1]
  BY Zenon
<1>6. PICK first : first = ps[1]
  BY Zenon
<1>7. SubSpan(x, q, y)
  BY <1>1, <1>2, <1>4, <1>5, SubpodPlace, Zenon
<1>8. Between(first, x, last) /\ Between(first, y, last)
  <2>1. k \in 1 .. Len(s) + 1 /\ k + 1 \in 1 .. Len(s) + 1
    BY <1>0, <1>1, PodLen, Zenon
  <2> QED BY <1>0, <1>1, <1>3, <1>4, <1>5, <1>6, <2>1, PlaceIs, Zenon DEF s
<1>9. first = 0 + 3 * HdrSz(0)
  <2>1. ps[1] = 0 + 3 * HdrSz(0)
    BY <1>0, <1>1, FirstIs, Zenon
  <2> QED BY <1>6, <2>1, Zenon
<1>10. first <= q /\ y <= at /\ y \in Nat /\ y = q + SubMax /\ MaxOf(q) = SubMax
  BY <1>3, <1>7, <1>8 DEF SubSpan, Between
<1>11. Agree(m, e, q, y)
  BY <1>1, <1>9, <1>10, Zenon DEF Within
<1>12. Agree(m, e, q, q + MaxOf(q))
  BY <1>10, <1>11, Zenon
<1> QED BY <1>1, <1>12, WholeKept, Zenon

-----------------------------------------------------------------------------
(* The operations                                                           *)

LEMMA PodsStart ==
  ASSUME P!Init
  PROVE  PodsInv
<1>1. PICK g \in {{}, 0 .. 8 * RootMax - 1} : pod = P!NewAt(g, 0, RootMax)
  BY Zenon DEF P!Init
<1>2. pairs = [b \in {0} |-> <<>>] /\ iter = P!NoIter
  BY Zenon DEF P!Init
<1>3. g \in SUBSET Nat
  <2>1. RootMax \in Nat
    BY PodFacts, SizeWord, Zenon
  <2> QED BY <1>1, <2>1
<1>4. MaxOf(0) = RootMax /\ 0 \in Nat
  BY DEF MaxOf
<1> DEFINE pos == [b \in {0} |-> <<0 + 3 * HdrSz(0)>>]
<1>5. pod \in SUBSET Nat /\ HeaderAt(pod, 0, 3 * HdrSz(0), 0)
  <2>1. pod = P!NewAt(g, 0, MaxOf(0))
    BY <1>1, <1>4, Zenon
  <2> QED BY <1>3, <1>4, <2>1, NewWritten, Zenon
<1>6. PodAt(pod, 0, <<>>, <<0 + 3 * HdrSz(0)>>)
  BY <1>4, <1>5, EmptyPod, Zenon
<1>7. DOMAIN pairs = {0} /\ pairs[0] = <<>> /\ pos[0] = <<0 + 3 * HdrSz(0)>>
  BY <1>2
<1> HIDE DEF pos
<1>8. DOMAIN pairs \in SUBSET Nat /\ 0 \in DOMAIN pairs /\ DOMAIN pairs \ {0} = {}
  BY <1>7
<1>9. Nested(pairs)
  BY <1>8, Zenon DEF Nested
<1>10. Alive(pod, pairs, pos)
  <2>1. \A b \in DOMAIN pairs : b = 0
    BY <1>7
  <2> QED BY <1>6, <1>7, <1>8, <1>9, <2>1, Zenon DEF Alive
<1> QED BY <1>2, <1>5, <1>10, Zenon DEF PodsInv, IterOk

\* What an insert needs of the pair.
LEMMA InputIs ==
  ASSUME NEW key \in Keys, NEW in \in Inputs
  PROVE  LET p == [key |-> key, type |-> in.type, val |-> in.val] IN
         /\ Inserted(p) /\ p.type # 0 /\ p.key = key /\ p.type = in.type /\ p.val = in.val
         /\ ValSz(p) = P!EncVal(in.type, in.val).sz
<1> DEFINE p == [key |-> key, type |-> in.type, val |-> in.val]
<1>1. p.key = key /\ p.type = in.type /\ p.val = in.val
  OBVIOUS
<1>2. P!IsInput(in.type, in.val) /\ P!EncVal(in.type, in.val).sz \in Nat
  BY PodFacts, SizeWord, Zenon
<1>3. in.type \in 1 .. 13
  BY <1>2, ValRead, Zenon
<1>4. in.type \in 0 .. 13 /\ in.type # 0
  BY <1>3
<1>5. p \in Entry
  BY <1>4 DEF Entry
<1> HIDE DEF p
<1>6. Inserted(p)
  BY <1>1, <1>4, <1>5, Zenon DEF Inserted
<1>7. ValSz(p) = P!EncVal(in.type, in.val).sz
  BY <1>1, <1>4, Zenon DEF ValSz
<1> QED BY <1>1, <1>4, <1>6, <1>7, Zenon DEF p

LEMMA InsertKeeps ==
  ASSUME PodsInv, NEW b \in DOMAIN pairs, NEW key \in Keys, NEW in \in Inputs,
         P!Insert(b, key, in.type, in.val)
  PROVE  PodsInv'
<1> DEFINE x == P!EncVal(in.type, in.val)
           p == [key |-> key, type |-> in.type, val |-> in.val]
           s == pairs[b]
<1>1. /\ P!Room4(pod, b, key, x.sz)
      /\ pod' = P!Store(P!Alloc(pod, b, key, in.type, x.sz), P!ValAt(pod, b, x.sz), x.sz, x.w)
      /\ pairs' = [pairs EXCEPT ![b] = Append(@, p)] /\ iter' = P!NoIter
  BY Zenon DEF P!Insert
<1>2. PICK pos : Alive(pod, pairs, pos)
  BY Zenon DEF PodsInv
<1> DEFINE ps == pos[b]
<1>3. /\ pod \in SUBSET Nat /\ b \in Nat /\ PodAt(pod, b, s, ps) /\ DOMAIN pairs \in SUBSET Nat
      /\ 0 \in DOMAIN pairs /\ Nested(pairs)
      /\ \A q \in DOMAIN pairs : PodAt(pod, q, pairs[q], pos[q])
  BY <1>2, Zenon DEF PodsInv, Alive
<1>4. /\ DOMAIN pairs' = DOMAIN pairs /\ pairs'[b] = Append(s, p)
      /\ \A q \in DOMAIN pairs : q # b => pairs'[q] = pairs[q]
  BY <1>1
<1>5. /\ Inserted(p) /\ p.type # 0 /\ p.key = key /\ p.type = in.type /\ p.val = in.val
      /\ ValSz(p) = x.sz
  BY InputIs, Zenon
<1> HIDE DEF p
<1>6. pod' \in SUBSET Nat /\ \E fin \in Nat :
        /\ PodAt(pod', b, Append(s, p), Append(ps, fin))
        /\ ps[Len(s) + 1] <= fin /\ fin <= b + MaxOf(b)
        /\ Within(pod, pod', b, ps[Len(s) + 1], fin)
  <2> DEFINE y == P!EncVal(p.type, p.val)
             e == P!Store(P!Alloc(pod, b, p.key, p.type, y.sz), P!ValAt(pod, b, y.sz), y.sz, y.w)
  <2>1. P!Room4(pod, b, p.key, ValSz(p))
    BY <1>1, <1>5, Zenon
  <2> HIDE DEF s, ps
  <2>2. e \in SUBSET Nat /\ \E fin \in Nat :
          /\ PodAt(e, b, Append(s, p), Append(ps, fin))
          /\ ps[Len(s) + 1] <= fin /\ fin <= b + MaxOf(b)
          /\ Within(pod, e, b, ps[Len(s) + 1], fin)
    BY <1>3, <1>5, <2>1, InsertWritten, Zenon
  <2>3. pod' = e
    BY <1>1, <1>5, Zenon
  <2> QED BY <2>2, <2>3, Zenon
<1>7. PICK fin \in Nat :
        /\ PodAt(pod', b, Append(s, p), Append(ps, fin))
        /\ ps[Len(s) + 1] <= fin /\ fin <= b + MaxOf(b)
        /\ Within(pod, pod', b, ps[Len(s) + 1], fin)
  BY <1>6, Zenon
<1>8. PICK at \in Nat : at = ps[Len(s) + 1] /\ b <= at
  <2>1. P!IsSize(x.sz)
    BY <1>5, EntryFacts, Zenon
  <2> HIDE DEF s, ps
  <2> QED BY <1>1, <1>3, <2>1, RoomIs, Zenon
<1>9. \A q \in DOMAIN pairs : q # b => PodAt(pod', q, pairs[q], pos[q])
  <2>1. CASE b = 0
    <3>1. Within(pod, pod', 0, at, fin)
      BY <1>7, <1>8, <2>1, Zenon
    <3>2. pos[0][Len(pairs[0]) + 1] <= at
      <4>1. pos[0][Len(pairs[0]) + 1] = at
        BY <1>8, <2>1, Zenon
      <4> QED BY <4>1
    <3> HIDE DEF s, ps
    <3> QED BY <1>2, <2>1, <3>1, <3>2, RootWriteKeeps, Zenon
  <2>2. CASE b # 0
    <3>1. Local(pod, pod', b)
      BY <1>3, <1>7, <1>8, WithinLocal, Zenon
    <3> QED BY <1>2, <2>2, <3>1, LocalKeeps, Zenon
  <2> QED BY <2>1, <2>2, Zenon
<1> DEFINE new == [q \in DOMAIN pairs |-> IF q = b THEN Append(ps, fin) ELSE pos[q]]
<1>10. \A q \in DOMAIN pairs' : PodAt(pod', q, pairs'[q], new[q])
  BY <1>4, <1>7, <1>9, Zenon
<1>11. Nested(pairs')
  <2> SUFFICES ASSUME NEW q \in DOMAIN pairs \ {0}
               PROVE  \E k \in 1 .. Len(pairs'[0]) :
                        pairs'[0][k].type = 0 /\ pairs'[0][k].val = q
    BY <1>4, Zenon DEF Nested
  <2>1. PICK k \in 1 .. Len(pairs[0]) : pairs[0][k].type = 0 /\ pairs[0][k].val = q
    BY <1>3, Zenon DEF Nested
  <2>2. CASE b = 0
    <3>1. s \in Seq(Entry) /\ p \in Entry
      BY <1>3, <1>5, Zenon DEF PodAt, Inserted
    <3> HIDE DEF s
    <3>2. k \in 1 .. Len(s) => k \in 1 .. Len(Append(s, p)) /\ Append(s, p)[k] = s[k]
      BY <3>1
    <3> QED BY <1>4, <2>1, <2>2, <3>2, Zenon DEF s
  <2>3. CASE b # 0
    BY <1>3, <1>4, <2>1, <2>3, Zenon
  <2> QED BY <2>2, <2>3, Zenon
<1> HIDE DEF new
<1>12. Alive(pod', pairs', new)
  BY <1>3, <1>4, <1>10, <1>11, Zenon DEF Alive
<1> QED BY <1>1, <1>6, <1>12, Zenon DEF PodsInv, IterOk

LEMMA SubpodKeeps ==
  ASSUME PodsInv, NEW b \in DOMAIN pairs, NEW key \in Keys, P!AllocSubpod(b, key)
  PROVE  PodsInv'
<1> DEFINE v == P!ValAt(pod, b, SubMax)
           p == [key |-> key, type |-> 0, val |-> v]
           s == pairs[b]
<1>1. /\ P!Room4(pod, b, key, SubMax)
      /\ pod' = P!NewAt(P!Alloc(pod, b, key, 0, SubMax), v, SubMax)
      /\ pairs' = [q \in DOMAIN pairs \cup {v} |->
                     CASE q = b -> Append(s, p) [] q = v -> <<>> [] OTHER -> pairs[q]]
      /\ iter' = P!NoIter
  BY Zenon DEF P!AllocSubpod, P!SUBPOD
<1>2. PICK pos : Alive(pod, pairs, pos)
  BY Zenon DEF PodsInv
<1> DEFINE ps == pos[b]
<1>3. /\ pod \in SUBSET Nat /\ b \in Nat /\ PodAt(pod, b, s, ps) /\ DOMAIN pairs \in SUBSET Nat
      /\ Nested(pairs)
  BY <1>2, Zenon DEF PodsInv, Alive
<1>4. b = 0
  <2> HIDE DEF s, ps
  <2> QED BY <1>1, <1>3, NoSubSubpod, Zenon
<1>5. /\ pod' \in SUBSET Nat /\ v \in Nat \ {0} /\ p \in Entry
      /\ PodAt(pod', v, <<>>, <<v + 3 * HdrSz(v)>>)
      /\ \E fin \in Nat :
           /\ PodAt(pod', b, Append(s, p), Append(ps, fin))
           /\ ps[Len(s) + 1] <= v /\ v + SubMax <= fin /\ fin <= b + MaxOf(b)
           /\ Within(pod, pod', b, ps[Len(s) + 1], fin)
  <2> DEFINE e == P!NewAt(P!Alloc(pod, b, key, 0, SubMax), v, SubMax)
  <2> HIDE DEF s, ps
  <2>1. /\ e \in SUBSET Nat /\ v \in Nat \ {0} /\ p \in Entry
        /\ PodAt(e, v, <<>>, <<v + 3 * HdrSz(v)>>)
        /\ \E fin \in Nat :
             /\ PodAt(e, b, Append(s, p), Append(ps, fin))
             /\ ps[Len(s) + 1] <= v /\ v + SubMax <= fin /\ fin <= b + MaxOf(b)
             /\ Within(pod, e, b, ps[Len(s) + 1], fin)
    BY <1>1, <1>3, SubpodWritten, Zenon
  <2>2. pod' = e
    BY <1>1, Zenon
  <2> QED BY <2>1, <2>2, Zenon
<1> HIDE DEF v
<1>6. PICK fin \in Nat :
        /\ PodAt(pod', b, Append(s, p), Append(ps, fin))
        /\ Within(pod, pod', b, ps[Len(s) + 1], fin)
  BY <1>5, Zenon
<1>7. /\ DOMAIN pairs' = DOMAIN pairs \cup {v} /\ pairs'[b] = Append(s, p)
      /\ v # b /\ pairs'[v] = <<>>
      /\ \A q \in DOMAIN pairs' : q # b /\ q # v => q \in DOMAIN pairs /\ pairs'[q] = pairs[q]
  <2>1. v # b
    BY <1>4, <1>5
  <2> HIDE DEF p, s
  <2> QED BY <1>1, <2>1
<1>8. p.type = 0 /\ p.val = v
  OBVIOUS
<1> HIDE DEF p
<1>9. PICK at \in Nat : at = ps[Len(s) + 1]
  <2>1. P!IsSize(SubMax)
    BY PodFacts, Zenon
  <2> HIDE DEF s, ps
  <2> QED BY <1>1, <1>3, <2>1, RoomIs, Zenon
<1>10. \A q \in DOMAIN pairs : q # 0 => PodAt(pod', q, pairs[q], pos[q])
  <2>1. Within(pod, pod', 0, at, fin)
    BY <1>4, <1>6, <1>9, Zenon
  <2>2. pos[0][Len(pairs[0]) + 1] <= at
    <3>1. pos[0][Len(pairs[0]) + 1] = at
      BY <1>4, <1>9, Zenon
    <3> QED BY <3>1
  <2> HIDE DEF s, ps
  <2> QED BY <1>2, <2>1, <2>2, RootWriteKeeps, Zenon
<1> DEFINE of == [q \in DOMAIN pairs \cup {v} |->
                    IF q = b THEN Append(ps, fin)
                    ELSE IF q = v THEN <<v + 3 * HdrSz(v)>> ELSE pos[q]]
<1>11. PICK new : new = of
  BY Zenon
<1>12. /\ new[b] = Append(ps, fin) /\ new[v] = <<v + 3 * HdrSz(v)>>
       /\ \A q \in DOMAIN pairs' : q # b /\ q # v => new[q] = pos[q]
  <2>1. b \in DOMAIN pairs \cup {v} /\ v \in DOMAIN pairs \cup {v}
    BY Zenon
  <2> QED BY <1>7, <1>11, <2>1, Zenon
<1> HIDE DEF of
<1>13. \A q \in DOMAIN pairs' : PodAt(pod', q, pairs'[q], new[q])
  <2> SUFFICES ASSUME NEW q \in DOMAIN pairs' PROVE PodAt(pod', q, pairs'[q], new[q])
    BY Zenon
  <2>1. CASE q = b
    BY <1>6, <1>7, <1>12, <2>1, Zenon
  <2>2. CASE q = v
    BY <1>5, <1>7, <1>12, <2>2, Zenon
  <2>3. CASE q # b /\ q # v
    BY <1>4, <1>7, <1>10, <1>12, <2>3, Zenon
  <2> QED BY <2>1, <2>2, <2>3, Zenon
<1>14. Nested(pairs')
  <2>0. PICK t : t = Append(s, p) /\ pairs'[0] = t
    <3>1. pairs'[0] = Append(s, p)
      BY <1>4, <1>7, Zenon
    <3> HIDE DEF s
    <3> QED BY <3>1, Zenon
  <2> SUFFICES ASSUME NEW q \in DOMAIN pairs' \ {0}
               PROVE  \E k \in 1 .. Len(t) : t[k].type = 0 /\ t[k].val = q
    BY <2>0, Zenon DEF Nested
  <2>1. s \in Seq(Entry) /\ p \in Entry
    BY <1>3, <1>5, Zenon DEF PodAt
  <2> HIDE DEF s
  <2>2. /\ Len(t) \in 1 .. Len(t) /\ t[Len(t)] = p
        /\ \A k \in 1 .. Len(s) : k \in 1 .. Len(t) /\ t[k] = s[k]
    BY <2>0, <2>1
  <2>3. CASE q = v
    BY <1>8, <2>2, <2>3, Zenon
  <2>4. CASE q # v
    <3>1. PICK k \in 1 .. Len(s) : s[k].type = 0 /\ s[k].val = q
      <4>1. q \in DOMAIN pairs \ {0}
        BY <1>4, <1>7, <2>4, Zenon
      <4>2. \E k \in 1 .. Len(pairs[0]) : pairs[0][k].type = 0 /\ pairs[0][k].val = q
        BY <1>3, <4>1, Zenon DEF Nested
      <4> QED BY <1>4, <4>2, Zenon DEF s
    <3> QED BY <2>2, <3>1, Zenon
  <2> QED BY <2>3, <2>4, Zenon
<1>15. Alive(pod', pairs', new)
  <2>1. DOMAIN pairs' \in SUBSET Nat /\ 0 \in DOMAIN pairs'
    BY <1>3, <1>4, <1>5, <1>7
  <2> QED BY <1>13, <1>14, <2>1, Zenon DEF Alive
<1> QED BY <1>1, <1>5, <1>15, Zenon DEF PodsInv, IterOk

LEMMA ResetKeeps ==
  ASSUME PodsInv, NEW b \in DOMAIN pairs, P!Reset(b)
  PROVE  PodsInv'
<1> DEFINE s == pairs[b]
           keeps(q) == ~(b < q /\ q < b + P!PodMax(pod, b))
<1>1. /\ pod' = P!ResetAt(pod, b) /\ iter' = P!NoIter
      /\ pairs' = [q \in {r \in DOMAIN pairs : keeps(r)} |-> IF q = b THEN <<>> ELSE pairs[q]]
  BY Zenon DEF P!Reset
<1>2. PICK pos : Alive(pod, pairs, pos)
  BY Zenon DEF PodsInv
<1> DEFINE ps == pos[b]
<1>3. /\ pod \in SUBSET Nat /\ b \in Nat /\ PodAt(pod, b, s, ps) /\ DOMAIN pairs \in SUBSET Nat
      /\ 0 \in DOMAIN pairs /\ Nested(pairs)
      /\ \A q \in DOMAIN pairs : PodAt(pod, q, pairs[q], pos[q])
  BY <1>2, Zenon DEF PodsInv, Alive
<1>4. P!PodMax(pod, b) = MaxOf(b)
  <2> HIDE DEF s, ps
  <2> QED BY <1>3, PodRead
<1>5. /\ pod' \in SUBSET Nat /\ Changes(pod', pod, b, b + 3 * HdrSz(b))
      /\ PodAt(pod', b, <<>>, <<b + 3 * HdrSz(b)>>)
  <2> DEFINE e == P!ResetAt(pod, b)
  <2> HIDE DEF s, ps
  <2>1. /\ e \in SUBSET Nat /\ Changes(e, pod, b, b + 3 * HdrSz(b))
        /\ PodAt(e, b, <<>>, <<b + 3 * HdrSz(b)>>)
    BY <1>3, ResetWritten, Zenon
  <2>2. pod' = e
    BY <1>1, Zenon
  <2> QED BY <2>1, <2>2, Zenon
<1>6. b \in DOMAIN pairs' /\ 0 \in DOMAIN pairs' /\ DOMAIN pairs' \in SUBSET (DOMAIN pairs)
      /\ pairs'[b] = <<>> /\ \A q \in DOMAIN pairs' : keeps(q) /\ (q # b => pairs'[q] = pairs[q])
  <2>1. ~(b < b) /\ ~(b < 0)
    BY <1>3
  <2>2. DOMAIN pairs' = {r \in DOMAIN pairs : keeps(r)}
    BY <1>1, Zenon
  <2>3. b \in {r \in DOMAIN pairs : keeps(r)} /\ 0 \in {r \in DOMAIN pairs : keeps(r)}
    BY <1>3, <2>1, Zenon
  <2>4. \A q \in {r \in DOMAIN pairs : keeps(r)} : pairs'[q] = IF q = b THEN <<>> ELSE pairs[q]
    BY <1>1, Zenon
  <2> QED BY <2>2, <2>3, <2>4, Zenon
<1> HIDE DEF s, ps
<1>7. Nested(pairs') /\ \A q \in DOMAIN pairs' : q # b => PodAt(pod', q, pairs'[q], pos[q])
  <2>1. CASE b = 0
    <3>1. ASSUME NEW q \in DOMAIN pairs' PROVE q = 0
      <4> SUFFICES ASSUME q # 0 PROVE FALSE
        OBVIOUS
      <4> DEFINE t == pairs[0]  ts == pos[0]
      <4>1. PodAt(pod, 0, t, ts) /\ 0 \in Nat /\ q \in Nat \ {0}
        BY <1>3, <1>6
      <4>2. PICK k \in 1 .. Len(t) : t[k].type = 0 /\ t[k].val = q
        BY <1>3, <1>6, Zenon DEF Nested
      <4> HIDE DEF t, ts
      <4>3. PICK y : y = ts[k + 1]
        BY Zenon
      <4>4. SubSpan(ts[k], q, y)
        BY <4>1, <4>2, <4>3, SubpodPlace, Zenon
      <4>5. PICK last : last = ts[Len(t) + 1]
        BY Zenon
      <4>6. Between(ts[1], y, last)
        <5>1. k + 1 \in 1 .. Len(t) + 1
          BY <4>1, PodLen, Zenon
        <5> QED BY <4>1, <4>3, <4>5, <5>1, PlaceIs, Zenon
      <4>7. PICK max \in Nat : max = MaxOf(0)
        BY HdrFacts, Zenon
      <4>8. last <= 0 + max
        BY <4>1, <4>5, <4>7, PodLen, Zenon
      <4>9. 0 < q /\ q < 0 + max
        BY <4>1, <4>4, <4>6, <4>8 DEF SubSpan, Between
      <4>10. 0 < q /\ q < b + P!PodMax(pod, b)
        BY <1>4, <2>1, <4>7, <4>9, Zenon
      <4> QED BY <1>6, <2>1, <4>10, Zenon
    <3> QED BY <2>1, <3>1, Zenon DEF Nested
  <2>2. CASE b # 0
    <3>1. Local(pod, pod', b)
      BY <1>3, <1>5, ChangesLocal, Zenon
    <3>2. \A q \in DOMAIN pairs' : q # b => PodAt(pod', q, pairs[q], pos[q])
      BY <1>2, <1>6, <2>2, <3>1, LocalKeeps, Zenon
    <3>3. pairs'[0] = pairs[0]
      BY <1>6, <2>2, Zenon
    <3> QED BY <1>3, <1>6, <3>2, <3>3, Zenon DEF Nested
  <2> QED BY <2>1, <2>2, Zenon
<1> DEFINE of == [q \in DOMAIN pairs |-> IF q = b THEN <<b + 3 * HdrSz(b)>> ELSE pos[q]]
<1>8. PICK new : new = of
  BY Zenon
<1>9. \A q \in DOMAIN pairs' : PodAt(pod', q, pairs'[q], new[q])
  <2>1. new[b] = <<b + 3 * HdrSz(b)>> /\ \A q \in DOMAIN pairs' : q # b => new[q] = pos[q]
    BY <1>6, <1>8, Zenon
  <2> QED BY <1>5, <1>6, <1>7, <2>1, Zenon
<1>10. DOMAIN pairs' \in SUBSET Nat
  BY <1>3, <1>6
<1>11. Alive(pod', pairs', new)
  BY <1>6, <1>7, <1>9, <1>10, Zenon DEF Alive
<1> QED BY <1>1, <1>5, <1>11, Zenon DEF PodsInv, IterOk

-----------------------------------------------------------------------------
(* Iterations                                                               *)

LEMMA ShownType ==
  ASSUME NEW m, NEW b \in Nat, NEW s, NEW ps, PodAt(m, b, s, ps), NEW k \in 1 .. Len(s)
  PROVE  Shown(s[k], ps[k]) \in Shows
<1>1. Inserted(s[k])
  BY Zenon DEF PodAt
<1>2. s[k].key \in 1 .. 255 /\ s[k].type \in 0 .. 13
  BY <1>1, EntryFacts, ZenonT(30)
<1>3. PICK z : z = ValSz(s[k])
  BY Zenon
<1>4. PICK v : v = ValPlace(ps[k], s[k])
  BY Zenon
<1>5. PICK y : y = ps[k + 1]
  BY Zenon
<1>6. Span(ps[k], v, z, y)
  BY <1>3, <1>4, <1>5, PairPlace, Zenon
<1>7. s[k].key \in Nat /\ s[k].type \in Nat /\ z \in Nat /\ v \in Nat
  <2>1. z \in Nat /\ v \in Nat
    BY <1>6, Zenon DEF Span
  <2>2. 1 .. 255 \in SUBSET Nat /\ 0 .. 13 \in SUBSET Nat
    OBVIOUS
  <2> QED BY <1>2, <2>1, <2>2, Zenon
<1>8. [key |-> s[k].key, type |-> s[k].type, sz |-> z, at |-> v] \in Shows
  BY <1>7 DEF Shows
<1> QED BY <1>3, <1>4, <1>8, Zenon DEF Shown

LEMMA IterInitKeeps ==
  ASSUME PodsInv, NEW b \in DOMAIN pairs, P!IterInit(b)
  PROVE  PodsInv'
<1> DEFINE s == pairs[b]
<1>1. /\ iter' = [pod |-> b, cursor |-> P!First(pod, b), stop |-> P!Stop(pod, b)]
      /\ seen' = <<>> /\ pod' = pod /\ pairs' = pairs
  BY Zenon DEF P!IterInit
<1>2. PICK pos : Alive(pod, pairs, pos)
  BY Zenon DEF PodsInv
<1> DEFINE ps == pos[b]
<1>3. pod \in SUBSET Nat /\ b \in Nat /\ PodAt(pod, b, s, ps)
  BY <1>2, Zenon DEF PodsInv, Alive
<1> HIDE DEF s, ps
<1>4. P!First(pod, b) = ps[1] /\ P!Stop(pod, b) = ps[Len(s) + 1]
  BY <1>3, PodRead
<1>5. Len(s) \in Nat
  BY <1>3, PodLen, Zenon
<1>6. /\ seen' \in Seq(Shows) /\ Len(seen') = 0 /\ Len(seen') <= Len(s)
      /\ Len(seen') + 1 = 1 /\ \A k \in 1 .. Len(seen') : FALSE
  BY <1>1, <1>5
<1>7. iter' = [pod |-> b, cursor |-> ps[Len(seen') + 1], stop |-> ps[Len(s) + 1]]
  BY <1>1, <1>4, <1>6, Zenon
<1>8. IterOk(iter', seen', pairs, pos)
  BY <1>6, <1>7, Zenon DEF IterOk, s, ps
<1> QED BY <1>1, <1>2, <1>3, <1>8, Zenon DEF PodsInv

\* A cursor is behind all pairs when n of them are in front of it.
DoneWhen(n, s, ps) == ps[n + 1] >= ps[Len(s) + 1] <=> n = Len(s)

\* What an iterator that is not done shows next.
LEMMA CursorIs ==
  ASSUME NEW m \in SUBSET Nat, NEW b \in Nat, NEW s, NEW ps, PodAt(m, b, s, ps),
         NEW n \in Nat, n <= Len(s)
  PROVE  DoneWhen(n, s, ps) /\ (n # Len(s) => n + 1 \in 1 .. Len(s))
<1>1. Len(s) \in Nat
  BY PodLen, Zenon
<1>2. n + 1 \in 1 .. Len(s) + 1 /\ (n # Len(s) => n + 1 \in 1 .. Len(s) /\ n + 1 < Len(s) + 1)
      /\ Len(s) + 1 \in 1 .. Len(s) + 1
  BY <1>1
<1>3. ASSUME n # Len(s)
      PROVE  ~(ps[n + 1] >= ps[Len(s) + 1])
  <2>1. PICK k \in 1 .. Len(s) : k = n + 1
    BY <1>2, <1>3, Zenon
  <2>2. PICK x : x = ps[k]
    BY Zenon
  <2>3. PICK y : y = ps[k + 1]
    BY Zenon
  <2>4. PICK last : last = ps[Len(s) + 1]
    BY Zenon
  <2>5. Span(x, ValPlace(ps[k], s[k]), ValSz(s[k]), y)
    BY <2>2, <2>3, PairPlace, Zenon
  <2>6. Between(ps[1], y, last)
    <3>1. k + 1 \in 1 .. Len(s) + 1
      BY PodLen, Zenon
    <3> QED BY <2>3, <2>4, <3>1, PlaceIs, Zenon
  <2>7. ~(x >= last)
    BY <2>5, <2>6 DEF Span, Between
  <2> QED BY <2>1, <2>2, <2>4, <2>7, Zenon
<1>4. n = Len(s) => ps[n + 1] >= ps[Len(s) + 1]
  <2> SUFFICES ASSUME n = Len(s) PROVE ps[Len(s) + 1] >= ps[Len(s) + 1]
    BY Zenon
  <2>1. PICK last : last = ps[Len(s) + 1]
    BY Zenon
  <2>2. Between(ps[1], last, last)
    BY <1>2, <2>1, PlaceIs, Zenon
  <2>3. last >= last
    BY <2>2 DEF Between
  <2> QED BY <2>1, <2>3, Zenon
<1> QED BY <1>2, <1>3, <1>4, Zenon DEF DoneWhen

\* An iterator that is not done is in a pod.
LEMMA IterIn ==
  ASSUME NEW pos, IterOk(iter, seen, pairs, pos), iter # P!NoIter,
         iter.pod \in DOMAIN pairs => AllTell(pairs[iter.pod])
  PROVE  \E b \in DOMAIN pairs :
           /\ iter.pod = b /\ iter.cursor = pos[b][Len(seen) + 1]
           /\ iter.stop = pos[b][Len(pairs[b]) + 1]
           /\ iter = [pod |-> b, cursor |-> pos[b][Len(seen) + 1],
                      stop |-> pos[b][Len(pairs[b]) + 1]]
           /\ seen \in Seq(Shows) /\ Len(seen) <= Len(pairs[b])
           /\ \A k \in 1 .. Len(seen) : seen[k] = Shown(pairs[b][k], pos[b][k])
<1>0. ASSUME NEW b \in DOMAIN pairs, ~AllTell(pairs[b]), NEW c, NEW d,
             iter = [pod |-> b, cursor |-> c, stop |-> d]
      PROVE  FALSE
  <2>1. iter.pod = b
    BY <1>0
  <2> QED BY <1>0, <2>1, Zenon
<1>1. PICK b \in DOMAIN pairs :
        /\ iter = [pod |-> b, cursor |-> pos[b][Len(seen) + 1],
                   stop |-> pos[b][Len(pairs[b]) + 1]]
        /\ seen \in Seq(Shows) /\ Len(seen) <= Len(pairs[b])
        /\ \A k \in 1 .. Len(seen) : seen[k] = Shown(pairs[b][k], pos[b][k])
  BY <1>0, Zenon DEF IterOk
<1>2. iter.pod = b /\ iter.cursor = pos[b][Len(seen) + 1] /\ iter.stop = pos[b][Len(pairs[b]) + 1]
  BY <1>1
<1> QED BY <1>1, <1>2, Zenon

LEMMA IterNextKeeps ==
  ASSUME PodsInv, P!IterNext
  PROVE  PodsInv'
<1>1. /\ ~(iter.cursor >= iter.stop) /\ seen' = Append(seen, P!Info(pod, iter.cursor))
      /\ iter' = [iter EXCEPT !.cursor = P!Skip(pod, iter.cursor)]
      /\ pod' = pod /\ pairs' = pairs
  BY Zenon DEF P!IterNext, P!IterDone
<1>2. PICK pos : Alive(pod, pairs, pos) /\ IterOk(iter, seen, pairs, pos)
  BY Zenon DEF PodsInv
<1>3. iter # P!NoIter
  <2> SUFFICES ASSUME iter = P!NoIter PROVE FALSE
    BY Zenon
  <2>1. iter.cursor = 0 /\ iter.stop = 0
    BY DEF P!NoIter
  <2> QED BY <1>1, <2>1
<1>18. ASSUME ~(iter.pod \in DOMAIN pairs => AllTell(pairs[iter.pod]))
       PROVE  PodsInv'
  <2>1. PICK b : b = iter.pod
    BY Zenon
  <2>2. PICK c, d : iter = [pod |-> b, cursor |-> c, stop |-> d]
    <3>1. \E a, c, d : iter = [pod |-> a, cursor |-> c, stop |-> d]
      BY <1>2, <1>3, Zenon DEF IterOk
    <3>2. PICK a, c, d : iter = [pod |-> a, cursor |-> c, stop |-> d]
      BY <3>1, Zenon
    <3>3. iter.pod = a
      BY <3>2
    <3> QED BY <2>1, <3>2, <3>3, Zenon
  <2>3. PICK behind : behind = P!Skip(pod, iter.cursor)
    BY Zenon
  <2>4. iter' = [iter EXCEPT !.cursor = behind]
    BY <1>1, <2>3, Zenon
  <2>5. iter' = [pod |-> b, cursor |-> behind, stop |-> d]
    BY <2>2, <2>4
  <2>6. b \in DOMAIN pairs /\ ~AllTell(pairs[b])
    BY <1>18, <2>1, Zenon
  <2>7. IterOk(iter', seen', pairs, pos)
    BY <2>5, <2>6, Zenon DEF IterOk
  <2>8. pod \in SUBSET Nat
    BY Zenon DEF PodsInv
  <2> QED BY <1>1, <1>2, <2>7, <2>8, Zenon DEF PodsInv
<1> SUFFICES ASSUME iter.pod \in DOMAIN pairs => AllTell(pairs[iter.pod])
             PROVE  PodsInv'
  BY <1>18, Zenon
<1>4. PICK b \in DOMAIN pairs :
        /\ iter.pod = b /\ iter.cursor = pos[b][Len(seen) + 1]
        /\ iter.stop = pos[b][Len(pairs[b]) + 1]
        /\ iter = [pod |-> b, cursor |-> pos[b][Len(seen) + 1],
                   stop |-> pos[b][Len(pairs[b]) + 1]]
        /\ seen \in Seq(Shows) /\ Len(seen) <= Len(pairs[b])
        /\ \A k \in 1 .. Len(seen) : seen[k] = Shown(pairs[b][k], pos[b][k])
  BY <1>2, <1>3, IterIn, Zenon
<1> DEFINE s == pairs[b]  ps == pos[b]
<1>5. pod \in SUBSET Nat /\ b \in Nat /\ PodAt(pod, b, s, ps)
  BY <1>2, Zenon DEF PodsInv, Alive
<1>6. PICK n \in Nat : n = Len(seen)
  BY <1>4
<1>7. n <= Len(s)
  BY <1>4, <1>6, Zenon
<1>8. ~(ps[n + 1] >= ps[Len(s) + 1])
  BY <1>1, <1>4, <1>6, Zenon
<1> HIDE DEF s, ps
<1>9. PICK k \in 1 .. Len(s) : k = n + 1
  BY <1>5, <1>7, <1>8, CursorIs, Zenon DEF DoneWhen
<1>19. AllTell(s)
  BY <1>4, Zenon DEF s
<1>10. P!Info(pod, ps[k]) = Shown(s[k], ps[k]) /\ P!Skip(pod, ps[k]) = ps[k + 1]
  BY <1>5, <1>19, PairRead
<1>11. Shown(s[k], ps[k]) \in Shows
  BY <1>5, ShownType, Zenon
<1>12. iter.cursor = ps[k]
  BY <1>4, <1>6, <1>9, Zenon DEF ps
<1>13. seen' = Append(seen, Shown(s[k], ps[k]))
  BY <1>1, <1>10, <1>12, Zenon
<1>14. /\ seen' \in Seq(Shows) /\ Len(seen') = k /\ k <= Len(s)
       /\ seen'[k] = Shown(s[k], ps[k])
       /\ \A i \in 1 .. k : i = k \/ (i \in 1 .. Len(seen) /\ seen'[i] = seen[i])
  <2>1. PICK x \in Shows : x = Shown(s[k], ps[k])
    BY <1>11, Zenon
  <2>2. seen \in Seq(Shows) /\ Len(seen) + 1 = k
    BY <1>4, <1>6, <1>9, Zenon
  <2>3. seen' = Append(seen, x)
    BY <1>13, <2>1, Zenon
  <2>4. /\ seen' \in Seq(Shows) /\ Len(seen') = k /\ seen'[k] = x
        /\ \A i \in 1 .. k : i = k \/ (i \in 1 .. Len(seen) /\ seen'[i] = seen[i])
    BY <2>2, <2>3
  <2>5. k <= Len(s)
    BY <1>5, PodLen
  <2> QED BY <2>1, <2>4, <2>5, Zenon
<1>15. \A i \in 1 .. Len(seen') : seen'[i] = Shown(s[i], ps[i])
  <2>1. \A i \in 1 .. Len(seen) : seen[i] = Shown(s[i], ps[i])
    BY <1>4, Zenon DEF s, ps
  <2> QED BY <1>14, <2>1, Zenon
<1>16. iter' = [pod |-> b, cursor |-> ps[Len(seen') + 1], stop |-> ps[Len(s) + 1]]
  <2>1. PICK behind : behind = ps[k + 1] /\ P!Skip(pod, iter.cursor) = behind
    BY <1>10, <1>12, Zenon
  <2>2. PICK c : iter = [pod |-> b, cursor |-> c, stop |-> ps[Len(s) + 1]]
    BY <1>4, Zenon DEF s, ps
  <2>3. iter' = [iter EXCEPT !.cursor = behind]
    BY <1>1, <2>1, Zenon
  <2>4. iter' = [pod |-> b, cursor |-> behind, stop |-> ps[Len(s) + 1]]
    BY <2>2, <2>3
  <2> QED BY <1>14, <2>1, <2>4, Zenon
<1>17. IterOk(iter', seen', pairs, pos)
  BY <1>14, <1>15, <1>16, Zenon DEF IterOk, s, ps
<1> QED BY <1>1, <1>2, <1>5, <1>17, Zenon DEF PodsInv

LEMMA PodsStay ==
  ASSUME PodsInv, UNCHANGED <<pod, pairs, iter, seen>>
  PROVE  PodsInv'
BY Zenon DEF PodsInv

-----------------------------------------------------------------------------
(* What the invariant says of the pods                                      *)

LEMMA TellsIs ==
  ASSUME NEW b \in DOMAIN pairs, NEW m, NEW ps, PodAt(m, b, pairs[b], ps)
  PROVE  /\ P!SizesTell(b) <=> AllTell(pairs[b])
         /\ DOMAIN pairs[b] = 1 .. Len(pairs[b])
<1>1. DOMAIN pairs[b] = 1 .. Len(pairs[b])
  <2>1. pairs[b] \in Seq(Entry)
    BY Zenon DEF PodAt
  <2> QED BY <2>1
<1>2. \A p : P!ValSz(p) = ValSz(p)
  BY Zenon DEF P!ValSz, ValSz, P!SUBPOD
<1> QED BY <1>1, <1>2, Zenon DEF P!SizesTell, AllTell

LEMMA PodsHold ==
  ASSUME PodsInv
  PROVE  P!HoldsItsPairs
<1>1. PICK pos : Alive(pod, pairs, pos)
  BY Zenon DEF PodsInv
<1> SUFFICES ASSUME NEW b \in DOMAIN pairs
             PROVE  /\ P!PodMax(pod, b) = IF b = 0 THEN RootMax ELSE SubMax
                    /\ P!PodCnt(pod, b) = Len(pairs[b])
                    /\ P!SizesTell(b) =>
                         /\ \A k \in DOMAIN pairs[b] :
                              LET p == pairs[b][k]  hits == P!Find(pod, b, p.key) IN
                              /\ {<<f.type, f.sz>> : f \in hits} = {<<p.type, P!ValSz(p)>>}
                              /\ p.type = P!SUBPOD => {f.at : f \in hits} = {p.val}
                              /\ p.type # P!SUBPOD /\ P!ValTells(p.type, p.val) =>
                                   P!QueryVal(pod, b, p.key, p.type, P!Null) = p.val
                         /\ \A key \in Keys :
                              (\A k \in DOMAIN pairs[b] : pairs[b][k].key # key) =>
                                P!Find(pod, b, key) = {}
  BY Zenon DEF P!HoldsItsPairs
<1> DEFINE s == pairs[b]  ps == pos[b]
<1>2. pod \in SUBSET Nat /\ b \in Nat /\ PodAt(pod, b, s, ps)
  BY <1>1, Zenon DEF PodsInv, Alive
<1>3. (P!SizesTell(b) => AllTell(s)) /\ DOMAIN s = 1 .. Len(s)
  BY <1>2, TellsIs, Zenon
<1> HIDE DEF s, ps
<1>4. P!PodMax(pod, b) = MaxOf(b) /\ P!PodCnt(pod, b) = Len(s)
  BY <1>2, PodRead
<1>5. AllTell(s) => GivesBack(pod, b, s)
  BY <1>2, PodHolds, Zenon
<1>6. AllTell(s) =>
        \A key : (\A k \in 1 .. Len(s) : s[k].key # key) => P!Find(pod, b, key) = {}
  BY <1>2, FindIs
<1>7. \A k \in 1 .. Len(s) : P!ValSz(s[k]) = ValSz(s[k])
  BY Zenon DEF P!ValSz, ValSz, P!SUBPOD
<1> QED BY <1>3, <1>4, <1>5, <1>6, <1>7, Zenon DEF s, MaxOf, P!SUBPOD, GivesBack

LEMMA PodsAreTight ==
  ASSUME PodsInv
  PROVE  P!UsedIsTight
<1>1. PICK pos : Alive(pod, pairs, pos)
  BY Zenon DEF PodsInv
<1> SUFFICES ASSUME NEW b \in DOMAIN pairs
             PROVE  /\ P!PodUsed(pod, b) <= P!PodMax(pod, b)
                    /\ P!SizesTell(b) =>
                         P!Stop(pod, b)
                           = IF pairs[b] = <<>> THEN P!First(pod, b)
                             ELSE P!Skip(pod, P!Cursors(pod, b)[Len(pairs[b])])
  BY Zenon DEF P!UsedIsTight
<1>2. pod \in SUBSET Nat /\ b \in Nat /\ PodAt(pod, b, pairs[b], pos[b])
  BY <1>1, Zenon DEF PodsInv, Alive
<1>3. P!SizesTell(b) => AllTell(pairs[b])
  BY <1>2, TellsIs, Zenon
<1> QED BY <1>2, <1>3, PodTight

LEMMA IterationsComplete ==
  ASSUME PodsInv
  PROVE  P!IterationIsComplete
<1>1. PICK pos : Alive(pod, pairs, pos) /\ IterOk(iter, seen, pairs, pos)
  BY Zenon DEF PodsInv
<1> SUFFICES ASSUME iter.pod # P!Null, P!SizesTell(iter.pod)
             PROVE  /\ Len(seen) <= Len(pairs[iter.pod])
                    /\ \A k \in DOMAIN seen :
                         /\ seen[k].key = pairs[iter.pod][k].key
                         /\ seen[k].type = pairs[iter.pod][k].type
                    /\ P!IterDone <=> Len(seen) = Len(pairs[iter.pod])
  BY Zenon DEF P!IterationIsComplete
<1>2. iter # P!NoIter
  BY DEF P!NoIter
<1>11. iter.pod \in DOMAIN pairs => AllTell(pairs[iter.pod])
  <2> SUFFICES ASSUME iter.pod \in DOMAIN pairs PROVE AllTell(pairs[iter.pod])
    BY Zenon
  <2>1. PICK b \in DOMAIN pairs : b = iter.pod
    BY Zenon
  <2>2. PodAt(pod, b, pairs[b], pos[b])
    BY <1>1, Zenon DEF Alive
  <2>3. P!SizesTell(b) <=> AllTell(pairs[b])
    BY <2>2, TellsIs, Zenon
  <2> QED BY <2>1, <2>3, Zenon
<1>3. PICK b \in DOMAIN pairs :
        /\ iter.pod = b /\ iter.cursor = pos[b][Len(seen) + 1]
        /\ iter.stop = pos[b][Len(pairs[b]) + 1]
        /\ seen \in Seq(Shows) /\ Len(seen) <= Len(pairs[b])
        /\ \A k \in 1 .. Len(seen) : seen[k] = Shown(pairs[b][k], pos[b][k])
  BY <1>1, <1>2, <1>11, IterIn, Zenon
<1> DEFINE s == pairs[b]  ps == pos[b]
<1>4. pod \in SUBSET Nat /\ b \in Nat /\ PodAt(pod, b, s, ps)
  BY <1>1, Zenon DEF PodsInv, Alive
<1>5. PICK n \in Nat : n = Len(seen)
  BY <1>3
<1> HIDE DEF s, ps
<1>6. n <= Len(s)
  BY <1>3, <1>5, Zenon DEF s
<1>7. ps[n + 1] >= ps[Len(s) + 1] <=> n = Len(s)
  BY <1>4, <1>6, CursorIs, Zenon DEF DoneWhen
<1>8. P!IterDone <=> ps[n + 1] >= ps[Len(s) + 1]
  BY <1>3, <1>5, Zenon DEF P!IterDone, s, ps
<1>9. DOMAIN seen = 1 .. Len(seen)
  BY <1>3
<1>10. \A k \in 1 .. Len(seen) : seen[k].key = s[k].key /\ seen[k].type = s[k].type
  <2> TAKE k \in 1 .. Len(seen)
  <2>1. seen[k] = Shown(s[k], ps[k])
    BY <1>3, Zenon DEF s, ps
  <2>2. Shown(s[k], ps[k]).key = s[k].key /\ Shown(s[k], ps[k]).type = s[k].type
    BY DEF Shown
  <2> QED BY <2>1, <2>2, Zenon
<1> QED BY <1>3, <1>5, <1>7, <1>8, <1>9, <1>10, Zenon DEF s

\* Whatever is inserted into a pod and the pods in it, in any order and
\* number, with resets between, legible or not, every pod that is alive keeps
\* its max, counts its pairs and uses no more than its max.  While the sizes
\* in it are legible all its keys are found, and no others, every legible val
\* is returned, and an iteration shows its pairs, each once.
THEOREM PodsHoldTheirPairs == CodecsSpec => []HoldsItsPairs
<1> DEFINE Inv == part = "pod" => PodsInv
<1>1. CodecsInit => Inv
  BY PodsStart, Zenon DEF CodecsInit
<1>2. Inv /\ [CodecsNext]_codecsVars => Inv'
  <2> SUFFICES ASSUME Inv, [CodecsNext]_codecsVars, part' = "pod"
               PROVE  PodsInv'
    BY Zenon
  <2>1. part = "pod" /\ PodsInv /\ (P!Next \/ UNCHANGED <<pod, pairs, iter, seen>>)
    BY Zenon DEF CodecsNext, codecsVars, podVars
  <2>2. CASE UNCHANGED <<pod, pairs, iter, seen>>
    BY <2>1, <2>2, PodsStay, Zenon
  <2>3. CASE P!Next
    <3>1. CASE P!IterNext
      BY <2>1, <3>1, IterNextKeeps, Zenon
    <3>2. ASSUME NEW b \in DOMAIN pairs, NEW key \in Keys, NEW in \in Inputs,
                 P!Insert(b, key, in.type, in.val)
          PROVE  PodsInv'
      BY <2>1, <3>2, InsertKeeps, Zenon
    <3>3. ASSUME NEW b \in DOMAIN pairs, NEW key \in Keys, P!AllocSubpod(b, key)
          PROVE  PodsInv'
      BY <2>1, <3>3, SubpodKeeps, Zenon
    <3>4. ASSUME NEW b \in DOMAIN pairs, P!Reset(b) PROVE PodsInv'
      BY <2>1, <3>4, ResetKeeps, Zenon
    <3>5. ASSUME NEW b \in DOMAIN pairs, P!IterInit(b) PROVE PodsInv'
      BY <2>1, <3>5, IterInitKeeps, Zenon
    <3> QED BY <2>3, <3>1, <3>2, <3>3, <3>4, <3>5, Zenon DEF P!Next
  <2> QED BY <2>1, <2>2, <2>3, Zenon
<1>3. Inv => HoldsItsPairs
  BY PodsHold, PodsAreTight, IterationsComplete, Zenon DEF HoldsItsPairs
<1> HIDE DEF Inv
<1> QED BY <1>1, <1>2, <1>3, PTL DEF CodecsSpec
=============================================================================
