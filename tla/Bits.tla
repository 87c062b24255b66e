--------------------------------- MODULE Bits ---------------------------------
(***************************************************************************)
(* The bit operations of fd_bits.h, for words of W bits.  A word is the    *)
(* set of the positions of its one bits: the bitwise operators are set     *)
(* operators, arithmetic goes through the number that the word stands for. *)
(* The operators are as the code computes them; what its comments (lines   *)
(* 15-71) say they compute is at the end.                                  *)
(***************************************************************************)
EXTENDS Integers, FiniteSets, FiniteSetsExt

CONSTANT W   \* bits of a word

\* The decimal digits of the largest word: of a uchar, ushort, uint or ulong.
MaxDigits == IF W = 8 THEN 3 ELSE IF W = 16 THEN 5 ELSE IF W = 32 THEN 10 ELSE 20

\* Powers are what they are: the provers do not know it.
Powers ==
  /\ \A k \in 0 .. 2 * W - 1 : 2 ^ (k + 1) = 2 * 2 ^ k
  /\ \A k \in 0 .. MaxDigits - 1 : 10 ^ (k + 1) = 10 * 10 ^ k

WAssumption == W \in {8, 16, 32, 64, 128} /\ Powers

Pos == 0 .. W - 1
Word == SUBSET Pos
Zero == {}
One == {0}

\* The number a word stands for: powers of two, summed up from the lowest.
Num(x) ==
  LET s[n \in 0 .. W] ==
        IF n = 0 THEN 0 ELSE s[n - 1] + (IF n - 1 \in x THEN 2 ^ (n - 1) ELSE 0)
  IN  s[W]
\* A cast: the low W bits of any integer, negative ones in two's complement.
Cast(n) == {i \in Pos : (n \div 2 ^ i) % 2 = 1}
\* What a word stands for when its type is signed.
SNum(x) == IF W - 1 \in x THEN Num(x) - 2 ^ W ELSE Num(x)

Not(x) == Pos \ x
Xor(x, y) == (x \cup y) \ (x \cap y)
Shl(x, n) == {i \in Pos : i - n \in x}
Shr(x, n) == {i \in Pos : i + n \in x}
Sar(x, n) ==
  Shr(x, n) \cup {i \in Pos : W - 1 \in x /\ i >= W - n}
Plus(x, y) == Cast(Num(x) + Num(y))
Minus(x, y) == Cast(Num(x) - Num(y))
\* n & (w-1)
Mod(n) == n % W

-----------------------------------------------------------------------------
(* Masks and fields *)

MaskBit(b) == Shl(One, b)
ExtractBit(x, b) == Shr(x, b) \cap One
InsertBit(x, b, y) == (x \cap Not(MaskBit(b))) \cup Shl(y, b)

\* Mutant: the test for a full mask is left out.
MaskLsbNoTest(n) == Minus(Shl(One, Mod(n)), One)

MaskLsb(n) == Minus(Shl(IF n < W THEN One ELSE Zero, Mod(n)), One)
ExtractLsb(x, n) == x \cap MaskLsb(n)
InsertLsb(x, n, y) == (x \cap Not(MaskLsb(n))) \cup y

Mask(l, h) == Shl(MaskLsb(h - l + 1), l)
Extract(x, l, h) == Shr(x, l) \cap MaskLsb(h - l + 1)
Insert(x, l, h, y) == (x \cap Not(Mask(l, h))) \cup Shl(y, l)

\* The clear, set and flip functions of a mask.
Clear(x, m) == x \cap Not(m)
Set(x, m) == x \cup m
Flip(x, m) == Xor(x, m)

PopLsb(x) == x \cap Minus(x, One)
Lsb(x) == Xor(x, PopLsb(x))
IsPow2(x) == x # Zero /\ PopLsb(x) = Zero
Pow2(n) == Shl(IF n < W THEN One ELSE Zero, Mod(n))
Popcnt(x) == Cardinality(x)

OrShr(x, k) == x \cup Shr(x, k)
\* Every one bit is copied to all the positions below it.  The distances that
\* the functions of narrower types leave out add nothing.
Smear(x) ==
  OrShr(OrShr(OrShr(OrShr(OrShr(OrShr(OrShr(x, 1), 2), 4), 8), 16), 32), 64)

Pow2Up(x) == Plus(Smear(Minus(x, One)), One)
Pow2Dn(x) == Plus(Smear(Shr(x, 1)), One)

-----------------------------------------------------------------------------
(* Alignment to a power of two, choice, shifts and rotations *)

IsAligned(x, a) == x \cap Minus(a, One) = Zero
Alignment(x, a) == x \cap Minus(a, One)
AlignDn(x, a) == x \cap Not(Minus(a, One))

AlignUp(x, a) == Plus(x, Minus(a, One)) \cap Not(Minus(a, One))

Blend(m, t, f) == (t \cap m) \cup (f \cap Not(m))
If(c, t, f) == IF c THEN t ELSE f
MinW(x, y) == IF Num(x) < Num(y) THEN x ELSE y
MaxW(x, y) == IF Num(x) > Num(y) THEN x ELSE y

ShiftLeft(x, n) == Shl(IF n > W - 1 THEN Zero ELSE x, Mod(n))
ShiftRight(x, n) == Shr(IF n > W - 1 THEN Zero ELSE x, Mod(n))

RotateLeft(x, n) == Shl(x, Mod(n)) \cup Shr(x, Mod(-n))
RotateRight(x, n) == Shr(x, Mod(n)) \cup Shl(x, Mod(-n))

-----------------------------------------------------------------------------
(* Signed words *)

Abs(x) == LET m == Sar(x, W - 1) IN Xor(Plus(x, m), m)
SMin(x, y) == IF SNum(x) <= SNum(y) THEN x ELSE y
SMax(x, y) == IF SNum(x) >= SNum(y) THEN x ELSE y
SShiftRight(x, n) == Sar(x, IF n > W - 1 THEN W - 1 ELSE n)

ZzEnc(x) == Xor(Sar(x, W - 1), Shl(x, 1))
ZzDec(x) == Xor(Shr(x, 1), Minus(Zero, x \cap One))

-----------------------------------------------------------------------------
(* The digits of a number in base 10 *)

DigCnt(x) ==
  CHOOSE c \in 1 .. MaxDigits :
    /\ c = MaxDigits \/ Num(x) < 10 ^ c
    /\ \A d \in 1 .. c - 1 : Num(x) >= 10 ^ d

-----------------------------------------------------------------------------
\* All words, one after the other.
VARIABLE x
Init == x = Zero
Next == x' = Plus(x, One)
Spec == Init /\ [][Next]_x

\* Fields: bits [l,h] and [0,n) are masked, extracted and inserted, for every
\* field up to the whole word, and the bits outside stay as they are.
FieldsRight ==
  \A n \in 0 .. W :
    LET f == 0 .. n - 1 IN
    /\ MaskLsb(n) = f
    /\ ExtractLsb(x, n) = x \cap f
    /\ InsertLsb(x, n, f) = x \cup f /\ InsertLsb(x, n, Zero) = x \ f
    /\ \A h \in n .. W - 1 :
         /\ Mask(n, h) = n .. h
         /\ Num(Extract(x, n, h)) = (Num(x) \div 2 ^ n) % 2 ^ (h - n + 1)
         /\ Insert(Clear(x, Mask(n, h)), n, h, Extract(x, n, h)) = x
         /\ Flip(Clear(x, Mask(n, h)), Mask(n, h)) = Set(x, Mask(n, h))
    /\ n < W => /\ MaskBit(n) = {n}
                /\ ExtractBit(x, n) = One <=> n \in x
                /\ InsertBit(x, n, ExtractBit(x, n)) = x

\* Powers of two: which words are one, the next one up (2^W is 0) and down.
Pow2Right ==
  LET P == {2 ^ n : n \in 0 .. W}  v == Num(x) IN
  /\ IsPow2(x) <=> v \in P
  /\ x # Zero => /\ Num(Pow2Up(x)) = Min({p \in P : p >= v}) % 2 ^ W
                 /\ Num(Pow2Dn(x)) = Max({p \in P : p <= v})
                 /\ Lsb(x) = {Min(x)} /\ PopLsb(x) = x \ {Min(x)}
  /\ x = Zero => Pow2Up(x) = Zero /\ Pow2Dn(x) = One /\ Lsb(x) = Zero
  /\ Popcnt(x) = Popcnt(PopLsb(x)) + Popcnt(Lsb(x))

\* Alignment: down and up to the nearest multiple, with the wrap at the top.
AlignRight ==
  \A n \in Pos :
    LET a == 2 ^ n  v == Num(x)  p == Pow2(n) IN
    /\ IsAligned(x, p) <=> v % a = 0
    /\ Num(Alignment(x, p)) = v % a
    /\ Num(AlignDn(x, p)) = v - (v % a)
    /\ Num(AlignUp(x, p)) = Min({m \in v .. v + a - 1 : m % a = 0}) % 2 ^ W

\* Shifts by any distance, and rotations by any, negative ones too.
ShiftsRight ==
  \A n \in 0 .. 2 * W :
    /\ Num(ShiftLeft(x, n)) = (Num(x) * 2 ^ n) % 2 ^ W
    /\ Num(ShiftRight(x, n)) = Num(x) \div 2 ^ n
    /\ SNum(SShiftRight(x, n)) = SNum(x) \div 2 ^ n
    /\ RotateLeft(x, n) = {(i + n) % W : i \in x}
    /\ RotateLeft(x, -n) = RotateRight(x, n)
    /\ RotateLeft(RotateRight(x, n), n) = x

\* Signed words: the zig-zag code is short for numbers near zero and can be
\* read back, for the most negative number too, of which |x| has no sign.
SignedRight ==
  LET v == SNum(x)  sgn == IF v < 0 THEN -1 ELSE 1 IN
  /\ Num(Abs(x)) = v * sgn
  /\ Num(ZzEnc(x)) = IF v < 0 THEN -2 * v - 1 ELSE 2 * v
  /\ ZzDec(ZzEnc(x)) = x /\ ZzEnc(ZzDec(x)) = x
  /\ \A y \in {Zero, Pos, {W - 1}, Pos \ {W - 1}} :
       /\ {SMin(x, y), SMax(x, y)} = {x, y}
       /\ SNum(SMin(x, y)) <= SNum(SMax(x, y))
       /\ {MinW(x, y), MaxW(x, y)} = {x, y}
       /\ Num(MinW(x, y)) <= Num(MaxW(x, y))
       /\ Blend(x, y, Not(y)) = Not(Xor(x, y))

\* The number of decimal digits; there is no such function for 128 bits.
DigitsRight ==
  LET c == DigCnt(x) IN
  W <= 64 => Num(x) < 10 ^ c /\ (c > 1 => Num(x) >= 10 ^ (c - 1))
=============================================================================
