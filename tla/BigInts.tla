------------------------------ MODULE BigInts ------------------------------
(* The unsigned integers of src/shared/crypto.cpp: sequences of digits of   *)
(* DigitBits bits, the lowest first, without leading zeros.                 *)
EXTENDS Integers, Sequences, SequencesExt

CONSTANTS DigitBits,   \* BI_DIGIT_BITS, 16
          NibbleBits   \* bits of a character of a printed number, 4

Base == 2 ^ DigitBits
Zero == <<>>
One == <<1>>

\* a digit, and zero past the end
Dig(x, i) == IF i \in DOMAIN x THEN x[i] ELSE 0
Larger(a, b) == IF a < b THEN b ELSE a
Zeros(n) == [i \in 1..n |-> 0]
Padded(x, n) == x \o Zeros(n - Len(x))

\* shrink()
Shrink(x) ==
  LET used == {i \in DOMAIN x : x[i] # 0}
  IN SubSeq(x, 1, IF used = {} THEN 0 ELSE CHOOSE i \in used : \A j \in used : j <= i)

HasBit(x, n) == (Dig(x, n \div DigitBits + 1) \div 2 ^ (n % DigitBits)) % 2 = 1
NumBits(x) ==
  IF x = Zero THEN 0
  ELSE CHOOSE n \in (Len(x) - 1) * DigitBits + 1 .. Len(x) * DigitBits : HasBit(x, n - 1) /\ \A k \in n..Len(x) * DigitBits - 1 : ~HasBit(x, k)

\* operator<: by length, then from the top digit down
Less(x, y) ==
  \/ Len(x) < Len(y)
  \/ /\ Len(x) = Len(y)
     /\ \E i \in DOMAIN x : x[i] < y[i] /\ \A j \in i + 1..Len(x) : x[j] = y[j]

\* add(): a carry out of the longer number is one more digit
RECURSIVE AddFrom(_, _, _, _)
AddFrom(x, y, i, carry) ==
  LET sum == Dig(x, i) + Dig(y, i) + carry
  IN IF i > Larger(Len(x), Len(y)) /\ carry = 0 THEN Zero
     ELSE <<sum % Base>> \o AddFrom(x, y, i + 1, sum \div Base)
Add(x, y) == AddFrom(x, y, 1, 0)

\* sub(), for y at most x
RECURSIVE SubFrom(_, _, _, _)
SubFrom(x, y, i, borrow) ==
  LET rest == x[i] - Dig(y, i) - borrow
  IN IF i > Len(x) THEN Zero ELSE <<rest % Base>> \o SubFrom(x, y, i + 1, IF rest < 0 THEN 1 ELSE 0)
Sub(x, y) == Shrink(SubFrom(x, y, 1, 0))

\* mul(): a digit of x times y is added to the product so far, whose lowest
\* digit is then final
RECURSIVE Row(_, _, _, _)
Row(d, a, y, carry) ==
  LET sum == a * Head(y) + Head(d) + carry
  IN IF y = Zero THEN <<carry>> ELSE <<sum % Base>> \o Row(Tail(d), a, Tail(y), sum \div Base)
RECURSIVE MulFrom(_, _, _)
MulFrom(x, y, d) ==
  LET row == Row(d, Head(x), y, 0)
  IN IF x = Zero THEN d ELSE <<Head(row)>> \o MulFrom(Tail(x), y, Tail(row))
Mul(x, y) == IF x = Zero \/ y = Zero THEN Zero ELSE Shrink(MulFrom(x, y, Zeros(Len(y))))

\* rshift(): a shift by whole digits keeps one digit to carry from
RShift(x, n) ==
  LET dig == (n - 1) \div DigitBits
      low == ((n - 1) % DigitBits) + 1
      rest == Len(x) - dig
      shifted == [i \in 1..rest |-> ((Dig(x, i + dig + 1) * 2 ^ (DigitBits - low)) % Base) + x[i + dig] \div 2 ^ low]
  IN IF x = Zero \/ n <= 0 THEN x
     ELSE IF n >= Len(x) * DigitBits THEN Zero
     ELSE Shrink(SubSeq(shifted, 1, rest - low \div DigitBits))

\* copydigits(): n digits of y, as many as there are, then zeros
Copied(y, from, n) == Padded(SubSeq(y, from + 1, IF from + n < Len(y) THEN from + n ELSE Len(y)), n)
CopyShrink(y, n) == Shrink(Copied(y, 0, n))

\* printdigits(): every digit in full, the highest first
Nibbles == DigitBits \div NibbleBits
Printed(x) ==
  [k \in 1..Len(x) * Nibbles |->
     LET up == Len(x) * Nibbles - k
     IN (x[up \div Nibbles + 1] \div 2 ^ (NibbleBits * (up % Nibbles))) % 2 ^ NibbleBits]

\* parsedigits(), of at most maxlen digits
Parsed(s, maxlen) ==
  LET len == (Len(s) + Nibbles - 1) \div Nibbles
      at(up) == IF up < Len(s) THEN s[Len(s) - up] * 2 ^ (NibbleBits * (up % Nibbles)) ELSE 0
  IN IF len > maxlen THEN Zero
     ELSE Shrink([i \in 1..len |-> FoldLeft(LAMBDA a, j : a + at((i - 1) * Nibbles + j - 1), 0, [j \in 1..Nibbles |-> j])])
-----------------------------------------------------------------------------
\* the integer a sequence of digits stands for
Value(x) == FoldRight(LAMBDA d, v : d + Base * v, x, 0)
IsNumber(x) == (\A i \in DOMAIN x : x[i] \in 0..Base - 1) /\ (x # Zero => x[Len(x)] # 0)

\* The digit loops compute what integers do: carries, borrows, shifts over
\* digits and the printed form lose nothing, and no result keeps a leading zero.
Exact(x, y) ==
  LET a == Value(x)  b == Value(y)
  IN /\ \A z \in {Add(x, y), Mul(x, y)} : IsNumber(z)
     /\ Value(Add(x, y)) = a + b /\ Value(Mul(x, y)) = a * b
     /\ Less(x, y) = (a < b)
     /\ a >= b => IsNumber(Sub(x, y)) /\ Value(Sub(x, y)) = a - b
     /\ NumBits(x) = (IF a = 0 THEN 0 ELSE CHOOSE n \in 1..32 : 2 ^ (n - 1) <= a /\ a < 2 ^ n)
     /\ b <= 8 => IsNumber(RShift(x, b)) /\ Value(RShift(x, b)) = a \div 2 ^ b
     /\ Parsed(Printed(x), Len(x)) = x
=============================================================================
