------------------------------- MODULE Curves -------------------------------
(* The prime field, the elliptic curve and the challenges of authentication *)
(* in src/shared/crypto.cpp.  P-192 is 2^192 - 2^64 - 1: here X^3 - X - 1   *)
(* for a word X of UnitDigits digits, and a curve over that field.          *)
EXTENDS BigInts

CONSTANTS UnitDigits,  \* digits of 64 bits, 4
          CurveB,      \* the integers B and base.x, base.y of the curve
          BaseX, BaseY

FieldDigits == 3 * UnitDigits  \* GF_DIGITS

Number(n) == Shrink([i \in 1..FieldDigits + 1 |-> (n \div Base ^ (i - 1)) % Base])
\* X^3 - X - 1: every digit the largest, but the lowest of the second word
P == [i \in 1..FieldDigits |-> Base - (IF i = UnitDigits + 1 THEN 2 ELSE 1)]
AtLeastP(x) == ~Less(x, P)
Reduced(x) == IF AtLeastP(x) THEN Sub(x, P) ELSE x

\* add(), sub(), neg() and div2() of a gfield
FAdd(x, y) == Reduced(Add(x, y))
FSub(x, y) == Sub(IF Less(x, y) THEN Add(x, P) ELSE x, y)
FNeg(x) == Sub(P, x)
\* Wrong on purpose, to be put in the place of the next definition: an odd number is halved without P
FHalfDown(x) == RShift(x, 1)
FHalf(x) == RShift(IF HasBit(x, 0) THEN Add(x, P) ELSE x, 1)
FDouble(x) == FAdd(x, x)

\* reduce(): result = T + S1 + S2 + S3, the words above the third folded
\* down by X^3 = X + 1; one subtraction of P after every addition
Places == [k \in 3..5 |-> CASE k = 3 -> {0, 1} [] k = 4 -> {1, 2} [] k = 5 -> {0, 1, 2}]
Folded(r, k) ==
  Shrink([i \in 1..FieldDigits |->
            IF (i - 1) \div UnitDigits \in Places[k] THEN Dig(r, k * UnitDigits + ((i - 1) % UnitDigits) + 1) ELSE 0])
Reduce(r) ==
  FoldLeft(LAMBDA sum, k : IF Len(r) > k * UnitDigits THEN FAdd(sum, Folded(r, k)) ELSE sum,
           IF Len(r) > FieldDigits THEN CopyShrink(r, FieldDigits) ELSE Reduced(r), <<3, 4, 5>>)

FMul(x, y) == Reduce(Mul(x, y))
FSquare(x) == FMul(x, x)

\* pow(): the bits of y from the lowest, squaring x on the way
FPow(x, y) ==
  FoldLeft(LAMBDA s, i : LET next(sq) == [sq |-> sq, res |-> IF HasBit(y, i) THEN FMul(s.res, sq) ELSE s.res]
                         IN next(FSquare(s.sq)),
           [sq |-> x, res |-> IF HasBit(y, 0) THEN x ELSE One], [i \in 1..NumBits(y) - 1 |-> i]).res

\* invert(): halve n, and its coefficient modulo P, until n is odd
RECURSIVE Odd(_)
Odd(h) == IF HasBit(h.n, 0) THEN h ELSE Odd([n |-> RShift(h.n, 1), c |-> FHalf(h.c)])

RECURSIVE Euclid(_, _)
Euclid(u, v) ==
  IF u.n = Zero THEN Reduced(v.c)
  ELSE LET a == Odd(u)  b == Odd(v)
       IN IF Less(a.n, b.n) THEN Euclid(a, [n |-> Sub(b.n, a.n), c |-> FSub(b.c, a.c)])
          ELSE Euclid([n |-> Sub(a.n, b.n), c |-> FSub(a.c, b.c)], b)
FInvert(x) == IF x = Zero THEN x ELSE Euclid([n |-> x, c |-> One], [n |-> P, c |-> Zero])

\* legendre() and sqrt(): P is 3 modulo 4
Legendre(x) == LET l == FPow(x, RShift(Sub(P, One), 1)) IN IF l = Zero THEN 0 ELSE IF Len(l) = 1 THEN 1 ELSE -1
HasRoot(x) == x = Zero \/ Legendre(x) # -1
FSqrt(x) == IF x = Zero \/ Legendre(x) # 1 THEN Zero ELSE FPow(x, RShift(Add(P, One), 2))
-----------------------------------------------------------------------------
(* ecjacobian: x / z^2 and y / z^3, the origin with a z of zero.            *)

Point(x, y) == [x |-> x, y |-> y, z |-> One]
BasePoint == Point(Number(BaseX), Number(BaseY))
Origin == [x |-> One, y |-> One, z |-> Zero]

\* mul2()
Twice(p) ==
  LET d(zz) == FMul(FSub(p.x, zz), FAdd(zz, p.x))
      thrice(n) == FAdd(FDouble(n), n)
      at(b, c, xb, x) == [x |-> x, y |-> FSub(FMul(FSub(xb, x), c), FDouble(FSquare(b))),
                          z |-> FDouble(FMul(p.z, p.y))]
      along(b, c, xb) == at(b, c, xb, FSub(FSub(FSquare(c), xb), xb))
      tangent(b, c) == along(b, c, FMul(FDouble(p.x), b))
  IN IF p.z = Zero THEN p
     ELSE IF p.y = Zero THEN Origin
     ELSE tangent(FDouble(FSquare(p.y)), thrice(d(FSquare(p.z))))

\* add()
Plus(p, q) ==
  LET scaled(r, s) == \* r over the denominators of s
        LET by(zz) == [x |-> FMul(zz, r.x), y |-> FMul(FMul(r.y, zz), s.z)] IN by(FSquare(s.z))
      at(a, b, aa, f, x, sy) ==
        [x |-> x, y |-> FHalf(FSub(FMul(FSub(FSub(f, x), x), b), FMul(FMul(aa, a), sy))),
         z |-> FMul(IF q.z = One THEN p.z ELSE FMul(p.z, q.z), a)]
      along(a, b, aa, f, sy) == at(a, b, aa, f, FSub(FSquare(b), f), sy)
      across(a, b, aa, sx, sy) == along(a, b, aa, FMul(sx, aa), sy)
      line(a, b, sx, sy) ==
        IF a = Zero THEN (IF b = Zero THEN Twice(p) ELSE Origin) ELSE across(a, b, FSquare(a), sx, sy)
      through(r, s) == line(FSub(r.x, s.x), FSub(r.y, s.y), FAdd(r.x, s.x), FAdd(r.y, s.y))
  IN IF q.z = Zero THEN p
     ELSE IF p.z = Zero THEN q
     ELSE through(IF q.z = One THEN p ELSE scaled(p, q), scaled(q, p))

\* mul(): from the highest bit of k down
Times(p, k) ==
  FoldLeft(LAMBDA r, i : LET next(d) == IF HasBit(k, NumBits(k) - i) THEN Plus(d, p) ELSE d IN next(Twice(r)),
           Origin, [i \in 1..NumBits(k) |-> i])

Normal(p) ==
  LET over(i, ii) == Point(FMul(p.x, ii), FMul(FMul(p.y, ii), i))
      by(i) == over(i, FSquare(i))
  IN IF p.z \in {Zero, One} THEN p ELSE by(FInvert(p.z))

\* print() and parse(): the parity of y and the digits of x
PointPrinted(p) == LET of(n) == [odd |-> HasBit(n.y, 0), x |-> Printed(n.x)] IN of(Normal(p))
OnCurve(x) == FAdd(FSub(FMul(FSquare(x), x), FAdd(FDouble(x), x)), Number(CurveB))
PointParsed(s) ==
  LET from(x, yy, y) == Point(x, IF ~HasRoot(yy) \/ HasBit(y, 0) = s.odd THEN y ELSE FNeg(y))
      at(x, yy) == from(x, yy, FSqrt(yy))
      on(x) == at(x, OnCurve(x))
  IN on(Parsed(s.x, FieldDigits + 1))
-----------------------------------------------------------------------------
(* Authentication: the server keeps a user's public key and sends a point,  *)
(* the user multiplies it by the private key.                               *)

\* calcpubkey() of a private key, and the point genchallenge() sends, for k
\* the hash of a seed
PointFor(k) == PointPrinted(Times(BasePoint, k))
\* the answer genchallenge() keeps, and that of answerchallenge()
Solved(s, k) == Normal(Times(PointParsed(s), k)).x
Accepted(answer, correct) == Parsed(answer, FieldDigits + 1) = correct
-----------------------------------------------------------------------------
FieldP == Value(P)
Squares == {(n * n) % FieldP : n \in 0..FieldP - 1}

\* Field operations agree with integers modulo P.  A product may be left
\* with its excess over P when all its words are large, never more than a
\* field element holds.
FieldExact(x, y) ==
  LET a == Value(x)  b == Value(y)
      mod(n) == n % FieldP
  IN /\ Value(FAdd(x, y)) = mod(a + b) /\ Value(FSub(x, y)) = mod(a - b)
     /\ mod(2 * Value(FHalf(x))) = a /\ Less(FHalf(x), P)
     /\ mod(Value(FMul(x, y))) = mod(a * b) /\ Len(FMul(x, y)) <= FieldDigits
     /\ x # Zero => Less(FInvert(x), P) /\ mod(Value(FInvert(x)) * a) = 1
     /\ LET r == Value(FSqrt(x))
        IN IF HasRoot(x) THEN mod(r * r) = a ELSE a \notin Squares

\* A key answers the challenges of its public key, and no other key does but
\* its negative, whose points have the same x.
KeyOpens(priv, other, c, order) ==
  LET opens(answer) == \A k \in {priv, other} :
                         Accepted(Printed(answer[<<c, k>>]), answer[<<priv, c>>]) <=> k \in {priv, order - priv}
      solve(point) == opens([q \in {<<priv, c>>, <<c, priv>>, <<c, other>>} |-> Solved(point[q[1]], Number(q[2]))])
  IN solve([n \in {priv, c} |-> PointFor(Number(n))])

\* Multiples of the base point add up as their factors do modulo the order.
PointsAdd(j, k, order) ==
  LET same(m) == \A p, q \in {Plus(m[j], m[k]), m[(j + k) % order]} : Normal(p) = Normal(q)
  IN same([n \in {j, k, (j + k) % order} |-> Times(BasePoint, Number(n))])
=============================================================================
