-------------------------------- MODULE Wire --------------------------------
(* Values on the wire: the buffers of src/shared/tools.h, the encodings of  *)
(* src/shared/tools.cpp, and the address masks of bans.  Integers have 32   *)
(* bits and two's complement, a byte is 0..255, a char is signed.           *)
EXTENDS Integers, Sequences, SequencesExt, FiniteSetsExt

SChar(b) == IF b >= 128 THEN b - 256 ELSE b
Byte(n, k) == (n \div 2 ^ (8 * k)) % 256  \* (uchar)(n >> 8 * k)

\* databuf and packetbuf: growth 0 is a fixed buffer
Buffer(maxlen, growth) == [buf |-> <<>>, maxlen |-> maxlen, growth |-> growth, overwrote |-> FALSE]
CheckSpace(p, n) ==
  IF Len(p.buf) + n > p.maxlen /\ p.growth > 0
  THEN [p EXCEPT !.maxlen = Max({Len(p.buf) + n, @ + p.growth})] ELSE p
PutByte(p, b) ==
  LET q == CheckSpace(p, 1)
  IN IF Len(q.buf) < q.maxlen THEN [q EXCEPT !.buf = Append(@, b)] ELSE [q EXCEPT !.overwrote = TRUE]
PutBytes(p, bs) == FoldLeft(PutByte, p, bs)
\* put(vals, numvals): as many as fit
PutArray(p, vals) ==
  LET q == CheckSpace(p, Len(vals))
      n == Min({q.maxlen - Len(q.buf), Len(vals)})
  IN [q EXCEPT !.buf = @ \o SubSeq(vals, 1, n), !.overwrote = @ \/ n < Len(vals)]
Finalize(p) == [p EXCEPT !.maxlen = Len(p.buf)]

Reader(bytes) == [buf |-> bytes, overread |-> FALSE]
\* get(): zero and a flag past the end
NextByte(r) == IF r.buf = <<>> THEN 0 ELSE Head(r.buf)
Past(r) == IF r.buf = <<>> THEN [r EXCEPT !.overread = TRUE] ELSE [r EXCEPT !.buf = Tail(@)]
RECURSIVE Skip(_, _)
Skip(r, n) == IF n = 0 THEN r ELSE Skip(Past(r), n - 1)
Nth(r, n) == NextByte(Skip(r, n))
\* subbuf(): no more than what is left
SubBuf(r, sz) ==
  LET n == Max({0, Min({sz, Len(r.buf)})})
  IN [sub |-> Reader(SubSeq(r.buf, 1, n)), r |-> [r EXCEPT !.buf = SubSeq(@, n + 1, Len(@))]]
-----------------------------------------------------------------------------
\* Wrong on purpose, to be put in the place of the next definition: -127 is sent as a byte, the mark of four bytes
PutIntWide(p, n) ==
  IF n < 128 /\ n >= -127 THEN PutByte(p, n % 256)
  ELSE IF n < 32768 /\ n >= -32768 THEN PutBytes(p, <<128, Byte(n, 0), Byte(n, 1)>>)
  ELSE PutBytes(p, <<129, Byte(n, 0), Byte(n, 1), Byte(n, 2), Byte(n, 3)>>)
\* putint(): one byte, or a mark and two or four
PutInt(p, n) ==
  IF n < 128 /\ n > -127 THEN PutByte(p, n % 256)
  ELSE IF n < 32768 /\ n >= -32768 THEN PutBytes(p, <<128, Byte(n, 0), Byte(n, 1)>>)
  ELSE PutBytes(p, <<129, Byte(n, 0), Byte(n, 1), Byte(n, 2), Byte(n, 3)>>)

GetInt(r) ==
  LET c == SChar(NextByte(r))
  IN IF c = -128 THEN [n |-> SChar(Nth(r, 2)) * 256 + Nth(r, 1), r |-> Skip(r, 3)]
     ELSE IF c = -127 THEN [n |-> SChar(Nth(r, 4)) * 2 ^ 24 + Nth(r, 3) * 2 ^ 16 + Nth(r, 2) * 256 + Nth(r, 1), r |-> Skip(r, 5)]
     ELSE [n |-> c, r |-> Skip(r, 1)]

\* so many of them
GetInts(r, n) ==
  FoldLeft(LAMBDA got, k : LET i == GetInt(got.r) IN [n |-> Append(got.n, i.n), r |-> i.r], [n |-> <<>>, r |-> r], [k \in 1..n |-> k])

\* putuint(): seven bits a byte while the top one is set, eight in the fourth
Seven(n, k) == 128 + ((n \div 2 ^ (7 * k)) % 128)
PutUint(p, n) ==
  IF n < 0 \/ n >= 2 ^ 21 THEN PutBytes(p, <<Seven(n, 0), Seven(n, 1), Seven(n, 2), (n \div 2 ^ 21) % 256>>)
  ELSE IF n < 2 ^ 7 THEN PutByte(p, n)
  ELSE IF n < 2 ^ 14 THEN PutBytes(p, <<Seven(n, 0), n \div 2 ^ 7>>)
  ELSE PutBytes(p, <<Seven(n, 0), Seven(n, 1), n \div 2 ^ 14>>)

\* getuint(): each byte takes the mark of the one before away; bit 28 is the sign
GetUint(r) ==
  LET a == NextByte(r)
      b == a - 128 + Nth(r, 1) * 2 ^ 7
      c == b - 2 ^ 14 + Nth(r, 2) * 2 ^ 14
      d == c - 2 ^ 21 + Nth(r, 3) * 2 ^ 21
      marked(n, bit) == (n \div 2 ^ bit) % 2 = 1
  IN IF ~marked(a, 7) THEN [n |-> a, r |-> Skip(r, 1)]
     ELSE IF ~marked(b, 14) THEN [n |-> b, r |-> Skip(r, 2)]
     ELSE IF ~marked(c, 21) THEN [n |-> c, r |-> Skip(r, 3)]
     ELSE [n |-> IF marked(d, 28) THEN d - 2 ^ 28 * (d \div 2 ^ 28 + 1) ELSE d, r |-> Skip(r, 4)]

\* sendstring(): every char as an int, then zero
SendString(p, t) == FoldLeft(PutInt, p, Append(t, 0))

\* getstring() into text[len]: the rest of a longer one stays unread, and the
\* end of the buffer ends the string
RECURSIVE GetString(_, _, _)
GetString(r, text, len) ==
  LET got == GetInt(r)
      c == SChar(got.n % 256)
  IN IF Len(text) >= len THEN [n |-> SubSeq(text, 1, len - 1), r |-> r]
     ELSE IF r.buf = <<>> THEN [n |-> text, r |-> r]
     ELSE IF c = 0 THEN [n |-> text, r |-> got.r]
     ELSE GetString(got.r, Append(text, c), len)

\* putfloat(): the four bytes of its image
PutFloat(p, image) == PutArray(p, image)
GetFloat(r) == [n |-> [k \in 1..4 |-> Nth(r, k - 1)], r |-> Skip(r, 4)]
\* sendf(): a letter of the format takes its values from args, where what a
\* pointer points to is one; a digit says how many.  A letter that is none of
\* these takes nothing
Digit == ("2" :> 2) @@ ("3" :> 3) @@ ("4" :> 4) @@ ("9" :> 9)
RECURSIVE PutFormat(_, _)
PutFormat(s, format) ==
  LET letter == Head(format)
      n == IF letter \in {"i", "f"} /\ Len(format) > 1 /\ format[2] \in DOMAIN Digit THEN Digit[format[2]] ELSE 1
      count == CASE letter \in {"i", "f"} -> n [] letter \in {"v", "m"} -> 2 [] letter \in {"x", "s"} -> 1 [] OTHER -> 0
      vals == SubSeq(s.args, 1, count)
      p == CASE letter = "i" -> FoldLeft(PutInt, s.p, vals) [] letter = "v" -> FoldLeft(PutInt, s.p, SubSeq(vals[2], 1, vals[1]))
             [] letter = "f" -> FoldLeft(PutFloat, s.p, vals) [] letter = "s" -> SendString(s.p, vals[1])
             [] letter = "m" -> PutArray(s.p, SubSeq(vals[2], 1, vals[1])) [] OTHER -> s.p
      t == [s EXCEPT !.p = p, !.args = SubSeq(@, count + 1, Len(@)), !.exclude = IF letter = "x" THEN vals[1] ELSE @]
  IN IF format = <<>> THEN s ELSE PutFormat(t, SubSeq(format, IF n = 1 THEN 2 ELSE 3, Len(format)))
MaxTrans == 5000
SendF(format, args) ==
  LET reliable == format # <<>> /\ format[1] = "r"
      start == [p |-> Buffer(MaxTrans, MaxTrans), args |-> args, exclude |-> -1, reliable |-> reliable]
      s == PutFormat(start, IF reliable THEN Tail(format) ELSE format)
  IN [s EXCEPT !.p = Finalize(@)]
\* putinitclient() and welcomeinitclient(): a newcomer is told of the others;
\* clients are [num, owner, ai, skill, model, name, team, connected]
N_INITCLIENT == 3
N_INITAI == 98
PutInitClient(p, ci) ==
  LET ints(q, ns) == FoldLeft(PutInt, q, ns)
      names(q) == SendString(SendString(q, ci.name), ci.team)
  IN IF ci.ai # 0 THEN names(ints(p, <<N_INITAI, ci.num, ci.owner, ci.ai, ci.skill, ci.model>>))
     ELSE PutInt(names(ints(p, <<N_INITCLIENT, ci.num>>)), ci.model)
WelcomeInitClient(p, clients, exclude) ==
  FoldLeft(LAMBDA q, ci : IF ci.connected /\ ci.num # exclude THEN PutInitClient(q, ci) ELSE q, p, clients)

\* N_UNDO and N_REDO: what a client packed is passed on to the others, whole
\* and unread.  r is behind the type; gone is a client disconnected for it
MaxPacked == 2 ^ 16
RelayPacked(r, type, cn, unpacklen, packlen, spectates) ==
  IF spectates \/ packlen <= 0 \/ packlen > MaxPacked \/ unpacklen <= 0
  THEN [gone |-> FALSE, out |-> <<>>, r |-> IF packlen > 0 THEN SubBuf(r, packlen).r ELSE r]
  ELSE IF Len(r.buf) < packlen THEN [gone |-> TRUE, out |-> <<>>, r |-> r]
  ELSE LET head == FoldLeft(PutInt, Buffer(32 + packlen, 32 + packlen), <<type, cn, unpacklen, packlen>>)
       IN [gone |-> FALSE, out |-> Finalize(PutBytes(head, SubBuf(r, packlen).sub.buf)).buf, r |-> SubBuf(r, packlen).r]
RelayUndo(r, type, cn, spectates) ==
  LET lens == GetInts(r, 2) IN RelayPacked(lens.r, type, cn, lens.n[1], lens.n[2], spectates)
-----------------------------------------------------------------------------
\* filtertext(): chars are "text", "space" (the blank), "break" (other white
\* space), "odd" (neither printable nor space) and "color", which takes the
\* next char with it
RECURSIVE FilterText(_, _, _, _)
FilterText(src, whitespace, forcespace, len) ==
  LET c == Head(src)
      d == IF c = "break" /\ forcespace THEN "space" ELSE c
      rest(n) == FilterText(Tail(src), whitespace, forcespace, n)
  IN IF src = <<>> THEN <<>>
     ELSE IF c = "color" THEN (IF Len(src) = 1 THEN <<>> ELSE FilterText(SubSeq(src, 3, Len(src)), whitespace, forcespace, len))
     ELSE IF c = "odd" \/ (c = "break" /\ ~whitespace) THEN rest(len)
     ELSE IF len = 1 THEN <<d>> ELSE <<d>> \o rest(len - 1)
-----------------------------------------------------------------------------
(* ipmask: four octets, and of each the number of leading bits that count.  *)
(* Its text: octets, -1 for one left out, and a range, -1 for none.         *)

Bits(range) == [i \in 1..4 |-> Max({0, Min({8, range - 8 * (i - 1)})})]
Masked(ip, mask) == [i \in 1..4 |-> ip[i] - (ip[i] % 2 ^ (8 - mask[i]))]
ParseMask(text) ==
  LET octet(i) == IF i \in DOMAIN text.octets THEN text.octets[i] ELSE -1
      given == [i \in 1..4 |-> IF octet(i) >= 0 THEN 8 ELSE 0]
      range == Max({0, Min({32, text.range})})
      mask == IF range > 0 THEN Bits(range) ELSE given
  IN [ip |-> Masked([i \in 1..4 |-> Max({0, octet(i)}) % 256], mask), mask |-> mask]

\* print(): octets up to the last that counts; the range when all the bits
\* before it count and it ends within an octet
PrintMask(m) ==
  LET used == {i \in 1..4 : m.mask[i] > 0}
      last == Max(used \union {0})
      solid == \A i \in 1..last - 1 : m.mask[i] = 8
      range == 8 * (last - 1) + m.mask[last]
  IN [octets |-> [i \in 1..last |-> IF i \in used THEN m.ip[i] ELSE -1],
      range |-> IF last > 0 /\ solid /\ range % 8 # 0 THEN range ELSE -1]
CheckMask(m, host) == Masked(host, m.mask) = m.ip
=============================================================================
