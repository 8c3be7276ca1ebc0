----------------------------- MODULE RangeCoder -----------------------------
(* ENet's packet compressor (src/enet/compress.c): a range coder driven by  *)
(* adaptive contexts of order two.  The binary tree of a context's symbols  *)
(* is the function from their values to their nodes; `under' is the sum it  *)
(* keeps.  A byte has B values and every width scales with it: counts are   *)
(* bytes, totals two bytes, the coder's words four.                         *)
EXTENDS Integers, Sequences, FiniteSetsExt, TLC

CONSTANTS B,           \* 256
          MaxSymbols,  \* 4096 nodes in a coder
          OutLimit     \* bytes of output

Bottom == B * B
Top == B * B * B
Width == Top * B
Order == 2
SymbolDelta == 3
SymbolMinimum == 1
EscapeMinimum == 1
SubDelta == 2
SubEscapeDelta == 5
Root == 1

Node(v, n) == [value |-> v, count |-> n, kids |-> <<>>, escapes |-> 0, total |-> 0, parent |-> Root]

\* ENET_CONTEXT_CREATE of the root, all else forgotten
NewModel == [nodes |-> <<[Node(0, 0) EXCEPT !.escapes = EscapeMinimum, !.total = EscapeMinimum + B * SymbolMinimum]>>,
             predicted |-> Root, order |-> 0]

Below(m, c, v) == {w \in DOMAIN m.nodes[c].kids : w < v}
CountOf(m, c, w) == m.nodes[m.nodes[c].kids[w]].count
Under(m, c, v) == FoldSet(LAMBDA w, n : n + CountOf(m, c, w), 0, Below(m, c, v))

\* the node of v in a context, if any, and its part of the context's range
Find(m, c, v, minimum) ==
  LET known == v \in DOMAIN m.nodes[c].kids
  IN [known |-> known,
      sym |-> IF known THEN m.nodes[c].kids[v] ELSE Len(m.nodes) + 1,
      under |-> v * minimum + Under(m, c, v),
      count |-> minimum + (IF known THEN CountOf(m, c, v) ELSE 0)]

\* ENET_CONTEXT_ENCODE: the symbol gains weight, or is created
Touch(m, c, v, update) ==
  LET f == Find(m, c, v, 0)
  IN IF f.known THEN [m EXCEPT !.nodes[f.sym].count = (@ + update) % B]
     ELSE [m EXCEPT !.nodes = Append([@ EXCEPT ![c].kids = (v :> f.sym) @@ @], Node(v, update))]

\* ENET_CONTEXT_RESCALE: all weights are halved
Rescale(m, c, minimum) ==
  LET kids == {m.nodes[c].kids[v] : v \in DOMAIN m.nodes[c].kids}
      nodes == [n \in DOMAIN m.nodes |->
                  IF n \in kids THEN [m.nodes[n] EXCEPT !.count = @ - @ \div 2] ELSE m.nodes[n]]
      escapes == m.nodes[c].escapes - m.nodes[c].escapes \div 2
      sum == FoldSet(LAMBDA n, s : s + nodes[n].count, 0, kids)
  IN [m EXCEPT !.nodes = [nodes EXCEPT ![c].escapes = escapes,
                                       ![c].total = sum + escapes + B * minimum]]

\* the context's total after a symbol that had `count'; rescaled when a
\* weight or the total nears its width
Grow(m, c, count, delta, minimum) ==
  LET grown == [m EXCEPT !.nodes[c].total = @ + delta]
  IN IF count > B - 1 - 2 * delta + minimum \/ grown.nodes[c].total > Bottom - B
     THEN Rescale(grown, c, minimum) ELSE grown

Escape(m, c) == [m EXCEPT !.nodes[c].escapes = @ + SubEscapeDelta, !.nodes[c].total = @ + SubEscapeDelta]

\* *parent = symbol: the prediction, or the parent of the symbol one order up
Link(m, slot, sym) ==
  IF slot = 0 THEN [m EXCEPT !.predicted = sym] ELSE [m EXCEPT !.nodes[slot].parent = sym]

\* nextInput: the order grows to two, symbols are freed when they run out
NextInput(m) ==
  LET n == IF m.order >= Order THEN [m EXCEPT !.predicted = m.nodes[m.predicted].parent]
           ELSE [m EXCEPT !.order = @ + 1]
  IN IF Len(n.nodes) >= MaxSymbols - Order THEN NewModel ELSE n
-----------------------------------------------------------------------------
(* The coder: low and range are words, a code word follows in the decoder.  *)

Coder == [low |-> 0, range |-> Width - 1, code |-> 0, out |-> <<>>, in |-> <<>>]

\* one byte leaves the coder at the top and, decoding, one enters below
Shift(r) ==
  [low |-> (r.low * B) % Width, range |-> (r.range * B) % Width,
   code |-> ((r.code * B) % Width) + (IF r.in = <<>> THEN 0 ELSE Head(r.in)),
   out |-> Append(r.out, r.low \div Top), in |-> IF r.in = <<>> THEN <<>> ELSE Tail(r.in)]

RECURSIVE Normalize(_)
Normalize(r) ==
  IF r.low \div Top = ((r.low + r.range) % Width) \div Top THEN Normalize(Shift(r))
  ELSE IF r.range >= Bottom THEN r
  ELSE Normalize(Shift([r EXCEPT !.range = (Width - r.low) % Bottom]))

\* ENET_RANGE_CODER_ENCODE; the decoder has divided already
Narrow(r, under, count) ==
  Normalize([r EXCEPT !.low = (@ + under * r.range) % Width, !.range = @ * count])
Encode(r, under, count, total) == Narrow([r EXCEPT !.range = @ \div total], under, count)

\* ENET_RANGE_CODER_READ
Divided(r, total) == [r EXCEPT !.range = @ \div total]
Read(d) == (((d.code - d.low) % Width) \div d.range) % Bottom

RECURSIVE Flush(_)
Flush(r) == IF r.low = 0 THEN r.out ELSE Flush(Shift(r))
-----------------------------------------------------------------------------
\* the coder and the model of a compressor before any input
Compressor == [r |-> Coder, m |-> NewModel]

\* from the longest context down: the first that knows v encodes it, those
\* that do not encode an escape and learn it
RECURSIVE CompressAt(_, _, _, _)
CompressAt(s, c, slot, v) ==
  LET root == c = Root
      f == Find(s.m, c, v, IF root THEN SymbolMinimum ELSE 0)
      ctx == s.m.nodes[c]
      learnt == Link(Touch(s.m, c, v, IF root THEN SymbolDelta ELSE SubDelta), slot, f.sym)
  IN IF root
     THEN [r |-> Encode(s.r, ctx.escapes + f.under, f.count, ctx.total),
           m |-> Grow(learnt, c, f.count, SymbolDelta, SymbolMinimum)]
     ELSE IF f.count > 0
     THEN [r |-> Encode(s.r, ctx.escapes + f.under, f.count, ctx.total),
           m |-> Grow(learnt, c, f.count, SubDelta, 0)]
     ELSE LET m == Grow(Escape(learnt, c), c, 0, SubDelta, 0)
              r == IF ctx.escapes > 0 /\ ctx.escapes < ctx.total
                   THEN Encode(s.r, 0, ctx.escapes, ctx.total) ELSE s.r
          IN CompressAt([r |-> r, m |-> m], m.nodes[c].parent, f.sym, v)

CompressByte(s, v) ==
  LET t == CompressAt(s, s.m.predicted, 0, v) IN [t EXCEPT !.m = NextInput(@)]

\* what enet_range_coder_compress() returns: nothing when it does not fit
Compressed(s) == LET out == Flush(s.r) IN IF Len(out) > OutLimit THEN <<>> ELSE out
-----------------------------------------------------------------------------
Seed(in) ==
  LET byte(i) == IF i \in DOMAIN in THEN in[i] ELSE 0
  IN [Coder EXCEPT !.code = byte(1) * Top + byte(2) * Bottom + byte(3) * B + byte(4),
                   !.in = SubSeq(in, 5, Len(in))]

Holds(m, c, v, code, minimum) ==
  LET f == Find(m, c, v, minimum) IN f.under <= code /\ code < f.under + f.count

\* the symbol whose part of the context holds the code (ENET_CONTEXT_DECODE);
\* only the root knows symbols it has not seen
Symbols(m, c, code, minimum) ==
  {v \in (IF c = Root THEN 0..(B - 1) ELSE DOMAIN m.nodes[c].kids) : Holds(m, c, v, code, minimum)}

Fail == [v |-> -1]

\* find the context that decodes the next byte, reading escapes on the way
RECURSIVE DecodeAt(_, _)
DecodeAt(s, c) ==
  LET ctx == s.m.nodes[c]
      minimum == IF c = Root THEN SymbolMinimum ELSE 0
      d == Divided(s.r, ctx.total)
      code == Read(d)
      hits == Symbols(s.m, c, code - ctx.escapes, minimum)
      v == CHOOSE x \in hits : TRUE
      f == Find(s.m, c, v, minimum)
  IN IF c # Root /\ (ctx.escapes = 0 \/ ctx.escapes >= ctx.total) THEN DecodeAt(s, ctx.parent)
     ELSE IF code < ctx.escapes
     THEN IF c = Root THEN [Fail EXCEPT !.v = -2]
          ELSE DecodeAt([s EXCEPT !.r = Narrow(d, 0, ctx.escapes)], ctx.parent)
     ELSE IF hits = {} THEN Fail
     ELSE [v |-> v, at |-> c, sym |-> f.sym, r |-> Narrow(d, ctx.escapes + f.under, f.count),
           m |-> Grow(Touch(s.m, c, v, IF c = Root THEN SymbolDelta ELSE SubDelta), c, f.count,
                      IF c = Root THEN SymbolDelta ELSE SubDelta, minimum)]

\* patchContexts: the longer contexts learn the byte too
RECURSIVE Patch(_, _, _, _, _)
Patch(m, c, slot, got, sym) ==
  IF c = got.at THEN Link(m, slot, sym)
  ELSE LET f == Find(m, c, got.v, 0)
           learnt == Link(Touch(m, c, got.v, SubDelta), slot, f.sym)
           n == Grow(IF f.count = 0 THEN Escape(learnt, c) ELSE learnt, c, f.count, SubDelta, 0)
       IN Patch(n, n.nodes[c].parent, f.sym, got, sym)

RECURSIVE DecompressFrom(_, _)
DecompressFrom(s, out) ==
  LET got == DecodeAt(s, s.m.predicted)
      m == Patch(got.m, got.m.predicted, 0, got, got.sym)
  IN IF got.v = -2 THEN out
     ELSE IF got.v = -1 \/ Len(out) >= OutLimit THEN <<>>
     ELSE DecompressFrom([r |-> got.r, m |-> NextInput(m)], Append(out, got.v))

\* enet_range_coder_decompress()
Decompressed(in) == DecompressFrom([r |-> Seed(in), m |-> NewModel], <<>>)
-----------------------------------------------------------------------------
\* What the peer decompresses is what was compressed, for every packet that
\* fits: encoder and decoder rebuild the same contexts in different orders.
RoundTrips(input, s) ==
  LET packed == Compressed(s) IN packed # <<>> => Decompressed(packed) = input
=============================================================================
