----------------------------- MODULE Containers -----------------------------
(* The containers of src/shared/tools.h that the server keeps its state in. *)
(* A buffer is the sequence of its cells, those past the end included: a    *)
(* loop over cells is the fold of its moves, so what one overwrites and a   *)
(* later one reads is as in the code.                                       *)
EXTENDS Integers, Sequences, SequencesExt

CONSTANTS MinSize,     \* MINSIZE of a vector, 8
          SortSmall,   \* what insertionsort sorts alone, 10
          TableSize,   \* chains of a hash table, 1024
          ChunkSize,   \* CHUNKSIZE, 64
          RingSize     \* SIZE of a queue

Up(a, b) == [k \in 1..b - a + 1 |-> a + k - 1]
Down(a, b) == [k \in 1..a - b + 1 |-> a - k + 1]
Swap(b, i, j) == [b EXCEPT ![i] = b[j], ![j] = b[i]]
\* for(p in ps) buf[p + d] = buf[p];
Move(b, ps, d) == FoldLeft(LAMBDA c, p : [c EXCEPT ![p + d] = c[p]], b, ps)
-----------------------------------------------------------------------------
(* vector: cells and how many are in use.                                   *)
NoVector == [buf |-> <<>>, ulen |-> 0]
Contents(v) == SubSeq(v.buf, 1, v.ulen)

RECURSIVE Grown(_, _)
Grown(alen, sz) == IF alen >= sz THEN alen ELSE Grown(alen + alen \div 2, sz)

\* growbuf(): cells not in use hold rubbish
GrowBuf(v, sz) ==
  LET alen == IF v.buf = <<>> THEN (IF sz > MinSize THEN sz ELSE MinSize) ELSE Grown(Len(v.buf), sz)
  IN IF alen <= Len(v.buf) THEN v ELSE [v EXCEPT !.buf = Contents(v) \o [i \in 1..alen - v.ulen |-> -1]]

VAdd(v, x) ==
  LET w == IF v.ulen = Len(v.buf) THEN GrowBuf(v, v.ulen + 1) ELSE v
  IN [buf |-> [w.buf EXCEPT ![v.ulen + 1] = x], ulen |-> v.ulen + 1]
VDup(v) == VAdd(v, v.buf[v.ulen])
\* move(): an empty vector takes the other's buffer, a longer one its cells
VMove(v, w) ==
  LET g == GrowBuf(v, v.ulen + w.ulen)
  IN IF v.ulen = 0 THEN w
     ELSE [buf |-> FoldLeft(LAMBDA b, i : [b EXCEPT ![v.ulen + i] = w.buf[i]], g.buf, Up(1, w.ulen)), ulen |-> v.ulen + w.ulen]
VPut(v, xs) ==
  LET w == IF Len(v.buf) - v.ulen < Len(xs) THEN GrowBuf(v, v.ulen + Len(xs)) ELSE v
  IN [buf |-> FoldLeftDomain(LAMBDA b, i : [b EXCEPT ![v.ulen + i] = xs[i]], w.buf, xs), ulen |-> v.ulen + Len(xs)]

VRemove(v, i, n) == [buf |-> Move(v.buf, Up(i + n, v.ulen), -n), ulen |-> v.ulen - n]
VRemoveUnordered(v, i) ==
  [buf |-> IF v.ulen > 1 THEN [v.buf EXCEPT ![i] = v.buf[v.ulen]] ELSE v.buf, ulen |-> v.ulen - 1]
VFind(v, o) == IF o \in {v.buf[i] : i \in 1..v.ulen} THEN CHOOSE i \in 1..v.ulen : v.buf[i] = o /\ \A j \in 1..i - 1 : v.buf[j] # o ELSE 0
VAddUnique(v, o) == IF VFind(v, o) = 0 THEN VAdd(v, o) ELSE v

\* Wrong on purpose, to be put in the place of the next definition: only the first o is taken out
VRemoveObjOnce(v, o) == LET i == VFind(v, o) IN IF i = 0 THEN v ELSE VRemove(v, i, 1)
\* removeobj(): the cells after the first o close up over all of them
VRemoveObj(v, o) ==
  LET i == VFind(v, o)
      keep(s, j) == IF s.buf[j] = o THEN s ELSE [buf |-> [s.buf EXCEPT ![s.ulen + 1] = s.buf[j]], ulen |-> s.ulen + 1]
  IN IF i = 0 THEN v ELSE FoldLeft(keep, [v EXCEPT !.ulen = i - 1], Up(i + 1, v.ulen))
VReplaceWithLast(v, o) ==
  LET i == VFind(v, o)
  IN IF v.ulen = 0 THEN v
     ELSE [buf |-> IF i \in 1..v.ulen - 1 THEN [v.buf EXCEPT ![i] = v.buf[v.ulen]] ELSE v.buf, ulen |-> v.ulen - 1]

\* insert(): new cells at the end, the others move up from the last
VInsert(v, i, es) ==
  LET w == FoldLeft(LAMBDA u, e : VAdd(u, 0), IF Len(v.buf) - v.ulen < Len(es) THEN GrowBuf(v, v.ulen + Len(es)) ELSE v, es)
      b == Move(w.buf, Down(v.ulen, i), Len(es))
  IN [w EXCEPT !.buf = FoldLeftDomain(LAMBDA c, j : [c EXCEPT ![i + j - 1] = es[j]], b, es)]
VReverse(v) == [v EXCEPT !.buf = FoldLeft(LAMBDA b, i : Swap(b, i, v.ulen + 1 - i), @, Up(1, v.ulen \div 2))]
-----------------------------------------------------------------------------
(* sorting by a strict order, cells first..last - 1.                        *)
Lt(x, y) == x \div 10 < y \div 10  \* elements with equal keys still differ

RECURSIVE SinkIn(_, _, _, _)
SinkIn(b, start, j, tmp) ==
  IF j > start /\ Lt(tmp, b[j - 1]) THEN SinkIn([b EXCEPT ![j] = b[j - 1]], start, j - 1, tmp) ELSE [b EXCEPT ![j] = tmp]
InsertionSort(b, start, end) == FoldLeft(LAMBDA c, i : SinkIn(c, start, i, c[i]), b, Up(start + 1, end - 1))

\* the median of the first, the middle and the last becomes the pivot, the
\* other two stay at the ends, and what was last but one is in the middle
Median(b, start, mid, last) ==
  LET s == b[start]  m == b[mid]  e == b[last]
      cells(x, p, y) == [pivot |-> p, b |-> [b EXCEPT ![start] = x, ![last] = y, ![mid] = b[last - 1]]]
  IN IF Lt(s, m) THEN (IF Lt(e, s) THEN cells(e, s, m) ELSE IF Lt(e, m) THEN cells(s, e, m) ELSE cells(s, m, e))
     ELSE IF Lt(s, e) THEN cells(m, s, e)
     ELSE IF Lt(m, e) THEN cells(m, e, s) ELSE cells(e, m, s)

\* while(fun(*i, pivot)) if(++i >= j) ...; and while(fun(pivot, *--j)) ...
RECURSIVE Climb(_, _, _, _), Descend(_, _, _, _), Partition(_, _, _, _)
Climb(b, i, j, pivot) ==
  IF ~Lt(b[i], pivot) THEN [i |-> i, met |-> FALSE]
  ELSE IF i + 1 >= j THEN [i |-> i + 1, met |-> TRUE] ELSE Climb(b, i + 1, j, pivot)
Descend(b, i, j, pivot) ==
  IF ~Lt(pivot, b[j - 1]) THEN [j |-> j - 1, met |-> FALSE]
  ELSE IF i >= j - 1 THEN [j |-> j - 1, met |-> TRUE] ELSE Descend(b, i, j - 1, pivot)
Partition(b, i, j, pivot) ==
  LET up == Climb(b, i, j, pivot)
      down == Descend(b, up.i, j, pivot)
      swapped == Swap(b, up.i, down.j)
  IN IF up.met \/ down.met THEN [b |-> b, i |-> up.i]
     ELSE IF up.i + 1 < down.j THEN Partition(swapped, up.i + 1, down.j, pivot)
     ELSE [b |-> swapped, i |-> up.i + 1]

RECURSIVE QuickSort(_, _, _)
QuickSort(b, start, end) ==
  LET med == Median(b, start, start + (end - start) \div 2, end - 1)
      part == Partition(med.b, start + 1, end - 2, med.pivot)
      i == part.i
      c == [part.b EXCEPT ![end - 2] = part.b[i], ![i] = med.pivot]
  IN IF end - start <= SortSmall THEN InsertionSort(b, start, end)
     ELSE IF i - start < end - (i + 1) THEN QuickSort(QuickSort(c, start, i), i + 1, end)
     ELSE QuickSort(QuickSort(c, i + 1, end), start, i)
Sorted(b) == QuickSort(b, 1, Len(b) + 1)
-----------------------------------------------------------------------------
(* the vector as a heap, the least score first; indices from 0 as there.    *)
Score(b, i) == b[i + 1]
RECURSIVE UpHeap(_, _), DownHeap(_, _, _)
UpHeap(b, i) ==
  LET pi == (i - 1) \div 2
  IN IF i = 0 \/ Score(b, i) >= Score(b, pi) THEN b ELSE UpHeap(Swap(b, i + 1, pi + 1), pi)
DownHeap(b, n, i) ==
  LET ci == 2 * i + 1
      two == ci + 1 < n
      to(c) == DownHeap(Swap(b, c + 1, i + 1), n, c)
  IN IF ci >= n THEN b
     ELSE IF Score(b, i) > Score(b, ci) THEN (IF two /\ Score(b, ci + 1) < Score(b, ci) THEN to(ci + 1) ELSE to(ci))
     ELSE IF two /\ Score(b, ci + 1) < Score(b, i) THEN to(ci + 1) ELSE b
BuildHeap(v) == [v EXCEPT !.buf = FoldLeft(LAMBDA b, i : DownHeap(b, v.ulen, i), @, Down(v.ulen \div 2, 0))]
AddHeap(v, x) == LET w == VAdd(v, x) IN [w EXCEPT !.buf = UpHeap(@, w.ulen - 1)]
RemoveHeap(v) ==
  LET w == VRemoveUnordered(v, 1) IN IF w.ulen > 0 THEN [w EXCEPT !.buf = DownHeap(@, w.ulen, 0)] ELSE w
-----------------------------------------------------------------------------
(* hashbase: chains of <<key, data>>, the newest first, and unused nodes.   *)
NoTable == [chains |-> [h \in 0..TableSize - 1 |-> <<>>], unused |-> 0, chunks |-> 0, numelems |-> 0]
Hash(key) == key % TableSize
At(t, key) == SelectInSeq(t.chains[Hash(key)], LAMBDA e : e[1] = key)
HInsert(t, key, data) ==
  [chains |-> [t.chains EXCEPT ![Hash(key)] = <<<<key, data>>>> \o @],
   unused |-> (IF t.unused = 0 THEN ChunkSize ELSE t.unused) - 1,
   chunks |-> IF t.unused = 0 THEN t.chunks + 1 ELSE t.chunks, numelems |-> t.numelems + 1]
\* access(key, elem): what is there stays
HAccess(t, key, data) == IF At(t, key) = 0 THEN HInsert(t, key, data) ELSE t
\* operator[](key) = data
HSet(t, key, data) ==
  IF At(t, key) = 0 THEN HInsert(t, key, data) ELSE [t EXCEPT !.chains[Hash(key)][At(t, key)] = <<key, data>>]
HRemove(t, key) ==
  IF At(t, key) = 0 THEN t
  ELSE [t EXCEPT !.chains[Hash(key)] = RemoveAt(@, At(t, key)), !.unused = @ + 1, !.numelems = @ - 1]
HClear(t) == IF t.numelems = 0 THEN t ELSE NoTable
-----------------------------------------------------------------------------
(* queue: a ring of RingSize cells.                                         *)
NoRing == [data |-> [i \in 0..RingSize - 1 |-> -1], head |-> 0, tail |-> 0, len |-> 0]
Wrapped(i) == IF i >= RingSize THEN i - RingSize ELSE IF i < 0 THEN i + RingSize ELSE i
Removing(q, offset) == q.data[Wrapped(q.head + offset)]
Added(q, offset) == q.data[IF q.tail - offset > 0 THEN q.tail - offset - 1 ELSE q.tail - offset - 1 + RingSize]
QAdd(q, e) == [q EXCEPT !.data[q.tail] = e, !.tail = Wrapped(@ + 1), !.len = IF @ < RingSize THEN @ + 1 ELSE @]
QPop(q) == [q EXCEPT !.tail = Wrapped(@ - 1), !.len = @ - 1]
QRemove(q) == [q EXCEPT !.head = Wrapped(@ + 1), !.len = @ - 1]
\* remove(offset): the later ones move down, over the end of the ring
QRemoveAt(q, offset) ==
  LET at == q.head + offset
      over == [Move(q.data, Up(at + 1, RingSize - 1), -1) EXCEPT ![RingSize - 1] = q.data[0]]
  IN [QPop(q) EXCEPT !.data = IF at >= RingSize THEN Move(@, Up(at - RingSize + 1, q.tail - 1), -1)
                              ELSE IF q.head < q.tail THEN Move(@, Up(at + 1, q.tail - 1), -1)
                              ELSE Move(over, Up(1, q.tail - 1), -1)]
\* reserve(), a put and advance(): as much as fits before the end
QReserve(q, es) ==
  LET r == IF q.len = 0 THEN [q EXCEPT !.head = 0, !.tail = 0] ELSE q
      n == IF Len(es) < RingSize - r.tail THEN Len(es) ELSE RingSize - r.tail
      sz == IF r.len + n > RingSize THEN RingSize - r.len ELSE n
  IN [r EXCEPT !.data = FoldLeft(LAMBDA d, i : [d EXCEPT ![r.tail + i - 1] = es[i]], @, Up(1, n)),
               !.tail = Wrapped(@ + sz), !.len = @ + sz]
-----------------------------------------------------------------------------
(* unionfind: ranks and parents, -1 at a root.                              *)
NoSets == <<>>
Spread(u, k) == u \o [i \in 1..(IF k >= Len(u) THEN k + 1 - Len(u) ELSE 0) |-> [rank |-> 0, next |-> -1]]
RECURSIVE UFind(_, _), CompressFind(_, _)
UFind(u, k) == IF k >= Len(u) \/ u[k + 1].next < 0 THEN k ELSE UFind(u, u[k + 1].next)
\* compressfind(): every node passed points at the root
CompressFind(u, k) == IF u[k + 1].next < 0 THEN u ELSE [CompressFind(u, u[k + 1].next) EXCEPT ![k + 1].next = UFind(u, k)]
Unite(u, x, y) ==
  LET w == CompressFind(CompressFind(Spread(u, IF x > y THEN x ELSE y), x), y)
      a == UFind(w, x)  b == UFind(w, y)
  IN IF a = b THEN w
     ELSE IF w[a + 1].rank < w[b + 1].rank THEN [w EXCEPT ![a + 1].next = b]
     ELSE [w EXCEPT ![b + 1] = [next |-> a, rank |-> IF w[a + 1].rank = @.rank THEN @.rank + 1 ELSE @.rank]]
=============================================================================
