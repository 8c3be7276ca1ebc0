------------------------------ MODULE Streams ------------------------------
(* Files in src/shared/stream.cpp: normal paths and where files are found,  *)
(* gzip streams over a small buffer, and text in UTF-8.  A path is a        *)
(* sequence of characters, a file a sequence of bytes.  Of zlib: a byte of  *)
(* data is a byte of a deflated stream, which ends with End; deflate holds  *)
(* bytes back until it has `Window' of them.                                *)
EXTENDS Integers, Sequences, SequencesExt, FiniteSetsExt

CONSTANTS BufSize,  \* BUFSIZE of a gzstream, 16384
          Window

Ch(t, i) == IF i \in DOMAIN t THEN t[i] ELSE ""
Cut(t, a, b) == SubSeq(t, 1, a - 1) \o SubSeq(t, b + 1, Len(t))
NextSlash(t, from) == SelectInSubSeq(t, from, Len(t), LAMBDA c : c = "/")

\* the directory that begins before `prev', which follows a slash
RECURSIVE DirStart(_, _)
DirStart(t, p) == IF p > 1 /\ t[p - 1] # "/" THEN DirStart(t, p - 1) ELSE p

\* path(): "." and the directories that ".." leaves are moved over
RECURSIVE Normalised(_, _)
Normalised(t, cur) ==
  LET prev == IF Ch(t, cur) = "/" THEN cur + 1 ELSE cur
      next == NextSlash(t, prev)
      up == Cut(t, prev, next + 3)
  IN IF next = 0 THEN t
     ELSE IF prev + 1 = next /\ t[prev] = "." THEN Normalised(Cut(t, prev, next), prev)
     ELSE IF ~(Ch(t, next + 1) = "." /\ Ch(t, next + 2) = "." /\ Ch(t, next + 3) = "/") THEN Normalised(t, next)
     ELSE IF prev + 2 = next /\ t[prev] = "." /\ t[prev + 1] = "." THEN Normalised(t, next)
     ELSE Normalised(up, IF prev > 2 /\ t[prev - 1] = "/" THEN DirStart(up, prev - 2) ELSE prev)

\* a path is parts between "&", each with a command in "<>" ahead of it
RECURSIVE NormalPath(_)
NormalPath(s) ==
  LET amp == SelectInSeq(s, LAMBDA c : c = "&")
      part == IF amp = 0 THEN s ELSE SubSeq(s, 1, amp - 1)
      command == IF Ch(part, 1) = "<" THEN SelectLastInSeq(part, LAMBDA c : c = ">") ELSE 0
      file == [i \in 1..Len(part) - command |-> IF part[i + command] = "\\" THEN "/" ELSE part[i + command]]
      done == SubSeq(part, 1, command) \o Normalised(file, 1)
  IN IF Ch(part, 1) = "<" /\ command = 0 THEN part
     ELSE IF amp = 0 THEN done ELSE done \o <<"&">> \o NormalPath(SubSeq(s, amp + 1, Len(s)))

\* fixpackagedir()
PackageDir(s) ==
  LET p == NormalPath(s) IN IF p # <<>> /\ Last(p) # "/" THEN Append(p, "/") ELSE p

\* findfile(): disk is the set of files, home is "" or a directory; a package
\* directory may hold only files under its filter
Filtered(f, filter) == filter = "" \/ f.top = filter
FindFile(disk, home, packages, f, mode) ==
  LET hits == {i \in DOMAIN packages : Filtered(f, packages[i].filter) /\ <<packages[i].dir, f>> \in disk}
  IN IF home # "" /\ (mode = "w" \/ <<home, f>> \in disk) THEN <<home, f>>
     ELSE IF mode = "w" \/ hits = {} THEN <<".", f>>
     ELSE <<packages[Min(hits)].dir, f>>
-----------------------------------------------------------------------------
(* gzstream.  Writing: out is in the buffer, held in zlib, file on disk.    *)
Magic1 == 31
Magic2 == 139
Deflated == 8
OsUnix == 3
End == 99
WriteHeader == <<Magic1, Magic2, Deflated, 0, 0, 0, 0, 0, 0, OsUnix>>

\* room is avail_out
GzWriter == [file |-> WriteHeader, out |-> <<>>, room |-> 0, held |-> <<>>, total |-> 0]

\* the bytes deflate() puts out as far as there is room
Emit(w, bytes) ==
  LET n == Min({w.room, Len(bytes)})
  IN [w EXCEPT !.out = @ \o SubSeq(bytes, 1, n), !.room = @ - n, !.held = SubSeq(bytes, n + 1, Len(bytes))]
FlushBuf(w) == [w EXCEPT !.file = @ \o w.out, !.out = <<>>, !.room = BufSize]
RECURSIVE GzWrite(_, _)
GzWrite(w, bytes) ==
  LET r == IF w.room = 0 THEN FlushBuf(w) ELSE w
      d == [r EXCEPT !.held = Append(@, Head(bytes)), !.total = @ + 1]
  IN IF bytes = <<>> THEN w
     ELSE GzWrite(IF Len(r.held) >= Window THEN Emit([r EXCEPT !.held = <<>>], r.held)
                  ELSE d, IF Len(r.held) >= Window THEN bytes ELSE Tail(bytes))
\* flush(): Z_SYNC_FLUSH first
GzFlush(w) == FlushBuf(Emit(w, w.held))
\* finishwriting()
RECURSIVE Finish(_)
Finish(w) ==
  LET d == Emit(w, w.held)
  IN IF w.room = 0 THEN Finish(FlushBuf(w))
     ELSE IF d.held # <<>> THEN Finish(FlushBuf(d))
     ELSE FlushBuf(d)
GzClosed(w) ==
  LET f == Finish([w EXCEPT !.held = Append(@, End)]) IN f.file \o <<w.total, w.total>>

\* Reading: buf holds the file up to pos, off bytes of it are used
GzReader(file) == [file |-> file, pos |-> 0, buf |-> <<>>, off |-> 0, reading |-> TRUE,
                   header |-> 0, in |-> 0, total |-> 0, got |-> <<>>]
Avail(r) == Len(r.buf) - r.off
ReadBuf(r, size) ==
  LET e == IF Avail(r) = 0 THEN [r EXCEPT !.buf = <<>>, !.off = 0] ELSE r
      n == Min({size, BufSize - Len(e.buf), Len(r.file) - r.pos})
  IN [e EXCEPT !.buf = @ \o SubSeq(r.file, r.pos + 1, r.pos + n), !.pos = @ + n]
\* readbyte(): the byte is Last of got
ReadByte(r, size) ==
  LET b == IF Avail(r) = 0 THEN ReadBuf(r, size) ELSE r
  IN IF Avail(b) = 0 THEN [b EXCEPT !.got = Append(@, 0)]
     ELSE [b EXCEPT !.off = @ + 1, !.got = Append(@, b.buf[b.off + 1])]
SkipBytes(r, n) ==
  IF n <= Avail(r) THEN [r EXCEPT !.off = @ + n] ELSE [r EXCEPT !.off = Len(r.buf), !.pos = @ + n - Avail(r)]
RECURSIVE SkipName(_)
SkipName(r) == LET b == ReadByte(r, 512) IN IF Last(b.got) = 0 THEN b ELSE SkipName(b)

\* checkheader()
Marked(flags, bit) == (flags \div bit) % 2 = 1
SkipExtra(r) == LET by(l) == SkipBytes(l, l.got[5] + 256 * l.got[6]) IN by(ReadByte(ReadByte(r, 512), 512))
SkipFields(r, flags) ==
  LET extra(q) == IF Marked(flags, 4) THEN SkipExtra(q) ELSE q
      name(q, bit) == IF Marked(flags, bit) THEN SkipName(q) ELSE q
      sum(q) == IF Marked(flags, 2) THEN SkipBytes(q, 2) ELSE q
  IN sum(name(name(extra(SkipBytes(r, 6)), 8), 16))
CheckHeader(file) ==
  LET found(h, head) == [h EXCEPT !.got = <<>>, !.header = h.pos - Avail(h),
                           !.reading = SubSeq(head, 1, 3) = <<Magic1, Magic2, Deflated>> /\ head[4] < 32]
      after(a) == found(SkipFields(a, a.got[4]), a.got)
  IN after(FoldLeft(LAMBDA r, i : ReadByte(r, BufSize), ReadBuf(GzReader(file), 10), <<1, 2, 3, 4>>))

\* read(): as many as there are
RECURSIVE GzRead(_, _)
GzRead(r, len) ==
  LET b == IF Avail(r) = 0 THEN ReadBuf(r, BufSize) ELSE r
      x == b.buf[b.off + 1]
      used == [b EXCEPT !.off = @ + 1, !.in = @ + 1]
  IN IF len = 0 \/ ~r.reading THEN r
     ELSE IF Avail(b) = 0 \/ x = End THEN [b EXCEPT !.reading = FALSE]
     ELSE GzRead([used EXCEPT !.total = @ + 1, !.got = Append(@, x)], len - 1)

\* seek() from the start: back to the header, in the buffer if it is there
GzSeek(r, to) ==
  LET back == [r EXCEPT !.pos = r.header, !.in = 0, !.total = 0]
      rewound == IF r.in <= r.off THEN [back EXCEPT !.off = r.off - r.in] ELSE [back EXCEPT !.buf = <<>>, !.off = 0]
      s == IF to >= r.total THEN GzRead(r, to - r.total) ELSE GzRead(rewound, to)
  IN IF r.reading THEN [s EXCEPT !.got = <<>>] ELSE r

\* The bytes written are read again, in any pieces, and after a seek; one
\* that goes back while the buffer holds the start of the stream leaves the
\* file there too, and is sound only when the buffer holds all of it.
GzKeeps(w, bytes, from, to) ==
  LET rest(q) == GzRead([q EXCEPT !.got = <<>>], 1 + Len(bytes)).got
      left(q, n) == rest(q) = SubSeq(bytes, n + 1, Len(bytes))
      sought(s) == s.reading => left(s, to)
      keeps(r) == /\ r.got = SubSeq(bytes, 1, from) /\ left(r, from)
                  /\ to >= from \/ r.in > r.off \/ r.pos = Len(r.file) => sought(GzSeek(r, to))
  IN keeps(GzRead(CheckHeader(GzClosed(w)), from))
-----------------------------------------------------------------------------
(* encodeutf8() and decodeutf8() over Unicode; what cube2uni and uni2cube   *)
(* have no letter for is left out of a text before.                         *)
Colour == 12  \* begins a colour, which is not text

Tail6(uni, k) == 128 + ((uni \div 64 ^ k) % 64)
Letter(uni) ==
  IF uni < 2 ^ 7 THEN <<uni>>
  ELSE IF uni < 2 ^ 11 THEN <<192 + uni \div 64, Tail6(uni, 0)>>
  ELSE IF uni < 2 ^ 16 THEN <<224 + uni \div 64 ^ 2, Tail6(uni, 1), Tail6(uni, 0)>>
  ELSE <<240 + uni \div 64 ^ 3, Tail6(uni, 2), Tail6(uni, 1), Tail6(uni, 0)>>

\* as many letters as there is room for; carry is how many were taken
RECURSIVE EncodeUtf8(_, _, _, _)
EncodeUtf8(src, room, out, carry) ==
  LET c == Head(src)
  IN IF src = <<>> THEN [out |-> out, carry |-> carry]
     ELSE IF room = 0 \/ (c # Colour /\ Len(Letter(c)) > room) THEN [out |-> out, carry |-> carry]
     ELSE IF c = Colour THEN EncodeUtf8(SubSeq(src, 3, Len(src)), room, out, carry + Min({2, Len(src)}))
     ELSE EncodeUtf8(Tail(src), room - Len(Letter(c)), out \o Letter(c), carry + 1)

\* utf8stream::write(): buffer after buffer
RECURSIVE WriteUtf8(_, _)
WriteUtf8(src, size) ==
  LET e == EncodeUtf8(src, size, <<>>, 0)
  IN IF src = <<>> THEN <<>> ELSE e.out \o WriteUtf8(SubSeq(src, e.carry + 1, Len(src)), size)

\* a lead byte announces its followers; where one is missing the bytes so
\* far are dropped, and so are followers without a lead.  It stops behind a
\* lead whose followers have not come; used is how many bytes it took
Followers(c) == IF c < 224 THEN 1 ELSE IF c < 240 THEN 2 ELSE IF c < 248 THEN 3 ELSE IF c < 252 THEN 4 ELSE 5
Payload(c) == IF c < 224 THEN c % 32 ELSE IF c < 240 THEN c % 16 ELSE IF c < 248 THEN c % 8 ELSE c % 4
RECURSIVE DecodeUtf8(_)
DecodeUtf8(src) ==
  LET c == Head(src)
      n == Followers(c)
      bad == SelectInSubSeq(src, 2, n + 1, LAMBDA b : b \notin 128..191)
      then(out, k) == LET d == DecodeUtf8(SubSeq(src, k, Len(src))) IN [out |-> out \o d.out, used |-> d.used + k - 1]
  IN IF src = <<>> THEN [out |-> <<>>, used |-> 0]
     ELSE IF c < 128 THEN then(<<c>>, 2)
     ELSE IF c < 192 \/ c >= 254 THEN then(<<>>, 2)
     ELSE IF Len(src) - 1 < n THEN [out |-> <<>>, used |-> 1]
     ELSE IF bad > 0 THEN then(<<>>, bad)
     ELSE then(<<FoldLeft(LAMBDA u, b : 64 * u + (b % 64), Payload(c), SubSeq(src, 2, n + 1))>>, n + 2)

\* loadfile(): "fails" is a text that is not there
Bom == <<239, 187, 191>>
LoadFile(file, utf8) ==
  LET read == IF utf8 /\ IsPrefix(Bom, file) THEN SubSeq(file, 4, Len(file)) ELSE file
  IN IF file = <<>> THEN "fails" ELSE IF utf8 THEN DecodeUtf8(read).out ELSE read

\* utf8stream, reading: buf begins with `carry' letters, of which `read' are
\* gone; bytes follow.  at is the position of the file, got what was read
Utf8Header(r) ==
  LET head == SubSeq(r.file, 1, Min({3, Len(r.file)}))
  IN [r EXCEPT !.buf = IF head = Bom THEN <<>> ELSE head, !.at = Len(head)]
Utf8Reader(file) ==
  Utf8Header([file |-> file, at |-> 0, buf |-> <<>>, read |-> 0, carry |-> 0, pos |-> 0, reading |-> TRUE, got |-> <<>>])

\* readbuf(): what follows the letters moves to the front.  When all bytes are
\* used, those that the letters did not overwrite stay in the buffer
Utf8ReadBuf(r, size) ==
  LET rest == SubSeq(r.buf, r.carry + 1, Len(r.buf))
      n == Min({size - Len(rest), Len(r.file) - r.at})
      bytes == rest \o SubSeq(r.file, r.at + 1, r.at + n)
      d == DecodeUtf8(bytes)
      from == IF d.used < Len(bytes) THEN d.used ELSE Len(d.out)
  IN IF n = 0 THEN [r EXCEPT !.buf = rest, !.read = 0, !.carry = 0, !.reading = FALSE]
     ELSE [r EXCEPT !.buf = d.out \o SubSeq(bytes, from + 1, Len(bytes)), !.read = 0, !.carry = Len(d.out), !.at = @ + n]

\* read(); getline() ends behind a `newline', and fails when nothing is left
RECURSIVE Utf8Read(_, _, _, _)
Utf8Read(r, size, len, newline) ==
  LET x == r.buf[r.read + 1]
      took == [r EXCEPT !.read = @ + 1, !.pos = @ + 1, !.got = Append(@, x)]
  IN IF len = 0 \/ ~r.reading THEN r
     ELSE IF r.read >= r.carry THEN Utf8Read(Utf8ReadBuf(r, size), size, len, newline)
     ELSE IF x = newline THEN took ELSE Utf8Read(took, size, len - 1, newline)

\* seek() from the start
Utf8Seek(r, size, to) ==
  LET from == IF to >= r.pos THEN r ELSE Utf8Header([r EXCEPT !.read = 0, !.carry = 0, !.pos = 0])
  IN IF r.reading THEN [Utf8Read(from, size, to - from.pos, -1) EXCEPT !.got = <<>>] ELSE r
-----------------------------------------------------------------------------
(* Who owns a stream: open ones, each with the stream it reads or writes    *)
(* through and whether it closes that; those that were deleted.             *)
NoStreams == [open |-> <<>>, next |-> 1, deleted |-> <<>>]
NewStream(h, source, autoclose) ==
  [h EXCEPT !.open = (h.next :> [source |-> source, autoclose |-> autoclose]) @@ @, !.next = @ + 1]
\* the destructors, which close()
RECURSIVE DeleteStream(_, _)
DeleteStream(h, s) ==
  LET t == [h EXCEPT !.open = [x \in DOMAIN @ \ {s} |-> @[x]], !.deleted = Append(@, s)]
  IN IF h.open[s].autoclose THEN DeleteStream(t, h.open[s].source) ELSE t

\* openrawfile(), opentempfile(): `opens' is what the system does
OpenRawFile(h, opens) == IF opens THEN NewStream(h, 0, FALSE) ELSE h
\* opengzfile(), openutf8file(): through `file', or with 0 through one it
\* opens; a stream that fails to open has not taken its source yet
OpenThrough(h, file, opens, fits) ==
  LET s == IF file = 0 THEN OpenRawFile(h, opens) ELSE h
      source == IF file = 0 THEN h.next ELSE file
  IN IF file = 0 /\ ~opens THEN h
     ELSE IF fits THEN NewStream(s, source, file = 0)
     ELSE IF file = 0 THEN DeleteStream(s, source) ELSE s
-----------------------------------------------------------------------------
(* Package directories: a path is a sequence of names, "~" the home of the  *)
(* user.  A directory with a "packages" in it, not at its start, holds only *)
(* files under that.                                                        *)
\* subhomedir(): <<>> when there is no home to put there
SubHomeDir(dir, home) ==
  LET sub == SelectInSeq(dir, LAMBDA c : c = "~")
  IN IF sub = 0 THEN dir ELSE IF home = <<>> THEN <<>> ELSE SubSeq(dir, 1, sub - 1) \o home \o SubSeq(dir, sub + 1, Len(dir))
\* sethomedir()
SetHomeDir(homedir, dir, home) == IF SubHomeDir(dir, home) = <<>> THEN homedir ELSE SubHomeDir(dir, home)
\* addpackagedir()
AddPackageDir(dirs, dir, home) ==
  LET pdir == SubHomeDir(dir, home)
      filter == SelectInSubSeq(pdir, 2, Len(pdir), LAMBDA c : c = "packages")
      cut == IF filter = 0 THEN Len(pdir) + 1 ELSE filter
  IN IF pdir = <<>> THEN dirs
     ELSE Append(dirs, [dir |-> SubSeq(pdir, 1, cut - 1), filter |-> SubSeq(pdir, cut, Len(pdir))])
-----------------------------------------------------------------------------
RECURSIVE Split(_)
Split(t) ==
  LET next == NextSlash(t, 1)
  IN IF next = 0 THEN <<t>> ELSE <<SubSeq(t, 1, next - 1)>> \o Split(SubSeq(t, next + 1, Len(t)))
Dots == <<".", ".">>
Resolved(t) ==
  FoldLeft(LAMBDA at, c : IF c \in {<<>>, <<".">>} THEN at
                          ELSE IF c # Dots THEN Append(at, c)
                          ELSE IF at # <<>> /\ Last(at) # Dots THEN Front(at)
                          ELSE IF Ch(t, 1) = "/" THEN at ELSE Append(at, c), <<>>, Split(t))
EmptyDirs(t) == \E i \in 1..Len(t) - 1 : t[i] = "/" /\ t[i + 1] = "/"

\* A normal path names the file the path named, part for part; only empty
\* directories, which the loop takes for names, may be left wrongly.
PathKeeps(s) ==
  ~EmptyDirs(s) => /\ Resolved(NormalPath(s)) = Resolved(s)
                   /\ LET c == <<"<", "a", ">">> \o s IN NormalPath(c \o <<"&">> \o c) = NormalPath(c) \o <<"&">> \o NormalPath(c)
                   /\ NormalPath(<<"<", "a", ">">> \o s) = <<"<", "a", ">">> \o NormalPath(s)
                   /\ Resolved(PackageDir(s) \o <<"b">>) = Append(Resolved(s), <<"b">>)

\* A file written is the one found again.  Without a home directory it is in
\* the working directory, and a package directory's file of that name hides it.
WrittenFound(disk, home, packages, f) ==
  LET at == FindFile(disk, home, packages, f, "w")
      found == FindFile(disk \union {at}, home, packages, f, "r")
  IN found = at \/ (home = "" /\ found[1] \in {packages[i].dir : i \in DOMAIN packages})

RECURSIVE Plain(_)
Plain(text) ==
  IF text = <<>> THEN <<>>
  ELSE IF Head(text) = Colour THEN Plain(SubSeq(text, 3, Len(text))) ELSE <<Head(text)>> \o Plain(Tail(text))

\* Text is read as it was written, whatever the size of the writer's buffer,
\* less its colours; followers without a lead are passed over, and so is the
\* mark at the head of a file.
TextKeeps(text, size) ==
  LET bytes == WriteUtf8(text, size)
      all(src) == DecodeUtf8(src).out = Plain(text)
  IN /\ all(bytes) /\ all(<<130, 191>> \o bytes)
     /\ bytes # <<>> => LoadFile(bytes, TRUE) = Plain(text) /\ LoadFile(bytes, FALSE) = bytes
     /\ LoadFile(Bom \o bytes, TRUE) = Plain(text)

\* A stream reads it too, in any pieces, by lines and after a seek, if it fits
\* the reader's buffer or is all of single bytes.  A letter that the end of the
\* buffer cuts is lost, bytes left over by shorter letters come twice, and
\* nothing is read of a file that is no longer than the mark it lacks.
TextReads(text, size, mark, from, to) ==
  LET bytes == WriteUtf8(text, 4)
      letters == Plain(text)
      start == Utf8Reader(IF mark THEN Bom \o bytes ELSE bytes)
      rest(r) == Utf8Read(r, size, Len(letters) + 1, -1).got
      end == SelectInSeq(letters, LAMBDA c : c = 1071)
      goes(first) == /\ rest(first) = letters
                     /\ from <= Len(letters) /\ to <= Len(letters) =>
                          rest(Utf8Seek(first, size, to)) = SubSeq(letters, to + 1, Len(letters))
  IN (Len(bytes) <= size \/ Len(bytes) = Len(letters)) /\ (mark \/ Len(bytes) > 3) =>
       /\ goes(Utf8Read(start, size, from, -1))
       /\ Utf8Read(start, size, Len(letters) + 1, 1071).got = SubSeq(letters, 1, IF end = 0 THEN Len(letters) ELSE end)

\* Every stream goes once, and with the one that owns it: what the callers
\* hold is open, so is what that works through, and nothing else.
StreamsSound(h, held) ==
  LET owned == {h.open[s].source : s \in {t \in DOMAIN h.open : h.open[t].autoclose}}
  IN /\ DOMAIN h.open = held \union owned /\ held \intersect owned = {}
     /\ Cardinality(ToSet(h.deleted)) = Len(h.deleted) /\ ToSet(h.deleted) \intersect DOMAIN h.open = {}

\* A package directory gives the files in it, by their names from where it was
\* cut, and no others.
PackagesSound(dir, home, f) ==
  LET whole == SubHomeDir(dir, home)
      sethome == SetHomeDir(<<"h">>, dir, home)
      holds(p) == /\ "~" \notin ToSet(p.dir \o p.filter) /\ p.dir \o p.filter = whole /\ p.dir # <<>>
                  /\ IsPrefix(p.filter, f) => IsPrefix(whole, p.dir \o f)
      added == AddPackageDir(<<>>, dir, home)
  IN IF "~" \in ToSet(dir) /\ home = <<>> THEN added = <<>> /\ sethome = <<"h">>
     ELSE sethome = whole /\ Len(added) = 1 /\ holds(added[1])
=============================================================================
