----------------------------- MODULE MasterLink -----------------------------
(* The stream to the master server in src/engine/server.cpp: what is queued *)
(* while it connects, sent in the pieces the socket takes, received in the  *)
(* pieces it gives, and split into lines.  A byte is Newline or a letter.   *)
(* address is whether that of the server is known, sockets how many are     *)
(* open; the last four fields of a link record what happened on it.         *)
EXTENDS Integers, Sequences, SequencesExt

CONSTANTS ConnectLimit,  \* 60 s until connecting is given up
          RetryAfter,    \* 5 min between attempts of the server itself
          UpdateEvery    \* an hour between two regserv

Newline == 0
RegServ == <<2, Newline>>

NoLink == [sock |-> FALSE, address |-> FALSE, sockets |-> 0, connecting |-> 0, connected |-> 0, lastconnect |-> 0, lastupdate |-> 0,
           out |-> <<>>, outpos |-> 0, in |-> <<>>, inpos |-> 0,
           put |-> <<>>, wire |-> <<>>, got |-> <<>>, lines |-> <<>>]
NonZero(t) == IF t = 0 THEN 1 ELSE t

\* disconnectmaster()
DisconnectMaster(l) == [NoLink EXCEPT !.lastconnect = l.lastconnect, !.sockets = l.sockets - IF l.sock THEN 1 ELSE 0]

\* connectmaster(): where it fails, or "" for nowhere; a name is looked up once
Failures == {"", "unnamed", "unresolved", "nosocket", "unbound", "refused"}
ConnectMaster(l, fails) ==
  LET looked == [l EXCEPT !.address = TRUE]
      opened == [looked EXCEPT !.sockets = @ + 1]
  IN CASE fails = "unnamed" \/ (fails = "unresolved" /\ ~l.address) -> l
       [] fails = "nosocket" -> looked
       [] fails \in {"unbound", "refused"} -> [opened EXCEPT !.sockets = @ - 1]
       [] OTHER -> [opened EXCEPT !.sock = TRUE]

\* requestmaster(): the first request opens the socket, if that succeeds
RequestMaster(l, req, now, fails) ==
  LET k == IF l.sock THEN l ELSE ConnectMaster(l, fails)
      c == IF l.sock THEN l ELSE [k EXCEPT !.connecting = NonZero(now), !.lastconnect = NonZero(now)]
  IN IF k.sock THEN [c EXCEPT !.out = @ \o req, !.put = @ \o req] ELSE k

\* processmasterinput(): every whole line, its newline overwritten
RECURSIVE ProcessMasterInput(_)
ProcessMasterInput(l) ==
  LET end == SelectInSubSeq(l.in, l.inpos + 1, Len(l.in), LAMBDA b : b = Newline)
  IN IF end > 0 THEN ProcessMasterInput([l EXCEPT !.in[end] = -1, !.inpos = end,
                                                  !.lines = Append(@, SubSeq(l.in, l.inpos + 1, end - 1))])
     ELSE IF l.inpos >= Len(l.in) THEN [l EXCEPT !.in = <<>>, !.inpos = 0] ELSE l

\* flushmasteroutput(): `sent' bytes, negative for an error
Sendable(l) == IF l.connected = 0 THEN 0 ELSE Len(l.out) - l.outpos
FlushMasterOutput(l, now, sent) ==
  LET k == IF l.connecting > 0 /\ now - l.connecting >= ConnectLimit THEN DisconnectMaster(l) ELSE l
      pos == k.outpos + sent
      took == [k EXCEPT !.wire = @ \o SubSeq(k.out, k.outpos + 1, pos)]
  IN IF k.out = <<>> \/ k.connected = 0 THEN k
     ELSE IF sent < 0 THEN DisconnectMaster(k)
     ELSE IF pos >= Len(k.out) THEN [took EXCEPT !.out = <<>>, !.outpos = 0] ELSE [took EXCEPT !.outpos = pos]

\* flushmasterinput(): nothing received is the end of the stream or an error
FlushMasterInput(l, chunk) ==
  IF chunk = <<>> THEN DisconnectMaster(l) ELSE ProcessMasterInput([l EXCEPT !.in = @ \o chunk, !.got = @ \o chunk])

\* checkserversockets(): what select() says of the socket
CheckServerSockets(l, now, readable, writable, error, chunk) ==
  LET c == IF l.connected > 0 \/ ~(readable \/ writable) THEN l
           ELSE IF error THEN DisconnectMaster(l) ELSE [l EXCEPT !.connecting = 0, !.connected = NonZero(now)]
  IN IF ~l.sock THEN l ELSE IF c.sock /\ readable THEN FlushMasterInput(c, chunk) ELSE c

\* updatemasterserver()
UpdateMasterServer(l, now, fails) ==
  IF l.connected = 0 /\ l.lastconnect > 0 /\ now - l.lastconnect <= RetryAfter THEN l
  ELSE [RequestMaster(l, RegServ, now, fails) EXCEPT !.lastupdate = NonZero(now)]

\* what serverslice() does for the master server; io is what the network does
MasterSlice(l, now, io) ==
  LET c == CheckServerSockets(FlushMasterOutput(l, now, io.sent), now, io.readable, io.writable, io.error, io.chunk)
  IN IF c.lastupdate = 0 \/ now - c.lastupdate > UpdateEvery THEN UpdateMasterServer(c, now, io.fails) ELSE c
-----------------------------------------------------------------------------
Ended(lines) == FlattenSeq([i \in DOMAIN lines |-> Append(lines[i], Newline)])

\* Requests reach the wire whole and in order however the socket takes them,
\* lines are processed as the master server sent them however they are cut,
\* nothing of one connection is left for the next, and no socket stays open
\* for a connection that failed.
LinkKeeps(l) ==
  /\ l.wire \o SubSeq(l.out, l.outpos + 1, Len(l.out)) = l.put
  /\ Ended(l.lines) \o SubSeq(l.in, l.inpos + 1, Len(l.in)) = l.got
  /\ l.sockets = IF l.sock THEN 1 ELSE 0
  /\ l.sock => l.address
  /\ l.sock <=> (l.connecting > 0) # (l.connected > 0)
  /\ l.connected = 0 => l.wire = <<>> /\ l.got = <<>>
  /\ ~l.sock => l.put = <<>>
=============================================================================
