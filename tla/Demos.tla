------------------------------- MODULE Demos -------------------------------
(* Recording demos and playing them: server.cpp, prunedemos to stopdemo.    *)
(* A file is its cells: the header, then for every packet its stamp, its    *)
(* channel, its length and its data.  Sizes count cells.                    *)
EXTENDS Integers, Sequences, SequencesExt, FiniteSetsExt

CONSTANTS MaxDemoSize, \* maxdemosize << 20
          Slack,       \* 0x10000: a demo is cut so far past it
          Held         \* what gzip holds back until the file is closed

Header == <<"DMO">>
NoRecorder == [rec |-> FALSE, file |-> <<>>, demos |-> <<>>]

PruneDemos(demos, extra, maxdemos) ==
  SubSeq(demos, Max({0, Min({Len(demos), Len(demos) + extra - maxdemos})}) + 1, Len(demos))
AddDemo(d) == Append(d.demos, SubSeq(d.file, 1, Min({Len(d.file), MaxDemoSize + Slack})))
EndDemoRecord(d, maxdemos) ==
  IF ~d.rec THEN d
  ELSE LET ended == [d EXCEPT !.rec = FALSE, !.demos = IF maxdemos = 0 THEN @ ELSE PruneDemos(@, 1, maxdemos)]
       IN IF maxdemos = 0 THEN ended ELSE [ended EXCEPT !.demos = AddDemo(ended)]

\* writedemo(): lag is what the raw file is behind
WriteDemo(d, now, chan, data, lag, maxdemos) ==
  LET w == [d EXCEPT !.file = @ \o <<now, chan, Len(data)>> \o data]
  IN IF ~d.rec THEN d
     ELSE IF Len(w.file) - lag >= MaxDemoSize THEN EndDemoRecord(w, maxdemos) ELSE w
\* recordpacket(): a hook may leave the packet out
RecordPacket(d, now, chan, data, lag, maxdemos, skip) == IF skip THEN d ELSE WriteDemo(d, now, chan, data, lag, maxdemos)
\* setupdemorecord(): the file starts with a welcome packet
SetupDemoRecord(d, now, welcome, lag, maxdemos) ==
  WriteDemo([d EXCEPT !.rec = TRUE, !.file = Header], now, 1, welcome, lag, maxdemos)
ClearDemos(d, n) ==
  [d EXCEPT !.demos = IF n = 0 THEN <<>> ELSE IF n \in DOMAIN @ THEN RemoveAt(@, n) ELSE @]
\* senddemo(): the last by default, one at a time
SendDemo(d, getdemo, num) ==
  LET n == IF num = 0 THEN Len(d.demos) ELSE num
  IN IF getdemo # <<>> \/ n \notin DOMAIN d.demos THEN getdemo ELSE d.demos[n]
-----------------------------------------------------------------------------
(* Playing: the cells up to pos are read, the last one into nextplayback.   *)
EndDemoPlayback(p) == [p EXCEPT !.on = FALSE]
SetupDemoPlayback(file) ==
  [file |-> file, pos |-> Len(Header) + 1, millis |-> 0, sent |-> <<>>,
   on |-> SubSeq(file, 1, Min({Len(Header), Len(file)})) = Header /\ Len(file) > Len(Header)]

RECURSIVE SendDue(_)
SendDue(p) ==
  LET data == p.pos + 2
      end == data + p.file[data]
      packet == [chan |-> p.file[p.pos + 1], data |-> SubSeq(p.file, data + 1, end)]
      sent == [p EXCEPT !.sent = Append(@, packet), !.pos = end + 1]
  IN IF p.millis < p.file[p.pos] THEN p
     ELSE IF Len(p.file) < data \/ Len(p.file) < end THEN EndDemoPlayback(p)
     ELSE IF Len(p.file) = end THEN EndDemoPlayback(sent) ELSE SendDue(sent)
ReadDemo(p, curtime) == IF p.on THEN SendDue([p EXCEPT !.millis = @ + curtime]) ELSE p
-----------------------------------------------------------------------------
\* the packets of a log whose records end within n cells of the file
Kept(log, n) ==
  LET ends == FoldLeft(LAMBDA e, r : Append(e, Last(e) + 3 + Len(r.data)), <<Len(Header)>>, log)
  IN SubSeq(log, 1, Cardinality({i \in DOMAIN log : ends[i + 1] <= n}))
Packets(log) == [i \in DOMAIN log |-> [chan |-> log[i].chan, data |-> log[i].data]]

\* A demo plays what was recorded: at every moment exactly the packets due,
\* whatever time the updates take, and as many as are whole when it was cut.
PlaysBack(file, log, curtime) ==
  LET whole == Kept(log, Len(file))
      RECURSIVE good(_, _)
      good(p, n) ==
        /\ p.sent = Packets(SelectSeq(whole, LAMBDA r : r.stamp <= p.millis))
        /\ n > 0 => good(ReadDemo(p, curtime), n - 1)
  IN good(ReadDemo(SetupDemoPlayback(file), 0), 6 \div curtime)

\* The demos kept are the last ones that were recorded, whole.
DemosKeep(d, logs, maxdemos) ==
  /\ Len(d.demos) = Len(logs) /\ Len(logs) <= maxdemos
  /\ \A i \in DOMAIN logs : /\ Kept(logs[i], Len(d.demos[i])) = logs[i]
                            /\ \A n \in 1..Len(d.demos[i]), curtime \in 1..2 : PlaysBack(SubSeq(d.demos[i], 1, n), logs[i], curtime)
  /\ logs # <<>> => SendDemo(d, <<>>, 0) = Last(d.demos)
=============================================================================
