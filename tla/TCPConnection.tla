----------------------------- MODULE TCPConnection -----------------------------
(***************************************************************************)
(* One TCP connection between two hosts: the state machine of              *)
(* TCPConnection*.cc, the Reno and Tahoe algorithms and the virtual data   *)
(* queues (Transport/TCP).  A connection block is a record; a handler maps *)
(* the block it starts from to the one it leaves, which carries the        *)
(* segments sent (out) and the event (ev) for the state machine.  A host   *)
(* without a block answers as segmentArrivalWhileClosed does.              *)
(*                                                                         *)
(* The network loses and reorders segments.  Timers may expire at any      *)
(* time.  The application gives no command that the code calls a usage     *)
(* error (a second CLOSE, a SEND after CLOSE).  A failed ASSERT ends the   *)
(* program.                                                                *)
(*                                                                         *)
(* Left out: fork, several connections and ports, delayed ACKs (disabled   *)
(* in the code), urgent data, measurement of the round trip time (it only  *)
(* sets how long a timer runs), the timers that are never scheduled        *)
(* (FIN-WAIT-2, PERSIST, KEEPALIVE), statistics.                           *)
(***************************************************************************)
EXTENDS Naturals, Sequences, FiniteSets

CONSTANTS
  End,           \* the two hosts
  SeqMod,        \* the size of the sequence number space, 2^32 in the code
  ISS,           \* per host, the initial sequence numbers the clock may give
  MSS,           \* snd_mss
  RcvWnd,        \* rcv_wnd
  Algorithm,     \* "Reno" or "Tahoe"
  Commands,      \* per host, the commands that its application gives
  MaxSynRexmit,  \* MAX_SYN_REXMIT_COUNT
  MaxRexmit,     \* MAX_REXMIT_COUNT
  Message,       \* per host, the lengths of the messages that its application sends
  MaxBytes,      \* bound: per host, bytes that its application sends
  MaxInFlight    \* bound: per host, segments on the way to it

ASSUME ParamAssumption ==
  /\ \E a, b \in End : a # b /\ End = {a, b}
  /\ SeqMod \in Nat /\ SeqMod % 2 = 0
  /\ ISS \in [End -> SUBSET (0 .. SeqMod - 1)]
  /\ MSS \in Nat \ {0} /\ RcvWnd \in MSS .. SeqMod \div 2 - 1
  /\ Algorithm \in {"Reno", "Tahoe"}
  /\ Commands \in [End -> SUBSET {"OPEN_ACTIVE", "OPEN_PASSIVE", "SEND", "CLOSE", "ABORT"}]
  /\ MaxSynRexmit \in Nat /\ MaxRexmit \in Nat
  /\ Message \in [End -> SUBSET (Nat \ {0})]
  /\ MaxBytes \in [End -> Nat] /\ MaxInFlight \in [End -> Nat]

VARIABLES
  conn,     \* per host, its connection block
  net,      \* per host, the segments on their way to it
  aborted   \* the assertion that ended the program, or "no"

vars == <<conn, net, aborted>>

Peer(e) == CHOOSE p \in End : p # e

Least(a, b) == IF a <= b THEN a ELSE b

-----------------------------------------------------------------------------
(* Sequence numbers. *)

Plus(a, n) == (a + n) % SeqMod

\* b - a in unsigned arithmetic
Dist(a, b) == (b + SeqMod - a) % SeqMod

seqLE(a, b) == Dist(a, b) < SeqMod \div 2

seqLess(a, b) == a # b /\ seqLE(a, b)

-----------------------------------------------------------------------------
(* The connection block and segments. *)

State == {"INIT", "CLOSED", "LISTEN", "SYN_SENT", "SYN_RCVD", "ESTABLISHED", "CLOSE_WAIT",
          "LAST_ACK", "FIN_WAIT_1", "FIN_WAIT_2", "CLOSING", "TIME_WAIT"}

SeqNo == 0 .. SeqMod - 1

TCPSegment == [syn : BOOLEAN, ack : BOOLEAN, fin : BOOLEAN, rst : BOOLEAN,
               seq : SeqNo, ackNo : SeqNo, len : 0 .. MSS]

NoFlags == [syn |-> FALSE, ack |-> FALSE, fin |-> FALSE, rst |-> FALSE,
            seq |-> 0, ackNo |-> 0, len |-> 0]

\* qBegin and qEnd are the send queue; buf is the set of bytes in the receive queue's
\* regions.  remote: the foreign socket is known.  History: rcvd counts the bytes passed
\* up, told lists the indications.  cwnd and ssthresh are capped at RcvWnd, which bounds
\* what can be sent anyway; dupacks at 4, as only 3 and more than 3 matter.
NewConnection ==
  [st |-> "INIT", active |-> FALSE, remote |-> FALSE, iss |-> 0, irs |-> 0,
   snd_una |-> 0, snd_nxt |-> 0, snd_max |-> 0, snd_wnd |-> 0, snd_wl1 |-> 0, snd_wl2 |-> 0,
   rcv_nxt |-> 0, dupacks |-> 0, syn_rexmit_count |-> 0, rexmit_count |-> 0,
   fin_ack_rcvd |-> FALSE, send_fin |-> FALSE, snd_fin_seq |-> 0,
   fin_rcvd |-> FALSE, rcv_fin_seq |-> 0,
   cwnd |-> 0, ssthresh |-> RcvWnd, qBegin |-> 0, qEnd |-> 0, buf |-> {},
   timers |-> {}, rcvd |-> 0, told |-> <<>>, out |-> {}, ev |-> "IGNORE", failed |-> "no"]

Emit(s, seg) == [s EXCEPT !.out = @ \cup {seg}]

Tell(s, code) == [s EXCEPT !.told = Append(@, code)]

Event(s, e) == [s EXCEPT !.ev = e]

\* ASSERT(cond), and what OMNeT++ checks of a timer
Require(cond, s, what) == IF cond \/ s.failed # "no" THEN s ELSE [s EXCEPT !.failed = what]

scheduleTimeout(s, t) ==
  [Require(t \notin s.timers, s, "already scheduled") EXCEPT !.timers = @ \cup {t}]

cancelEvent(s, ts) == [s EXCEPT !.timers = @ \ ts]

-----------------------------------------------------------------------------
(* Sending. *)

selectInitialSeqNum(s, n) ==
  [s EXCEPT !.iss = n, !.snd_una = n, !.snd_nxt = n, !.snd_max = n,
            !.qBegin = Plus(n, 1), !.qEnd = Plus(n, 1)]

sendSyn(s) ==
  Emit([s EXCEPT !.snd_nxt = Plus(s.iss, 1), !.snd_max = Plus(s.iss, 1)],
       [NoFlags EXCEPT !.syn = TRUE, !.seq = s.iss])

sendSynAck(s) ==
  Emit([s EXCEPT !.snd_nxt = Plus(s.iss, 1), !.snd_max = Plus(s.iss, 1)],
       [NoFlags EXCEPT !.syn = TRUE, !.ack = TRUE, !.seq = s.iss, !.ackNo = s.rcv_nxt])

sendRst(s, n) == Emit(s, [NoFlags EXCEPT !.rst = TRUE, !.seq = n])

sendAck(s) == Emit(s, [NoFlags EXCEPT !.ack = TRUE, !.seq = s.snd_nxt, !.ackNo = s.rcv_nxt])

sendFin(s) ==
  Emit(s, [NoFlags EXCEPT !.fin = TRUE, !.ack = TRUE, !.seq = s.snd_nxt, !.ackNo = s.rcv_nxt])

\* sendSegment, until n bytes from snd_nxt are sent: a FIN goes with the last byte.
sendSegments(s, n) ==
  LET end == Plus(s.snd_nxt, n)
      fin == s.send_fin /\ end = s.snd_fin_seq
      starts == {i \in 0 .. n - 1 : i % MSS = 0}
      segment(i) == [NoFlags EXCEPT !.ack = TRUE, !.ackNo = s.rcv_nxt,
                       !.seq = Plus(s.snd_nxt, i), !.len = Least(MSS, n - i),
                       !.fin = fin /\ i + MSS >= n]
  IN  [Require(seqLE(s.qBegin, s.snd_nxt) /\ seqLE(end, s.qEnd), s, "createSegmentWithBytes")
         EXCEPT !.out = @ \cup {segment(i) : i \in starts},
                !.snd_nxt = IF fin THEN Plus(end, 1) ELSE end]

startRexmitTimer(s) == [scheduleTimeout(s, "REXMIT") EXCEPT !.rexmit_count = 0]

dataSent(s) == IF "REXMIT" \in s.timers THEN s ELSE startRexmitTimer(s)

bytesAvailable(s) == IF seqLess(s.snd_max, s.qEnd) THEN Dist(s.snd_max, s.qEnd) ELSE 0

\* Nagle's algorithm, which is enabled
fullSegmentsOnly(s) == s.snd_una # s.snd_max

\* How many bytes sendData sends: what the windows allow, in whole segments unless it is
\* one segment.
bytesToSend(s) ==
  LET window == Least(s.snd_wnd, s.cwnd)
      flight == Dist(s.snd_una, s.snd_max)
      allowed == IF window > flight THEN Least(window - flight, bytesAvailable(s)) ELSE 0
  IN  CASE allowed > MSS -> allowed - (allowed % MSS)
        [] allowed < MSS /\ fullSegmentsOnly(s) -> 0
        [] OTHER -> allowed

sendData(s) ==
  LET n == bytesToSend(s)
      from == [s EXCEPT !.snd_nxt = s.snd_max]
      sent == sendSegments(from, n)
  IN  IF n = 0 THEN from ELSE dataSent([sent EXCEPT !.snd_max = sent.snd_nxt])

retransmitOneSegment(s) ==
  sendSegments([s EXCEPT !.snd_nxt = s.snd_una], Least(MSS, Dist(s.snd_una, s.snd_max)))

retransmitData(s) ==
  sendSegments([s EXCEPT !.snd_nxt = s.snd_una], Dist(s.snd_una, s.snd_max))

-----------------------------------------------------------------------------
(* Congestion control: TCPBaseAlg, TCPReno, TCPTahoe. *)

recalculateSlowStartThreshold(s) ==
  LET half == Least(s.cwnd, s.snd_wnd) \div 2
  IN  [s EXCEPT !.ssthresh = Least(RcvWnd, IF half > 2 * MSS THEN half ELSE 2 * MSS)]

grown(s) ==
  LET incr == IF s.cwnd < s.ssthresh THEN MSS
              ELSE IF MSS * MSS < s.cwnd THEN 1 ELSE (MSS * MSS) \div s.cwnd
  IN  Least(RcvWnd, s.cwnd + incr)

established(s, active) ==
  LET s1 == [s EXCEPT !.cwnd = MSS]
  IN  IF ~ active THEN s1
      ELSE IF bytesToSend(s1) > 0 THEN sendData(s1) ELSE sendAck(sendData(s1))

\* Mutant: the timer is not restarted for what is still outstanding.
restartRexmitTimer_Stop(s) == cancelEvent(s, {"REXMIT"})

\* The timer after an acknowledgement of new data
restartRexmitTimer(s) ==
  LET s1 == cancelEvent(s, {"REXMIT"})
  IN  IF s.snd_una = s.snd_max THEN s1 ELSE startRexmitTimer(s1)

receivedDataAck(s) ==
  LET cwnd == IF Algorithm = "Reno" /\ s.dupacks >= 3 THEN s.ssthresh ELSE grown(s)
  IN  sendData([restartRexmitTimer(s) EXCEPT !.cwnd = cwnd])

\* The congestion window after a fast retransmission
windowOnLoss == IF Algorithm = "Reno" THEN Least(RcvWnd, 3 * MSS) ELSE MSS

receivedDuplicateAck(s) ==
  LET s1 == recalculateSlowStartThreshold(retransmitOneSegment(s))
  IN  CASE s.dupacks = 3 ->
             startRexmitTimer(cancelEvent([s1 EXCEPT !.cwnd = windowOnLoss], {"REXMIT"}))
        [] s.dupacks > 3 /\ Algorithm = "Reno" ->
             [s EXCEPT !.cwnd = Least(RcvWnd, @ + MSS)]
        [] OTHER -> s

\* Slow start, and the retransmission that the algorithm makes
slowStart(s) ==
  LET s1 == [recalculateSlowStartThreshold(s) EXCEPT !.cwnd = MSS]
  IN  IF Algorithm = "Reno" THEN retransmitData(s1) ELSE retransmitOneSegment(s1)

\* Mutant: one retransmission more.
processRexmitTimer_OneMore(s) ==
  IF s.rexmit_count > MaxRexmit THEN Event(Tell(s, "TIMED_OUT"), "ABORT")
  ELSE slowStart(scheduleTimeout([s EXCEPT !.rexmit_count = @ + 1], "REXMIT"))

\* Mutant: the timer is started as for new data.
processRexmitTimer_Reset(s) ==
  IF s.rexmit_count >= MaxRexmit THEN Event(Tell(s, "TIMED_OUT"), "ABORT")
  ELSE slowStart(startRexmitTimer(s))

processRexmitTimer(s) ==
  IF s.rexmit_count >= MaxRexmit THEN Event(Tell(s, "TIMED_OUT"), "ABORT")
  ELSE slowStart(scheduleTimeout([s EXCEPT !.rexmit_count = @ + 1], "REXMIT"))

-----------------------------------------------------------------------------
(* Segments that arrive. *)

segmentArrivalWhileClosed(seg) ==
  IF seg.rst THEN {}
  ELSE IF seg.ack THEN {[NoFlags EXCEPT !.rst = TRUE, !.seq = seg.ackNo]}
  ELSE {[NoFlags EXCEPT !.rst = TRUE, !.ack = TRUE, !.ackNo = Plus(seg.seq, seg.len)]}

startSynRexmitTimer(s) ==
  scheduleTimeout(cancelEvent([s EXCEPT !.syn_rexmit_count = 0], {"SYN_REXMIT"}), "SYN_REXMIT")

updateWindow(s, wl1, wl2) == [s EXCEPT !.snd_wnd = RcvWnd, !.snd_wl1 = wl1, !.snd_wl2 = wl2]

discardUpTo(s, n) ==
  [Require(seqLE(s.qBegin, n) /\ seqLE(n, s.qEnd), s, "discardUpTo") EXCEPT !.qBegin = n]

\* No segment of this TCP has both SYN and text or FIN.  n is the new ISS.
processSegmentInListen(s, seg, n) ==
  LET s1 == selectInitialSeqNum([s EXCEPT !.rcv_nxt = Plus(seg.seq, 1), !.irs = seg.seq,
                                          !.remote = TRUE], n)
      s2 == startSynRexmitTimer(sendSynAck(updateWindow(s1, seg.seq, n)))
  IN  CASE seg.rst -> s
        [] ~ seg.rst /\ seg.ack -> sendRst(s, seg.ackNo)
        [] ~ seg.rst /\ ~ seg.ack /\ seg.syn ->
             Event(IF "CONN_ESTAB" \in s2.timers THEN s2 ELSE scheduleTimeout(s2, "CONN_ESTAB"),
                   "RCV_SYN")
        [] OTHER -> s

processSegmentInSynSent(s, seg) ==
  LET badAck == seg.ack /\ (seqLE(seg.ackNo, s.iss) \/ seqLess(s.snd_nxt, seg.ackNo))
      s1 == [s EXCEPT !.rcv_nxt = Plus(seg.seq, 1), !.irs = seg.seq]
      acked == updateWindow(discardUpTo([s1 EXCEPT !.snd_una = seg.ackNo], seg.ackNo),
                            seg.seq, seg.ackNo)
  IN  CASE badAck -> sendRst(s, seg.ackNo)
        [] ~ badAck /\ seg.rst ->
             IF seg.ack THEN Event(Tell(s, "CONNECTION_RESET"), "RCV_RST") ELSE s
        [] ~ badAck /\ ~ seg.rst /\ seg.syn ->
             IF seg.ack THEN Event(established(acked, TRUE), "RCV_SYN_ACK")
             ELSE Event(startSynRexmitTimer(sendSynAck(s1)), "RCV_SYN")
        [] OTHER -> s

isSegmentAcceptable(s, seg) ==
  /\ seqLE(s.rcv_nxt, seg.seq)
  /\ seqLE(Plus(seg.seq, seg.len), Plus(s.rcv_nxt, RcvWnd))

processRst(s) ==
  CASE s.st = "SYN_RCVD" ->
         LET s1 == discardUpTo(s, s.qEnd)
         IN  Event(IF s.active THEN Tell(s1, "CONNECTION_REFUSED") ELSE s1, "RCV_RST")
    [] s.st \in {"ESTABLISHED", "FIN_WAIT_1", "FIN_WAIT_2", "CLOSE_WAIT"} ->
         Event(Tell(s, "CONNECTION_RESET"), "RCV_RST")
    [] OTHER -> Event(Tell(s, "CLOSED"), "RCV_RST")

processAckInEstabEtc(s, seg) ==
  LET finAcked == s.send_fin /\ seg.ackNo = Plus(s.snd_fin_seq, 1)
      s1 == [s EXCEPT !.snd_una = seg.ackNo,
                      !.snd_nxt = IF seqLess(@, seg.ackNo) THEN seg.ackNo ELSE @,
                      !.fin_ack_rcvd = @ \/ finAcked]
      s2 == discardUpTo(s1, IF finAcked THEN s.snd_fin_seq ELSE seg.ackNo)
      newer == \/ seqLess(s.snd_wl1, seg.seq)
               \/ s.snd_wl1 = seg.seq /\ seqLE(s.snd_wl2, seg.ackNo)
      s3 == IF newer THEN updateWindow(s2, seg.seq, seg.ackNo) ELSE s2
  IN  CASE seqLE(seg.ackNo, s.snd_una) ->
             IF s.snd_una = seg.ackNo /\ seg.len = 0 /\ s.snd_una # s.snd_max
             THEN receivedDuplicateAck([s EXCEPT !.dupacks = Least(4, @ + 1)])
             ELSE [s EXCEPT !.dupacks = 0]
        [] seqLess(s.snd_una, seg.ackNo) /\ seqLE(seg.ackNo, s.snd_max) ->
             [receivedDataAck(s3) EXCEPT !.dupacks = 0]
        [] OTHER -> [sendAck(s) EXCEPT !.dupacks = 0]

\* Bytes in the first region of the receive queue at or after sequence number n.
FirstRegion(buf, n) ==
  LET begin == CHOOSE i \in 0 .. SeqMod - 1 :
                 Plus(n, i) \in buf /\ \A j \in 0 .. i - 1 : Plus(n, j) \notin buf
      from(i) == {Plus(n, j) : j \in begin .. i}
  IN  IF buf = {} THEN {}
      ELSE UNION {from(i) : i \in {k \in begin .. SeqMod - 1 : from(k) \subseteq buf}}

\* Mutant: the segment's end is acknowledged, whatever is missing before it.
processText_Last(s, seg) ==
  sendAck([s EXCEPT !.buf = @ \cup {Plus(seg.seq, i) : i \in 0 .. seg.len - 1},
                    !.rcv_nxt = Plus(seg.seq, seg.len)])

\* insertBytesFromSegment, and extractBytesUpTo until it returns no more.  The assertion
\* that a region begins below its end compares plain integers: it fails for one that ends
\* at or beyond the end of the sequence number space.
processText(s, seg) ==
  LET buf == s.buf \cup {Plus(seg.seq, i) : i \in 0 .. seg.len - 1}
      region == FirstRegion(buf, s.rcv_nxt)
      end == Plus(s.rcv_nxt, Cardinality(region))
      rest == buf \ region
      s1 == [Require(SeqMod - 1 \notin region \cup FirstRegion(rest, end), s, "extractTo")
               EXCEPT !.rcv_nxt = end, !.rcvd = @ + Cardinality(region), !.buf = rest]
  IN  IF s.rcv_nxt \notin buf THEN sendAck([s EXCEPT !.buf = buf])
      ELSE IF s.fin_rcvd /\ end = s.rcv_fin_seq
           THEN Tell([s1 EXCEPT !.rcv_nxt = Plus(end, 1)], "PEER_CLOSED")
           ELSE s1

\* Mutant: the end of the stream is taken when a FIN arrives, in sequence or not.
processFin_AnySeq(s, seg) ==
  LET finSeq == Plus(seg.seq, seg.len)
      s1 == Tell([s EXCEPT !.rcv_nxt = Plus(finSeq, 1)], "PEER_CLOSED")
      timed(t) == Event(scheduleTimeout(t, "2MSL"), "RCV_FIN")
  IN  CASE s.st = "FIN_WAIT_1" /\ s.fin_ack_rcvd -> Event(timed(s1), "RCV_FIN_ACK")
        [] s.st = "FIN_WAIT_2" -> timed(s1)
        [] s.st = "TIME_WAIT" -> timed(cancelEvent(s1, {"2MSL"}))
        [] OTHER -> Event(s1, "RCV_FIN")

processFin(s, seg) ==
  LET finSeq == Plus(seg.seq, seg.len)
      s1 == IF s.rcv_nxt = finSeq
            THEN Tell([s EXCEPT !.rcv_nxt = Plus(@, 1)], "PEER_CLOSED")
            ELSE [s EXCEPT !.fin_rcvd = TRUE, !.rcv_fin_seq = finSeq]
      timed(t) == Event(scheduleTimeout(t, "2MSL"), "RCV_FIN")
  IN  CASE s.st = "FIN_WAIT_1" /\ s.fin_ack_rcvd -> Event(timed(s1), "RCV_FIN_ACK")
        [] s.st = "FIN_WAIT_2" -> timed(s1)
        [] s.st = "TIME_WAIT" -> timed(cancelEvent(s1, {"2MSL"}))
        [] OTHER -> Event(s1, "RCV_FIN")

\* Steps six to eight: text, FIN, the acknowledgement of both, and the FIN that a CLOSE
\* in CLOSE_WAIT left behind (old is snd_nxt before the segment was processed).
processTextAndFin(s, seg, old) ==
  LET s1 == IF s.st \in {"ESTABLISHED", "FIN_WAIT_1", "FIN_WAIT_2"} /\ seg.len > 0
            THEN processText(s, seg) ELSE s
      s2 == IF seg.fin THEN processFin(s1, seg) ELSE s1
      s3 == IF s2.rcv_nxt # s.rcv_nxt THEN sendAck(s2) ELSE s2
  IN  IF /\ s.st = "CLOSE_WAIT" /\ s3.send_fin
         /\ s3.snd_nxt = Plus(s3.snd_fin_seq, 1) /\ old # s3.snd_nxt
      THEN Event(s3, "CLOSE") ELSE s3

\* Step five: the acknowledgement of what we sent.
processAck(s, seg) ==
  LET s1 == IF s.st = "SYN_RCVD" THEN Event(established(s, FALSE), "RCV_ACK") ELSE s
      s2 == IF s.st \in {"LAST_ACK", "TIME_WAIT"} THEN s1 ELSE processAckInEstabEtc(s1, seg)
      dropped == s.st \notin {"LAST_ACK", "TIME_WAIT"} /\ seqLess(s.snd_max, seg.ackNo)
      s3 == CASE s.st = "FIN_WAIT_1" /\ s2.fin_ack_rcvd -> Event(s2, "RCV_ACK")
              [] s.st = "CLOSING" /\ s2.fin_ack_rcvd ->
                   Event(scheduleTimeout(s2, "2MSL"), "RCV_ACK")
              [] s.st = "TIME_WAIT" ->
                   scheduleTimeout(cancelEvent(sendAck(s2), {"2MSL"}), "2MSL")
              [] OTHER -> s2
  IN  CASE dropped -> Event(s2, "IGNORE")
        [] s.st = "LAST_ACK" /\ s.send_fin /\ seg.ackNo = Plus(s.snd_fin_seq, 1) ->
             Event(Tell(s, "CLOSED"), "RCV_ACK")
        [] OTHER -> processTextAndFin(s3, seg, s.snd_nxt)

processSegment1stThru8th(s, seg) ==
  CASE ~ isSegmentAcceptable(s, seg) -> IF seg.rst THEN s ELSE sendAck(s)
    [] isSegmentAcceptable(s, seg) /\ seg.rst -> processRst(s)
    [] isSegmentAcceptable(s, seg) /\ ~ seg.rst /\ seg.syn ->
         Event(Tell(s, "CONNECTION_RESET"), "RCV_UNEXP_SYN")
    [] isSegmentAcceptable(s, seg) /\ ~ seg.rst /\ ~ seg.syn /\ seg.ack ->
         IF s.st = "SYN_RCVD" /\ ~ (seqLE(s.snd_una, seg.ackNo) /\ seqLE(seg.ackNo, s.snd_nxt))
         THEN sendRst(s, seg.ackNo)
         ELSE processAck(s, seg)
    [] OTHER -> s

-----------------------------------------------------------------------------
(* The state machine. *)

Transition ==
  {<<"INIT", "OPEN_PASSIVE", "LISTEN">>, <<"INIT", "OPEN_ACTIVE", "SYN_SENT">>,
   <<"LISTEN", "OPEN_ACTIVE", "SYN_SENT">>, <<"LISTEN", "SEND", "SYN_SENT">>,
   <<"LISTEN", "CLOSE", "CLOSED">>, <<"LISTEN", "RCV_SYN", "SYN_RCVD">>,
   <<"SYN_RCVD", "CLOSE", "FIN_WAIT_1">>, <<"SYN_RCVD", "RCV_ACK", "ESTABLISHED">>,
   <<"SYN_RCVD", "RCV_FIN", "CLOSE_WAIT">>,
   <<"SYN_SENT", "CLOSE", "CLOSED">>, <<"SYN_SENT", "CONN_ESTAB", "CLOSED">>,
   <<"SYN_SENT", "RCV_RST", "CLOSED">>, <<"SYN_SENT", "RCV_SYN_ACK", "ESTABLISHED">>,
   <<"SYN_SENT", "RCV_SYN", "SYN_RCVD">>,
   <<"ESTABLISHED", "CLOSE", "FIN_WAIT_1">>, <<"ESTABLISHED", "RCV_FIN", "CLOSE_WAIT">>,
   <<"CLOSE_WAIT", "CLOSE", "LAST_ACK">>, <<"LAST_ACK", "RCV_ACK", "CLOSED">>,
   <<"FIN_WAIT_1", "RCV_FIN", "CLOSING">>, <<"FIN_WAIT_1", "RCV_ACK", "FIN_WAIT_2">>,
   <<"FIN_WAIT_1", "RCV_FIN_ACK", "TIME_WAIT">>, <<"FIN_WAIT_2", "RCV_FIN", "TIME_WAIT">>,
   <<"CLOSING", "RCV_ACK", "TIME_WAIT">>, <<"TIME_WAIT", "2MSL", "CLOSED">>}

\* ABORT closes every connection; an RST, an unexpected SYN and, in SYN_RCVD, the timeout
\* close it too, except that a passive one goes back to LISTEN from SYN_RCVD.
nextState(s) ==
  CASE s.ev = "ABORT" -> "CLOSED"
    [] s.st = "SYN_RCVD" /\ s.ev \in {"RCV_RST", "CONN_ESTAB"} ->
         IF s.active THEN "CLOSED" ELSE "LISTEN"
    [] s.st \notin {"LISTEN", "SYN_SENT", "SYN_RCVD"} /\ s.ev = "RCV_RST" -> "CLOSED"
    [] s.st \notin {"LISTEN", "SYN_SENT"} /\ s.ev = "RCV_UNEXP_SYN" -> "CLOSED"
    [] OTHER -> LET ts == {t \in Transition : t[1] = s.st /\ t[2] = s.ev}
                IN  IF ts = {} THEN s.st ELSE (CHOOSE t \in ts : TRUE)[3]

\* Mutant: the timers of the handshake are left running.
stateEntered_KeepTimers(s, st) ==
  IF st = s.st THEN s ELSE
  CASE st = "ESTABLISHED" -> Tell([s EXCEPT !.st = st], "ESTABLISHED")
    [] st = "CLOSED" ->
         [NewConnection EXCEPT !.st = st, !.iss = s.iss, !.irs = s.irs, !.qEnd = s.qEnd,
            !.send_fin = s.send_fin, !.snd_fin_seq = s.snd_fin_seq, !.rcvd = s.rcvd,
            !.told = s.told, !.out = s.out, !.failed = s.failed]
    [] st \in {"SYN_RCVD", "SYN_SENT"} -> [s EXCEPT !.st = st]
    [] OTHER -> [cancelEvent(s, {"CONN_ESTAB", "SYN_REXMIT"}) EXCEPT !.st = st]

\* Of a connection that is deleted only the history stays.
stateEntered(s, st) ==
  IF st = s.st THEN s ELSE
  CASE st = "ESTABLISHED" ->
         Tell([cancelEvent(s, {"CONN_ESTAB", "SYN_REXMIT"}) EXCEPT !.st = st], "ESTABLISHED")
    [] st = "CLOSED" ->
         [NewConnection EXCEPT !.st = st, !.iss = s.iss, !.irs = s.irs, !.qEnd = s.qEnd,
            !.send_fin = s.send_fin, !.snd_fin_seq = s.snd_fin_seq, !.rcvd = s.rcvd,
            !.told = s.told, !.out = s.out, !.failed = s.failed]
    [] st \in {"SYN_RCVD", "SYN_SENT"} -> [s EXCEPT !.st = st]
    [] OTHER -> [cancelEvent(s, {"CONN_ESTAB", "SYN_REXMIT"}) EXCEPT !.st = st]

\* Some of the segments are lost; the network to a host holds a bounded number.
Send(e, segs, rest) ==
  \E kept \in SUBSET segs :
    /\ kept # {} => Cardinality(net[Peer(e)] \cup kept) <= MaxInFlight[Peer(e)]
    /\ net' = [net EXCEPT ![e] = rest, ![Peer(e)] = @ \cup kept]

\* performStateTransition at the end of a handler of e that leaves s.
Finish(e, s, rest) ==
  LET t == stateEntered(s, nextState(s))
  IN  /\ aborted = "no"
      /\ aborted' = t.failed
      /\ conn' = [conn EXCEPT ![e] = [t EXCEPT !.out = {}, !.ev = "IGNORE", !.failed = "no"]]
      /\ Send(e, t.out, rest)

-----------------------------------------------------------------------------
(* Commands of the application. *)

Active(s, n) ==
  scheduleTimeout(startSynRexmitTimer(sendSyn(selectInitialSeqNum([s EXCEPT !.active = TRUE], n))),
                  "CONN_ESTAB")

OpenActive(e) ==
  /\ "OPEN_ACTIVE" \in Commands[e] /\ conn[e].st \in {"INIT", "LISTEN"}
  /\ \E n \in ISS[e] :
       Finish(e, Event(Active([conn[e] EXCEPT !.remote = TRUE], n), "OPEN_ACTIVE"), net[e])

OpenPassive(e) ==
  /\ "OPEN_PASSIVE" \in Commands[e] /\ conn[e].st \in {"INIT", "LISTEN"}
  /\ Finish(e, Event([conn[e] EXCEPT !.active = FALSE, !.remote = FALSE], "OPEN_PASSIVE"), net[e])

\* Bytes that the application has sent on this connection.
Written(s) == Dist(Plus(s.iss, 1), s.qEnd)

enqueueAppData(s, n) == [s EXCEPT !.qEnd = Plus(@, n)]

\* A message of n bytes.  In LISTEN the foreign socket must be known.
SendCommand(e, n) ==
  LET s == conn[e]
  IN  /\ "SEND" \in Commands[e] /\ ~ s.send_fin
      /\ \/ /\ s.st = "LISTEN" /\ s.remote /\ n <= MaxBytes[e]
            /\ \E i \in ISS[e] :
                 Finish(e, Event(enqueueAppData(Active(s, i), n), "SEND"), net[e])
         \/ /\ s.st \in {"SYN_SENT", "SYN_RCVD"} /\ Written(s) + n <= MaxBytes[e]
            /\ Finish(e, Event(enqueueAppData(s, n), "SEND"), net[e])
         \/ /\ s.st \in {"ESTABLISHED", "CLOSE_WAIT"} /\ Written(s) + n <= MaxBytes[e]
            /\ Finish(e, Event(sendData(enqueueAppData(s, n)), "SEND"), net[e])

\* With data still to be sent the FIN is left to sendSegment, and CLOSE_WAIT is kept until then.
process_CLOSE(s) ==
  LET s1 == [s EXCEPT !.send_fin = TRUE, !.snd_fin_seq = s.qEnd]
      s2 == sendFin([s1 EXCEPT !.snd_nxt = s.snd_max])
      next == Plus(s.snd_max, 1)
  IN  CASE s.snd_max = s.qEnd -> Event([s2 EXCEPT !.snd_nxt = next, !.snd_max = next], "CLOSE")
        [] s.snd_max # s.qEnd /\ s.st = "CLOSE_WAIT" -> s1
        [] OTHER -> Event(s1, "CLOSE")

CloseCommand(e) ==
  LET s == conn[e]
  IN  /\ "CLOSE" \in Commands[e] /\ ~ s.send_fin
      /\ \/ s.st \in {"LISTEN", "SYN_SENT"} /\ Finish(e, Event(s, "CLOSE"), net[e])
         \/ /\ s.st \in {"SYN_RCVD", "ESTABLISHED", "CLOSE_WAIT"}
            /\ Finish(e, process_CLOSE(s), net[e])

AbortCommand(e) ==
  LET s == conn[e]
      reset == {"SYN_RCVD", "ESTABLISHED", "FIN_WAIT_1", "FIN_WAIT_2", "CLOSE_WAIT"}
  IN  /\ "ABORT" \in Commands[e] /\ s.st \notin {"INIT", "CLOSED"}
      /\ Finish(e, Event(IF s.st \in reset THEN sendRst(s, s.snd_nxt) ELSE s, "ABORT"), net[e])

-----------------------------------------------------------------------------
(* Segments and timers. *)

Arrive(e, seg) ==
  LET s == conn[e]
      rest == net[e] \ {seg}
  IN  /\ seg \in net[e]
      /\ CASE s.st \in {"INIT", "CLOSED"} ->
               /\ aborted = "no" /\ UNCHANGED <<conn, aborted>>
               /\ Send(e, segmentArrivalWhileClosed(seg), rest)
           [] s.st = "LISTEN" ->
               \E n \in ISS[e] : Finish(e, processSegmentInListen(s, seg, n), rest)
           [] s.st = "SYN_SENT" -> Finish(e, processSegmentInSynSent(s, seg), rest)
           [] OTHER -> Finish(e, processSegment1stThru8th(s, seg), rest)

Fired(e, t) == cancelEvent(conn[e], {t})

TimeoutConnEstab(e) ==
  LET s == Require(conn[e].st \in {"SYN_RCVD", "SYN_SENT"}, Fired(e, "CONN_ESTAB"), "internal error")
  IN  /\ "CONN_ESTAB" \in conn[e].timers
      /\ Finish(e, Event(IF s.active THEN Tell(s, "TIMED_OUT") ELSE s, "CONN_ESTAB"), net[e])

Timeout2MSL(e) ==
  LET s == Require(conn[e].st = "TIME_WAIT", Fired(e, "2MSL"), "internal error")
  IN  /\ "2MSL" \in conn[e].timers
      /\ Finish(e, Event(Tell(s, "CLOSED"), "2MSL"), net[e])

TimeoutSynRexmit(e) ==
  LET s == Require(conn[e].st \in {"SYN_RCVD", "SYN_SENT"}, Fired(e, "SYN_REXMIT"), "internal error")
      s1 == [s EXCEPT !.syn_rexmit_count = @ + 1]
      s2 == IF s.st = "SYN_SENT" THEN sendSyn(s1) ELSE sendSynAck(s1)
  IN  /\ "SYN_REXMIT" \in conn[e].timers
      /\ Finish(e, IF s1.syn_rexmit_count > MaxSynRexmit THEN Event(s, "ABORT")
                   ELSE scheduleTimeout(s2, "SYN_REXMIT"), net[e])

TimeoutRexmit(e) ==
  /\ "REXMIT" \in conn[e].timers
  /\ Finish(e, processRexmitTimer(Fired(e, "REXMIT")), net[e])

Init ==
  /\ conn = [e \in End |-> NewConnection]
  /\ net = [e \in End |-> {}]
  /\ aborted = "no"

Timeout(e) == TimeoutConnEstab(e) \/ Timeout2MSL(e) \/ TimeoutSynRexmit(e) \/ TimeoutRexmit(e)

Next ==
  \E e \in End :
    \/ OpenActive(e) \/ OpenPassive(e) \/ CloseCommand(e) \/ AbortCommand(e)
    \/ \E n \in Message[e] : SendCommand(e, n)
    \/ \E seg \in net[e] : Arrive(e, seg)
    \/ Timeout(e)

Spec == Init /\ [][Next]_vars

\* Weak fairness of the timers of e, with the enabling condition written out.
TimersExpire(e) ==
  []<>(conn[e].timers = {} \/ aborted # "no") \/ []<><<Timeout(e)>>_vars

FairSpec == Spec /\ \A e \in End : TimersExpire(e)

-----------------------------------------------------------------------------
(* Properties. *)

ConnectionBlock ==
  [st : State, active : BOOLEAN, remote : BOOLEAN, iss : SeqNo, irs : SeqNo,
   snd_una : SeqNo, snd_nxt : SeqNo, snd_max : SeqNo, snd_wnd : {0, RcvWnd}, snd_wl1 : SeqNo,
   snd_wl2 : SeqNo, rcv_nxt : SeqNo, dupacks : 0 .. 4, syn_rexmit_count : 0 .. MaxSynRexmit,
   rexmit_count : 0 .. MaxRexmit, fin_ack_rcvd : BOOLEAN, send_fin : BOOLEAN,
   snd_fin_seq : SeqNo, fin_rcvd : BOOLEAN, rcv_fin_seq : SeqNo, cwnd : 0 .. RcvWnd,
   ssthresh : 0 .. RcvWnd, qBegin : SeqNo, qEnd : SeqNo, buf : SUBSET SeqNo,
   timers : SUBSET {"CONN_ESTAB", "SYN_REXMIT", "REXMIT", "2MSL"}, rcvd : Nat,
   told : Seq({"ESTABLISHED", "PEER_CLOSED", "CLOSED", "CONNECTION_RESET",
               "CONNECTION_REFUSED", "TIMED_OUT"}),
   out : {{}}, ev : {"IGNORE"}, failed : {"no"}]

\* The variables keep their types, and no retransmission is counted beyond its limit.
TypeOK ==
  /\ \A e \in End : conn[e] \in ConnectionBlock /\ net[e] \subseteq TCPSegment
  /\ aborted \in {"no", "already scheduled", "createSegmentWithBytes", "discardUpTo",
                  "extractTo", "internal error"}

\* The connection is past its handshake.
Synchronized == {"ESTABLISHED", "CLOSE_WAIT", "LAST_ACK", "FIN_WAIT_1", "FIN_WAIT_2",
                 "CLOSING", "TIME_WAIT"}

Told(e, code) == \E i \in DOMAIN conn[e].told : conn[e].told[i] = code

\* What is passed up to an application is no more than the other one wrote, byte for byte
\* from the start: a connection counts from its peer's initial sequence number.  It is told
\* once that its peer closed, when all that the peer wrote before its CLOSE was passed up.
StreamIsExact ==
  \A e \in End :
    /\ conn[e].rcvd > 0 => /\ conn[e].irs = conn[Peer(e)].iss
                           /\ conn[e].rcvd <= Written(conn[Peer(e)])
    /\ Told(e, "PEER_CLOSED") => /\ conn[Peer(e)].send_fin
                                 /\ conn[e].rcvd = Written(conn[Peer(e)])
    /\ Cardinality({i \in DOMAIN conn[e].told : conn[e].told[i] = "PEER_CLOSED"}) <= 1

\* A byte that the sender takes as acknowledged and drops from its queue has been passed up
\* to the peer's application; a FIN that it takes as acknowledged has been signalled.
AckedWasDelivered ==
  \A e \in End :
    /\ conn[e].st \in Synchronized /\ conn[e].snd_una # conn[e].iss =>
         Dist(Plus(conn[e].iss, 1), conn[e].qBegin) <= conn[Peer(e)].rcvd
    /\ conn[e].fin_ack_rcvd => Told(Peer(e), "PEER_CLOSED")

\* The retransmission timer runs while bytes that were sent are not acknowledged.
DataIsTimed ==
  \A e \in End :
    LET s == conn[e]
    IN  s.st \in Synchronized /\ s.snd_una # s.iss /\ seqLess(s.snd_una, s.qEnd)
          /\ seqLess(s.snd_una, s.snd_max)
        => "REXMIT" \in s.timers

\* Every handshake ends, and whatever is lost, bytes that are sent get acknowledged or the
\* connection is given up.
NothingWaitsForEver ==
  \A e \in End :
    /\ conn[e].st \in {"SYN_SENT", "SYN_RCVD"} ~>
         conn[e].st \notin {"SYN_SENT", "SYN_RCVD"} \/ aborted # "no"
    /\ "REXMIT" \in conn[e].timers ~> "REXMIT" \notin conn[e].timers \/ aborted # "no"

\* A FIN that arrived above sequence is remembered.
EarlyFin(e) == conn[e].fin_rcvd

\* The send queue is asked to discard only what it holds, and a timer expires in a state
\* that does not expect it, or is scheduled twice, only after a FIN that overtook data.
ErrorsOnlyAfterEarlyFin ==
  /\ aborted # "discardUpTo"
  /\ aborted \in {"already scheduled", "internal error"} => \E e \in End : EarlyFin(e)

\* TCPVirtualDataSendQueue.cc asserts that a segment is made only of bytes in the queue.
SegmentsFromQueue == aborted # "createSegmentWithBytes"

=============================================================================
