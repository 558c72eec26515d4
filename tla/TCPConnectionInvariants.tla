------------------------ MODULE TCPConnectionInvariants ------------------------
(***************************************************************************)
(* What the proofs about TCPConnection say of a connection block, of the   *)
(* two hosts and of what is between them.                                  *)
(*                                                                         *)
(* Handlers are described first, each by a relation between the block it   *)
(* starts from and the one it leaves (Sends, Keeps, Acknowledges, ...).    *)
(* Moves puts together what a handler and the state machine do with a      *)
(* block that is Sound; IInv is the invariant that the actions keep.       *)
(*                                                                         *)
(* The stream has two more layers of the same kind: what a handler says    *)
(* and hears (Speaks, Hushed, Whole, Hears), and Link, which ties what an  *)
(* end has heard and what is on its way to it to what the other end wrote. *)
(***************************************************************************)
EXTENDS TCPConnection

-----------------------------------------------------------------------------
(* Connection blocks within a handler, and segments. *)

TimerName == {"CONN_ESTAB", "SYN_REXMIT", "REXMIT", "2MSL"}

Indication == {"ESTABLISHED", "PEER_CLOSED", "CLOSED", "CONNECTION_RESET",
               "CONNECTION_REFUSED", "TIMED_OUT"}

Failure == {"no", "already scheduled", "createSegmentWithBytes", "discardUpTo",
            "extractTo", "internal error"}

EventName == {"IGNORE", "OPEN_ACTIVE", "OPEN_PASSIVE", "SEND", "CLOSE", "ABORT", "RCV_SYN",
              "RCV_SYN_ACK", "RCV_ACK", "RCV_FIN", "RCV_FIN_ACK", "RCV_RST", "RCV_UNEXP_SYN",
              "CONN_ESTAB", "2MSL"}

\* ConnectionBlock with what a handler has sent, decided and failed.
Block ==
  [st : State, active : BOOLEAN, remote : BOOLEAN, iss : SeqNo, irs : SeqNo,
   snd_una : SeqNo, snd_nxt : SeqNo, snd_max : SeqNo, snd_wnd : {0, RcvWnd}, snd_wl1 : SeqNo,
   snd_wl2 : SeqNo, rcv_nxt : SeqNo, dupacks : 0 .. 4, syn_rexmit_count : 0 .. MaxSynRexmit,
   rexmit_count : 0 .. MaxRexmit, fin_ack_rcvd : BOOLEAN, send_fin : BOOLEAN,
   snd_fin_seq : SeqNo, fin_rcvd : BOOLEAN, rcv_fin_seq : SeqNo, cwnd : 0 .. RcvWnd,
   ssthresh : 1 .. RcvWnd, qBegin : SeqNo, qEnd : SeqNo, buf : SUBSET SeqNo,
   timers : SUBSET TimerName, rcvd : Nat, told : Seq(Indication),
   out : SUBSET TCPSegment, ev : EventName, failed : Failure]

\* A FIN ends what the sender was asked to send.
EndsStream(seg, s) == seg.fin => s.send_fin /\ Plus(seg.seq, seg.len) = s.snd_fin_seq

FinsSent(s) == \A seg \in s.out : EndsStream(seg, s)

\* t is s after it has sent segments, and no more: what was received, acknowledged and
\* written is the same, and so are the timers, but for REXMIT.
Sends(s, t) ==
  /\ t \in Block
  /\ t.st = s.st /\ t.active = s.active /\ t.iss = s.iss
  /\ t.snd_una = s.snd_una /\ t.qBegin = s.qBegin /\ t.qEnd = s.qEnd
  /\ t.send_fin = s.send_fin /\ t.snd_fin_seq = s.snd_fin_seq
  /\ t.rcv_nxt = s.rcv_nxt /\ t.fin_rcvd = s.fin_rcvd /\ t.ev = s.ev
  /\ t.timers \ {"REXMIT"} = s.timers \ {"REXMIT"}
  /\ t.failed \in {s.failed, "createSegmentWithBytes"}
  /\ FinsSent(s) => FinsSent(t)

\* Nothing but the segments and windows that do not matter to what was sent.
Emits(s, t) ==
  Sends(s, t) /\ t.snd_nxt = s.snd_nxt /\ t.snd_max = s.snd_max /\ t.timers = s.timers
              /\ t.failed = s.failed

\* Bytes of the queue were sent for the first time, and perhaps the FIN.
SentMore(s, t) ==
  \E n \in 1 .. SeqMod - 1 :
    /\ n <= bytesAvailable(s)
    /\ t.snd_max = IF s.send_fin /\ Plus(s.snd_max, n) = s.snd_fin_seq
                   THEN Plus(Plus(s.snd_max, n), 1) ELSE Plus(s.snd_max, n)

\* What sendData does: nothing, or bytes are sent, which are timed.
Pushes(s, t) ==
  /\ Sends(s, t)
  /\ \/ t.snd_max = s.snd_max /\ t.timers = s.timers
     \/ t.timers = s.timers \cup {"REXMIT"} /\ SentMore(s, t)

-----------------------------------------------------------------------------
(* Congestion control. *)

\* What is outstanding after an acknowledgement of new data is timed.
Answers(s, t) ==
  /\ Sends(s, t)
  /\ \/ t.snd_max = s.snd_max /\ (s.snd_una # s.snd_max => "REXMIT" \in t.timers)
     \/ "REXMIT" \in t.timers /\ SentMore(s, t)

-----------------------------------------------------------------------------
(* Segments that arrive. *)

\* t is s after it has received something: what was sent and written is the same, and so
\* are the timers, but for 2MSL.
Keeps(s, t) ==
  /\ t \in Block
  /\ t.st = s.st /\ t.active = s.active /\ t.iss = s.iss
  /\ t.snd_una = s.snd_una /\ t.snd_nxt = s.snd_nxt /\ t.snd_max = s.snd_max
  /\ t.qBegin = s.qBegin /\ t.qEnd = s.qEnd
  /\ t.send_fin = s.send_fin /\ t.snd_fin_seq = s.snd_fin_seq
  /\ t.timers \ {"2MSL"} = s.timers \ {"2MSL"}
  /\ s.fin_rcvd => t.fin_rcvd
  /\ t.failed \in {s.failed, "extractTo", "already scheduled"}
  /\ FinsSent(s) => FinsSent(t)

\* The receive queue and the assertion of its regions
Taken(s, n, k, b, f) == [s EXCEPT !.rcv_nxt = n, !.rcvd = k, !.buf = b, !.failed = f]

\* What a FIN that arrives leaves: it is taken, or remembered, and TIME_WAIT is timed where
\* both sides have closed.
Finished(s, seg, t) ==
  /\ Keeps(s, t)
  /\ t.fin_rcvd \/ t.rcv_nxt = Plus(Plus(seg.seq, seg.len), 1)
  /\ t.ev \in {"RCV_FIN", "RCV_FIN_ACK"}
  /\ \/ t.timers = s.timers /\ t.failed = s.failed /\ t.ev = "RCV_FIN"
     \/ s.st = "FIN_WAIT_1" /\ t.ev = "RCV_FIN_ACK"
     \/ s.st = "FIN_WAIT_2" /\ t.ev = "RCV_FIN"
     \/ s.st = "TIME_WAIT" /\ t.failed = s.failed /\ t.ev = "RCV_FIN"
  /\ "2MSL" \notin s.timers => t.failed = s.failed

\* What steps six to eight leave.  What was received in sequence changes only with text
\* where text is taken, and with a FIN.
Receives(s, seg, t) ==
  /\ Keeps(s, t)
  /\ \/ t.ev = "CLOSE" /\ s.st = "CLOSE_WAIT"
     \/ seg.fin /\ (t.ev = "RCV_FIN" \/ (s.st = "FIN_WAIT_1" /\ t.ev = "RCV_FIN_ACK"))
     \/ ~ seg.fin /\ t.ev = s.ev
  /\ \/ t.timers = s.timers
     \/ s.st = "FIN_WAIT_1" /\ t.ev = "RCV_FIN_ACK"
     \/ s.st = "FIN_WAIT_2" /\ t.ev = "RCV_FIN"
     \/ s.st = "TIME_WAIT"
  /\ "2MSL" \notin s.timers \/ s.st \notin {"FIN_WAIT_1", "FIN_WAIT_2"}
       => t.failed \in {s.failed, "extractTo"}
  /\ seg.fin => t.fin_rcvd \/ t.rcv_nxt = Plus(Plus(seg.seq, seg.len), 1)
  /\ ~ seg.fin /\ s.st \notin {"ESTABLISHED", "FIN_WAIT_1", "FIN_WAIT_2"}
       => t.rcv_nxt = s.rcv_nxt /\ t.fin_rcvd = s.fin_rcvd

-----------------------------------------------------------------------------
(* Acknowledgements. *)

\* n acknowledges the FIN.
FinAcked(s, n) == s.send_fin /\ n = Plus(s.snd_fin_seq, 1)

\* r is s when n is acknowledged: the send queue begins there, or at the FIN.
Acks(s, n, r) ==
  /\ r \in Block
  /\ r.st = s.st /\ r.active = s.active /\ r.iss = s.iss
  /\ r.snd_max = s.snd_max /\ r.qEnd = s.qEnd
  /\ r.send_fin = s.send_fin /\ r.snd_fin_seq = s.snd_fin_seq
  /\ r.rcv_nxt = s.rcv_nxt /\ r.fin_rcvd = s.fin_rcvd /\ r.ev = s.ev /\ r.timers = s.timers
  /\ r.snd_una = n
  /\ r.qBegin = IF FinAcked(s, n) THEN s.snd_fin_seq ELSE n
  /\ r.failed = IF s.failed # "no" \/ (seqLE(s.qBegin, r.qBegin) /\ seqLE(r.qBegin, s.qEnd))
                THEN s.failed ELSE "discardUpTo"
  /\ FinsSent(s) => FinsSent(r)

\* An acknowledgement is old or repeated, and segments may be sent again, or it is new.
Acknowledges(s, seg, t) ==
  \/ Sends(s, t) /\ t.snd_max = s.snd_max /\ s.timers \subseteq t.timers
  \/ /\ seqLess(s.snd_una, seg.ackNo) /\ seqLE(seg.ackNo, s.snd_max)
     /\ \E r : Acks(s, seg.ackNo, r) /\ Answers(r, t)

\* The block is kept, its data acknowledged, and kept.
Processes(s, seg, t) ==
  \E g, h : Keeps(s, g) /\ g.timers = s.timers /\ g.failed = s.failed /\ g.ev \in {s.ev, "RCV_ACK"}
            /\ Acknowledges(g, seg, h) /\ Keeps(h, t)

\* How closing goes on: when TIME_WAIT is timed, and what a peer that closes leaves.
Closes(s, seg, t) ==
  /\ "2MSL" \notin s.timers \/ s.st \notin {"FIN_WAIT_1", "FIN_WAIT_2", "CLOSING"}
       => t.failed # "already scheduled"
  /\ "2MSL" \in t.timers => \/ "2MSL" \in s.timers
                            \/ s.st = "FIN_WAIT_1" /\ t.ev = "RCV_FIN_ACK"
                            \/ s.st = "FIN_WAIT_2" /\ t.ev = "RCV_FIN"
                            \/ s.st = "CLOSING" /\ (t.ev = "RCV_ACK" \/ seg.fin)
                            \/ s.st = "TIME_WAIT"
  /\ s.st = "CLOSING" /\ ~ seg.fin => t.rcv_nxt = s.rcv_nxt /\ t.fin_rcvd = s.fin_rcvd
  /\ t.ev = "RCV_FIN" => /\ seg.fin
                         /\ t.fin_rcvd \/ t.rcv_nxt = Plus(Plus(seg.seq, seg.len), 1)
  /\ s.fin_rcvd => t.fin_rcvd
  /\ t.ev \in {"IGNORE", "RCV_ACK", "RCV_FIN", "RCV_FIN_ACK", "CLOSE"}
  /\ t.ev = "CLOSE" => s.st = "CLOSE_WAIT"

-----------------------------------------------------------------------------
(* Handlers of segments. *)

\* Nothing of what closing depends on is changed.
Ignores(s, t) ==
  Keeps(s, t) /\ t.timers = s.timers /\ t.failed = s.failed /\ t.rcv_nxt = s.rcv_nxt
              /\ t.fin_rcvd = s.fin_rcvd

\* A connection that is reset in SYN_RCVD discards what is in its send queue.
Discards(s, t) ==
  /\ t \in Block
  /\ t.st = s.st /\ t.active = s.active /\ t.iss = s.iss /\ t.timers = s.timers
  /\ t.send_fin = s.send_fin /\ t.snd_fin_seq = s.snd_fin_seq /\ t.fin_rcvd = s.fin_rcvd
  /\ seqLE(s.qBegin, s.qEnd) /\ seqLE(s.qEnd, s.qEnd) => t.failed = s.failed
  /\ t.failed \in {s.failed, "discardUpTo"}
  /\ FinsSent(s) => FinsSent(t)

\* What a segment does to a connection past LISTEN and SYN_SENT: it is ignored, resets the
\* connection, or is processed.
Handles(s, seg, t) ==
  \/ Ignores(s, t) /\ t.ev \in {"IGNORE", "RCV_RST", "RCV_UNEXP_SYN"}
  \/ Discards(s, t) /\ s.st = "SYN_RCVD" /\ t.ev = "RCV_RST"
  \/ /\ isSegmentAcceptable(s, seg) /\ Processes(s, seg, t) /\ Closes(s, seg, t)
     /\ s.st = "SYN_RCVD" => /\ seqLE(s.snd_una, seg.ackNo) /\ seqLE(seg.ackNo, s.snd_nxt)
                             /\ ~ seqLess(s.snd_max, seg.ackNo) =>
                                  t.ev \in {"RCV_ACK", "RCV_FIN"}

-----------------------------------------------------------------------------
(* The handshake. *)

\* A timer has been started, and that is all.
Schedules(s, n, t) ==
  /\ t \in Block
  /\ t.st = s.st /\ t.active = s.active /\ t.iss = s.iss
  /\ t.snd_una = s.snd_una /\ t.snd_nxt = s.snd_nxt /\ t.snd_max = s.snd_max
  /\ t.qBegin = s.qBegin /\ t.qEnd = s.qEnd /\ t.out = s.out
  /\ t.send_fin = s.send_fin /\ t.snd_fin_seq = s.snd_fin_seq
  /\ t.rcv_nxt = s.rcv_nxt /\ t.fin_rcvd = s.fin_rcvd /\ t.ev = s.ev
  /\ t.timers = s.timers \cup {n}
  /\ t.failed \in {s.failed, "already scheduled"}
  /\ n \notin s.timers => t.failed = s.failed

\* A SYN is sent, for the first time or again.
SynSent(s, t) ==
  Sends(s, t) /\ t.snd_nxt = Plus(s.iss, 1) /\ t.snd_max = Plus(s.iss, 1) /\ t.timers = s.timers
              /\ t.failed = s.failed

\* A connection begins: the initial sequence number n is chosen, and a SYN sent and timed.
Begins(s, n, t) ==
  /\ t \in Block
  /\ t.st = s.st /\ t.iss = n /\ t.snd_una = n
  /\ t.snd_nxt = Plus(n, 1) /\ t.snd_max = Plus(n, 1) /\ t.qBegin = Plus(n, 1) /\ t.qEnd = Plus(n, 1)
  /\ t.send_fin = s.send_fin /\ t.snd_fin_seq = s.snd_fin_seq /\ t.fin_rcvd = s.fin_rcvd
  /\ t.timers = s.timers \cup {"CONN_ESTAB", "SYN_REXMIT"}
  /\ t.failed \in {s.failed, "already scheduled"}
  /\ "CONN_ESTAB" \notin s.timers => t.failed = s.failed
  /\ FinsSent(s) => FinsSent(t)

\* The initial sequence number is chosen.
Selects(s, n, t) ==
  /\ t \in Block
  /\ t.st = s.st /\ t.iss = n /\ t.snd_una = n /\ t.qBegin = Plus(n, 1) /\ t.qEnd = Plus(n, 1)
  /\ t.send_fin = s.send_fin /\ t.snd_fin_seq = s.snd_fin_seq /\ t.fin_rcvd = s.fin_rcvd
  /\ t.timers = s.timers /\ t.failed = s.failed /\ t.out = s.out /\ t.ev = s.ev

\* n, which acknowledges the SYN, is where the send queue begins.
Connects(s, n, r) ==
  /\ r \in Block
  /\ r.st = s.st /\ r.iss = s.iss /\ r.snd_max = s.snd_max /\ r.qEnd = s.qEnd
  /\ r.send_fin = s.send_fin /\ r.snd_fin_seq = s.snd_fin_seq /\ r.fin_rcvd = s.fin_rcvd
  /\ r.timers = s.timers /\ r.snd_una = n /\ r.qBegin = n
  /\ r.failed = IF s.failed # "no" \/ (seqLE(s.qBegin, n) /\ seqLE(n, s.qEnd))
                THEN s.failed ELSE "discardUpTo"
  /\ FinsSent(s) => FinsSent(r)

\* The SYN is sent again, and timed.
Repeats(s, t) ==
  /\ t \in Block
  /\ t.st = s.st /\ t.iss = s.iss /\ t.snd_una = s.snd_una
  /\ t.qBegin = s.qBegin /\ t.qEnd = s.qEnd
  /\ t.snd_nxt = Plus(s.iss, 1) /\ t.snd_max = Plus(s.iss, 1)
  /\ t.send_fin = s.send_fin /\ t.snd_fin_seq = s.snd_fin_seq /\ t.fin_rcvd = s.fin_rcvd
  /\ t.timers = s.timers \cup {"SYN_REXMIT"}
  /\ t.failed = s.failed
  /\ FinsSent(s) => FinsSent(t)

\* seg acknowledges something else than the SYN.
BadAck(s, seg) == seg.ack /\ (seqLE(seg.ackNo, s.iss) \/ seqLess(s.snd_nxt, seg.ackNo))

-----------------------------------------------------------------------------
(* Timers. *)

\* Timers stop.
Cancels(s, ts, t) ==
  /\ t \in Block
  /\ t.st = s.st /\ t.active = s.active /\ t.iss = s.iss
  /\ t.snd_una = s.snd_una /\ t.snd_nxt = s.snd_nxt /\ t.snd_max = s.snd_max
  /\ t.qBegin = s.qBegin /\ t.qEnd = s.qEnd /\ t.out = s.out
  /\ t.send_fin = s.send_fin /\ t.snd_fin_seq = s.snd_fin_seq
  /\ t.rcv_nxt = s.rcv_nxt /\ t.fin_rcvd = s.fin_rcvd /\ t.ev = s.ev
  /\ t.timers = s.timers \ ts
  /\ t.failed = s.failed

\* The retransmission timer expired: the connection is given up, or the first segments are
\* sent again and the timer runs.
Retransmits(s, t) ==
  \/ Ignores(s, t) /\ t.ev = "ABORT"
  \/ Sends(s, t) /\ t.snd_max = s.snd_max /\ t.timers = s.timers \cup {"REXMIT"}

\* The handshake's timer expired: the SYN is sent once more, or the connection is given up.
SynAgain(s) ==
  LET s1 == [s EXCEPT !.syn_rexmit_count = @ + 1]
      s2 == IF s.st = "SYN_SENT" THEN sendSyn(s1) ELSE sendSynAck(s1)
  IN  IF s1.syn_rexmit_count > MaxSynRexmit THEN Event(s, "ABORT")
      ELSE scheduleTimeout(s2, "SYN_REXMIT")

-----------------------------------------------------------------------------
(* Commands. *)

\* The application closes: the FIN is sent, or left to the last data segment.
Ends(s, t) ==
  /\ t \in Block
  /\ t.st = s.st /\ t.iss = s.iss /\ t.snd_una = s.snd_una
  /\ t.qBegin = s.qBegin /\ t.qEnd = s.qEnd
  /\ t.send_fin /\ t.snd_fin_seq = s.qEnd
  /\ t.snd_max = IF s.snd_max = s.qEnd THEN Plus(s.snd_max, 1) ELSE s.snd_max
  /\ t.timers = s.timers /\ t.failed = s.failed
  /\ t.rcv_nxt = s.rcv_nxt /\ t.fin_rcvd = s.fin_rcvd
  /\ FinsSent(s) => FinsSent(t)
  /\ t.ev = "CLOSE" \/ (t.ev = s.ev /\ s.st = "CLOSE_WAIT")

\* Bytes of the application are put into the send queue.
Enqueues(s, n, t) ==
  /\ t \in Block
  /\ t.st = s.st /\ t.iss = s.iss /\ t.snd_una = s.snd_una
  /\ t.snd_nxt = s.snd_nxt /\ t.snd_max = s.snd_max
  /\ t.qBegin = s.qBegin /\ t.qEnd = Plus(s.qEnd, n)
  /\ t.send_fin = s.send_fin /\ t.snd_fin_seq = s.snd_fin_seq
  /\ t.timers = s.timers /\ t.failed = s.failed
  /\ t.rcv_nxt = s.rcv_nxt /\ t.fin_rcvd = s.fin_rcvd /\ t.ev = s.ev
  /\ FinsSent(s) => FinsSent(t)

-----------------------------------------------------------------------------
(* The state machine. *)

\* The events that close a connection, or take it back to LISTEN, whatever the table says.
Resets(s) ==
  \/ s.ev = "ABORT"
  \/ s.st = "SYN_RCVD" /\ s.ev \in {"RCV_RST", "CONN_ESTAB"}
  \/ s.st \notin {"LISTEN", "SYN_SENT", "SYN_RCVD"} /\ s.ev = "RCV_RST"
  \/ s.st \notin {"LISTEN", "SYN_SENT"} /\ s.ev = "RCV_UNEXP_SYN"

\* t is s in state x, entered unless it is the same.
Enters(s, x, t) ==
  /\ t \in Block
  /\ t.st = x /\ t.send_fin = s.send_fin /\ t.snd_fin_seq = s.snd_fin_seq /\ t.qEnd = s.qEnd
  /\ t.out = s.out /\ t.failed = s.failed /\ t.timers \subseteq s.timers
  /\ x \notin {s.st, "SYN_RCVD", "SYN_SENT"} =>
       "CONN_ESTAB" \notin t.timers /\ "SYN_REXMIT" \notin t.timers
  /\ x = "CLOSED" /\ s.st # "CLOSED" => t.timers = {}
  /\ x # "CLOSED" =>
       /\ t.iss = s.iss /\ t.snd_una = s.snd_una /\ t.snd_nxt = s.snd_nxt
       /\ t.snd_max = s.snd_max /\ t.qBegin = s.qBegin
       /\ t.rcv_nxt = s.rcv_nxt /\ t.fin_rcvd = s.fin_rcvd
       /\ t.timers \ {"CONN_ESTAB", "SYN_REXMIT"} = s.timers \ {"CONN_ESTAB", "SYN_REXMIT"}

\* What stays of a connection that is closed
ClosedOf(s) ==
  [NewConnection EXCEPT !.st = "CLOSED", !.iss = s.iss, !.irs = s.irs, !.qEnd = s.qEnd,
     !.send_fin = s.send_fin, !.snd_fin_seq = s.snd_fin_seq, !.rcvd = s.rcvd,
     !.told = s.told, !.out = s.out, !.failed = s.failed]

-----------------------------------------------------------------------------
(* The order of the sequence numbers of a connection. *)

Handshake == {"SYN_SENT", "SYN_RCVD"}

\* Only the SYN was sent.
OnlySyn(s) ==
  s.snd_una = s.iss /\ s.snd_nxt = Plus(s.iss, 1) /\ s.snd_max = Plus(s.iss, 1) /\ ~ s.send_fin

\* What an application writes on one connection, with SYN and FIN, stays within half of the
\* sequence number space.
Fits == \A e \in End : MaxBytes[e] + 2 < SeqMod \div 2

Live == Handshake \cup Synchronized

\* The send queue's begin, u from the initial sequence number acknowledged and n written
QueueFrom(u, n) == IF u = 0 THEN 1 ELSE IF u = n + 1 THEN n ELSE u

\* In the order of their distance from the initial sequence number: what is acknowledged,
\* what was sent, and the end of the queue, behind which only the FIN lies.
Offsets(s, u, m, n) ==
  /\ u <= m /\ 1 <= m /\ 1 <= n /\ n + 1 < SeqMod \div 2
  /\ IF s.send_fin THEN m <= n + 1 ELSE m <= n
  /\ s.snd_una = Plus(s.iss, u) /\ s.snd_max = Plus(s.iss, m) /\ s.qEnd = Plus(s.iss, n)
  /\ s.qBegin = Plus(s.iss, QueueFrom(u, n))
  /\ s.send_fin => s.snd_fin_seq = s.qEnd

Order(s) == \E u, m, n \in Nat : Offsets(s, u, m, n)

SameNumbers(s, t) ==
  /\ t.iss = s.iss /\ t.snd_una = s.snd_una /\ t.snd_max = s.snd_max
  /\ t.qBegin = s.qBegin /\ t.qEnd = s.qEnd
  /\ t.send_fin = s.send_fin /\ t.snd_fin_seq = s.snd_fin_seq

\* In state x the numbers of s are in order.
InOrder(s, x) == Fits /\ x \in Live => Order(s)

-----------------------------------------------------------------------------
(* What holds of each connection between two steps. *)

\* What was sent and is not acknowledged is timed, unless it is the SYN or only the FIN.
Timed(s) ==
  s.snd_una # s.iss /\ s.snd_una # s.snd_max /\ ~ (s.send_fin /\ s.snd_una = s.snd_fin_seq)
    => "REXMIT" \in s.timers

Sound(s) ==
  /\ s.st \in {"INIT", "LISTEN"} => ~ s.send_fin
  /\ s.send_fin => s.snd_fin_seq = s.qEnd
  /\ "CONN_ESTAB" \in s.timers \/ "SYN_REXMIT" \in s.timers => s.st \in Handshake
  /\ "REXMIT" \in s.timers => s.st \in Synchronized
  /\ "2MSL" \in s.timers => s.st = "TIME_WAIT" \/ (s.st = "CLOSING" /\ s.fin_rcvd)
  /\ s.st \in Handshake => OnlySyn(s)
  /\ s.st \in Synchronized => Timed(s)
  /\ InOrder(s, s.st)

\* A handler takes s to t, from where the state machine goes to x.  In CLOSING, all that the
\* peer sent was received, up to one of ends if that is new, or its FIN is remembered.
Moves(s, t, x, ends) ==
  /\ t \in Block /\ s.st # "CLOSED"
  /\ t.st = s.st
  /\ FinsSent(t)
  /\ s.send_fin => t.send_fin /\ t.snd_fin_seq = s.snd_fin_seq
  /\ x \in {"INIT", "LISTEN"} => ~ t.send_fin
  /\ t.send_fin => t.snd_fin_seq = t.qEnd
  /\ "CONN_ESTAB" \in t.timers \/ "SYN_REXMIT" \in t.timers => x \in Handshake \/ x # s.st
  /\ "REXMIT" \in t.timers => x \in Synchronized \cup {"CLOSED"}
  /\ "2MSL" \in t.timers =>
       x \in {"TIME_WAIT", "CLOSED"} \/ (x = "CLOSING" /\ t.fin_rcvd)
  /\ x \in Handshake => OnlySyn(t)
  /\ x \in Synchronized => Timed(t)
  /\ InOrder(t, x)
  /\ Fits => t.failed # "discardUpTo"
  /\ t.failed \in {"already scheduled", "internal error"} => t.fin_rcvd /\ x # "CLOSED"
  /\ x = "CLOSING" /\ ~ t.fin_rcvd =>
       (s.st = "CLOSING" /\ ~ s.fin_rcvd /\ t.rcv_nxt = s.rcv_nxt) \/ t.rcv_nxt \in ends

\* The step leaves p.
Steps(s, p, ends) ==
  /\ p \in Block
  /\ Sound(p)
  /\ FinsSent(p)
  /\ s.send_fin => p.send_fin /\ p.snd_fin_seq = s.snd_fin_seq
  /\ Fits => p.failed # "discardUpTo"
  /\ p.failed \in {"already scheduled", "internal error"} => p.fin_rcvd
  /\ p.st = "CLOSING" /\ ~ p.fin_rcvd =>
       (s.st = "CLOSING" /\ ~ s.fin_rcvd /\ p.rcv_nxt = s.rcv_nxt) \/ p.rcv_nxt \in ends

\* Where a handler may start: nothing is sent, decided or failed yet.
AtRest(s) == s \in Block /\ s.ev = "IGNORE" /\ s.failed = "no" /\ s.out = {}

\* The block that a step stores
Stored(p) == [p EXCEPT !.out = {}, !.ev = "IGNORE", !.failed = "no"]

-----------------------------------------------------------------------------
(* What each handler moves. *)

\* The sequence number behind the FIN of seg
FinOf(seg) == IF seg.fin THEN {Plus(Plus(seg.seq, seg.len), 1)} ELSE {}

-----------------------------------------------------------------------------
(* The inductive invariant. *)

TypeInv ==
  /\ conn \in [End -> ConnectionBlock] /\ net \in [End -> SUBSET TCPSegment]
  /\ \A e \in End : conn[e].ssthresh > 0
  /\ aborted \in Failure

\* A FIN on its way ends what its sender was asked to send.
FinsInNet == \A e \in End : \A seg \in net[e] : EndsStream(seg, conn[Peer(e)])

\* In CLOSING, a peer's FIN that is not remembered as early has been received.
FinReceived ==
  \A e \in End :
    conn[e].st = "CLOSING" /\ ~ conn[e].fin_rcvd =>
      conn[Peer(e)].send_fin /\ conn[e].rcv_nxt = Plus(conn[Peer(e)].snd_fin_seq, 1)

TimerErrors == aborted \in {"already scheduled", "internal error"} => \E e \in End : EarlyFin(e)

QueueErrors == Fits => aborted # "discardUpTo"

IInv ==
  /\ TypeInv
  /\ \A e \in End : Sound(conn[e])
  /\ FinsInNet
  /\ FinReceived
  /\ TimerErrors
  /\ QueueErrors

\* Every n in ends is the sequence number behind the FIN of e's peer.
PeerFin(e, ends) ==
  \A n \in ends : conn[Peer(e)].send_fin /\ n = Plus(conn[Peer(e)].snd_fin_seq, 1)

-----------------------------------------------------------------------------
(* What the segments say: text from the send queue, the initial sequence number, and how *)
(* far the sender has received.                                                          *)

\* Where the application was told that the peer has closed
Closings(s) == {i \in DOMAIN s.told : s.told[i] = "PEER_CLOSED"}

\* The text of seg was written by the application of s.
InQueue(s, seg) ==
  \E j, n \in Nat : /\ 1 <= j /\ j + seg.len <= n /\ n + 1 < SeqMod \div 2
                    /\ seg.seq = Plus(s.iss, j) /\ s.qEnd = Plus(s.iss, n)

Said(s, seg) ==
  ~ seg.rst => /\ seg.syn => seg.seq = s.iss
               /\ seg.ack => seg.ackNo = s.rcv_nxt
               /\ seg.len > 0 => InQueue(s, seg)

SameEars(s, t) ==
  /\ t.irs = s.irs /\ t.rcv_nxt = s.rcv_nxt /\ t.rcvd = s.rcvd /\ t.buf = s.buf
  /\ t.fin_rcvd = s.fin_rcvd /\ t.rcv_fin_seq = s.rcv_fin_seq /\ Closings(t) = Closings(s)

SameNotes(s, t) ==
  /\ t.iss = s.iss /\ t.qEnd = s.qEnd /\ t.snd_una = s.snd_una
  /\ t.fin_ack_rcvd = s.fin_ack_rcvd
  /\ t.send_fin = s.send_fin /\ t.snd_fin_seq = s.snd_fin_seq

\* t is s after it has sent segments; once something has failed, they do not matter.
Speaks(s, t) ==
  /\ SameEars(s, t) /\ SameNotes(s, t)
  /\ t.failed = "no" => s.failed = "no"
  /\ t.failed = "no" => \A seg \in t.out : seg \in s.out \/ Said(s, seg)

\* The segments carry no text.
Hushed(s, t) == Speaks(s, t) /\ \A seg \in t.out : seg \in s.out \/ seg.len = 0

\* What it takes to say nothing, field by field.
Mute(s, t) ==
  /\ t.irs = s.irs /\ t.rcv_nxt = s.rcv_nxt /\ t.rcvd = s.rcvd /\ t.buf = s.buf
  /\ t.fin_rcvd = s.fin_rcvd /\ t.rcv_fin_seq = s.rcv_fin_seq /\ t.told = s.told
  /\ t.iss = s.iss /\ t.qEnd = s.qEnd /\ t.snd_una = s.snd_una
  /\ t.fin_ack_rcvd = s.fin_ack_rcvd
  /\ t.send_fin = s.send_fin /\ t.snd_fin_seq = s.snd_fin_seq
  /\ t.out = s.out /\ (t.failed = "no" => s.failed = "no")

-----------------------------------------------------------------------------
(* What may be sent lies in the queue. *)

\* snd_max and the end of the queue, counted from the initial sequence number.
Queued(s) ==
  \E m, n \in Nat : /\ 1 <= m /\ m <= n + 1 /\ n + 1 < SeqMod \div 2
                    /\ s.snd_max = Plus(s.iss, m) /\ s.qEnd = Plus(s.iss, n)

-----------------------------------------------------------------------------
(* What is received. *)

Ended(s) == Closings(s) # {}

\* How far s has received: the SYN, the bytes passed up, and the FIN.
Heard(s) == IF Ended(s) THEN s.rcvd + 2 ELSE s.rcvd + 1

\* What the other host is to s: its initial sequence number, where the bytes that it may have
\* sent end (n, counted like Heard), whether it has closed, how far it has received, and
\* whether its application was told that s closed.
Far == [iss : SeqNo, n : 1 .. SeqMod \div 2 - 2, closed : BOOLEAN,
        heard : 1 .. SeqMod \div 2 - 1, ended : BOOLEAN]

\* What was passed up, and what was acknowledged, is what the other host did.
Has(s, f) ==
  /\ s.rcvd + 1 <= f.n
  /\ Ended(s) => f.closed /\ s.rcvd + 1 = f.n
  /\ \A i, j \in Closings(s) : i = j
  /\ s.rcvd > 0 => s.irs = f.iss
  /\ s.fin_ack_rcvd => f.ended

\* The receiver is in step with the other host's stream.
Listens(s, f) ==
  /\ s.irs = f.iss /\ s.rcv_nxt = Plus(f.iss, Heard(s))
  /\ s.buf \subseteq {Plus(f.iss, j) : j \in 1 .. f.n - 1}
  /\ s.fin_rcvd => f.closed /\ s.rcv_fin_seq = Plus(f.iss, f.n)

\* Nothing was received but a SYN.
Fresh(s) == s.rcvd = 0 /\ ~ Ended(s) /\ s.buf = {} /\ ~ s.fin_rcvd

\* What is acknowledged was received.
Acked(s, f) == \E u \in 0 .. f.heard : s.snd_una = Plus(s.iss, u)

Truthful(s, seg, f) ==
  ~ seg.rst => /\ seg.syn => seg.seq = s.iss
               /\ seg.ack => \E k \in 1 .. Heard(s) : seg.ackNo = Plus(f.iss, k)
               /\ seg.len > 0 => InQueue(s, seg)

Faithful(s, f) == s.failed = "no" => \A seg \in s.out : Truthful(s, seg, f)

Whole(s, f) == Has(s, f) /\ Listens(s, f) /\ Acked(s, f) /\ Faithful(s, f)

\* A segment of the other host, on its way to the one with initial sequence number i.
Comes(seg, i, f) ==
  ~ seg.rst => /\ seg.syn => seg.seq = f.iss
               /\ seg.ack => \E k \in 1 .. f.heard : seg.ackNo = Plus(i, k)
               /\ seg.len > 0 => \E j \in Nat : /\ 1 <= j /\ j + seg.len <= f.n
                                                /\ seg.seq = Plus(f.iss, j)
               /\ seg.fin => f.closed /\ Plus(seg.seq, seg.len) = Plus(f.iss, f.n)

\* What the other host is told by t, after s, is no less.
Grows(s, t) ==
  /\ t.iss = s.iss /\ t.qEnd = s.qEnd
  /\ Heard(s) <= Heard(t) /\ (Ended(s) => Ended(t))
  /\ t.failed = "no" => s.failed = "no"

\* t is s after k bytes were passed up.
PassesUp(s, f, k, t) ==
  /\ t.irs = s.irs /\ t.fin_rcvd = s.fin_rcvd /\ t.rcv_fin_seq = s.rcv_fin_seq
  /\ t.told = s.told /\ t.iss = s.iss /\ t.qEnd = s.qEnd /\ t.snd_una = s.snd_una
  /\ t.fin_ack_rcvd = s.fin_ack_rcvd /\ t.out = s.out /\ (t.failed = "no" => s.failed = "no")
  /\ t.rcv_nxt = Plus(s.rcv_nxt, k) /\ t.rcvd = s.rcvd + k
  /\ t.buf \subseteq {Plus(f.iss, j) : j \in 1 .. f.n - 1}

\* When our FIN was received, its sender's peer has been told.
Final(s, f) ==
  \A k \in 1 .. f.heard : s.send_fin /\ Plus(s.iss, k) = Plus(s.snd_fin_seq, 1) => f.ended

Advanced(s, n, m, c) == [s EXCEPT !.snd_una = n, !.snd_nxt = m, !.fin_ack_rcvd = c]

-----------------------------------------------------------------------------
(* The two hosts, and what is between them. *)

Early == {"INIT", "LISTEN", "SYN_SENT", "SYN_RCVD"}

\* What s takes from the other host.
Takes(s, f) ==
  /\ Has(s, f)
  /\ s.st \in Synchronized \cup {"SYN_RCVD"} => Listens(s, f)
  /\ s.st \in Early => Fresh(s)
  /\ s.st \in Live => Acked(s, f)

\* What the other host may count on of s: bytes to n after i, and whether it has closed.
Offers(s, i, n, c) ==
  /\ c \/ n > 1 => s.st \in Synchronized \cup {"CLOSED"} /\ s.iss = i /\ s.qEnd = Plus(i, n)
  /\ c => s.send_fin /\ s.snd_fin_seq = s.qEnd

\* g is no less than f.
More(f, g) ==
  /\ g.iss = f.iss /\ f.n <= g.n /\ (f.closed => g.closed /\ g.n = f.n)
  /\ f.heard <= g.heard /\ (f.ended => g.ended)

\* What stays when a connection enters a state, and what it has to say.
Lasts(s, p) ==
  /\ p.irs = s.irs /\ p.rcvd = s.rcvd /\ Closings(p) = Closings(s) /\ p.iss = s.iss /\ p.qEnd = s.qEnd
  /\ p.out = s.out /\ p.failed = s.failed /\ (p.fin_ack_rcvd => s.fin_ack_rcvd)

\* The stream of s grows by bytes that its application writes before it closes.
Extends(s, t) ==
  \/ t.qEnd = s.qEnd
  \/ ~ s.send_fin /\ \E k \in Nat : t.qEnd = Plus(s.qEnd, k) /\ Written(s) + k + 2 < SeqMod \div 2

\* The block t that a handler of s leaves, on its way to state x.
Hears(s, t, x, f) ==
  /\ t \in Block /\ t.st = s.st /\ s.st # "CLOSED"
  /\ Has(t, f)
  /\ x \in Synchronized \cup {"SYN_RCVD"} => Listens(t, f)
  /\ x \in Early => Fresh(t) /\ (t.failed = "no" => \A seg \in t.out : seg.len = 0)
  /\ x \in Live => Acked(t, f)
  /\ Heard(s) <= Heard(t) /\ (Ended(s) => Ended(t))
  /\ Faithful(t, f)
  /\ s.st \in Live => t.iss = s.iss /\ (s.send_fin => t.send_fin)
  /\ s.st \notin Live /\ x \notin Live => \A seg \in t.out : seg.rst
  /\ x \in Synchronized => s.st \in Live
  /\ s.st \in Synchronized => x \in Synchronized \cup {"CLOSED"}
  /\ s.st \in Live /\ x \in Synchronized \cup {"CLOSED"} => Extends(s, t)

\* r is the block that t becomes in state x, at rest.
Becomes(t, x, r) ==
  /\ r.st = x /\ r.irs = t.irs /\ r.rcvd = t.rcvd /\ Closings(r) = Closings(t)
  /\ r.iss = t.iss /\ r.qEnd = t.qEnd /\ (r.fin_ack_rcvd => t.fin_ack_rcvd)
  /\ r.send_fin = t.send_fin /\ r.snd_fin_seq = t.snd_fin_seq
  /\ x # "CLOSED" => SameEars(t, r) /\ SameNotes(t, r)

\* One host: what it is to the other one, and what is on its way to it.
Pair(s, o, segs, ok, i, k, f) ==
  /\ f.iss = k /\ f.heard = Heard(o) /\ f.ended = Ended(o)
  /\ Offers(o, k, f.n, f.closed)
  /\ Takes(s, f)
  /\ ok => \A seg \in segs : Comes(seg, i, f)

Linked(s, o, segs, ok, i, k) == \E f \in Far : Pair(s, o, segs, ok, i, k, f)

\* Every host has used one initial sequence number.
Once(N) == \A e \in End : conn[e].st \in Live => conn[e].iss = N[e]

Link(N) ==
  \A e \in End : Linked(conn[e], conn[Peer(e)], net[e], aborted = "no", N[e], N[Peer(e)])

\* What the block that a handler starts from is, seen from the other host.
Ready(s, f) ==
  /\ AtRest(s) /\ Sound(s) /\ Takes(s, f)
  /\ s.st \in Live => Order(s) /\ Final(s, f)

-----------------------------------------------------------------------------
(* Every action keeps what is between the hosts. *)

\* A step that keeps what is already proved.
Going(N) == IInv /\ IInv' /\ Once(N) /\ Once(N)' /\ Link(N)

\* A CLOSE changes what is sent, and nothing of what is received.
Parts(s, t) ==
  /\ t.irs = s.irs /\ t.rcv_nxt = s.rcv_nxt /\ t.rcvd = s.rcvd /\ t.buf = s.buf
  /\ t.fin_rcvd = s.fin_rcvd /\ t.rcv_fin_seq = s.rcv_fin_seq /\ t.told = s.told
  /\ t.iss = s.iss /\ t.qEnd = s.qEnd /\ t.snd_una = s.snd_una
  /\ t.fin_ack_rcvd = s.fin_ack_rcvd /\ t.failed = s.failed
  /\ \A seg \in t.out : seg \in s.out \/ (~ seg.syn /\ seg.ackNo = s.rcv_nxt /\ seg.len = 0)

\* b is s with a new initial sequence number.
Anew(s, n, b) ==
  /\ b \in Block /\ b.st = s.st /\ SameEars(s, b) /\ b.fin_ack_rcvd = s.fin_ack_rcvd
  /\ b.iss = n /\ b.snd_una = n /\ b.out = s.out /\ b.failed = s.failed

\* s has chosen an initial sequence number, and sent nothing but its SYN.
Opens(s, n, t) ==
  /\ t \in Block /\ t.st = s.st /\ SameEars(s, t) /\ t.fin_ack_rcvd = s.fin_ack_rcvd
  /\ t.iss = n /\ t.snd_una = n
  /\ \A seg \in t.out : /\ seg.len = 0 /\ ~ seg.ack
                        /\ ~ seg.rst /\ seg.syn => seg.seq = n

\* Only the send queue has changed, and what was sent from it.
Longer(s, t) ==
  /\ t \in Block /\ t.st = s.st /\ SameEars(s, t) /\ t.iss = s.iss /\ t.snd_una = s.snd_una
  /\ t.fin_ack_rcvd = s.fin_ack_rcvd /\ t.send_fin = s.send_fin
  /\ t.failed = "no" => \A seg \in t.out : Said(t, seg)
  /\ s.st \in Handshake => t.out = {}

\* b is s after the SYN g; before, nothing was received.
Greeted(s, g, b) ==
  /\ b.irs = g.seq /\ b.rcv_nxt = Plus(g.seq, 1)
  /\ b.rcvd = s.rcvd /\ b.buf = s.buf /\ b.fin_rcvd = s.fin_rcvd /\ Closings(b) = Closings(s)
  /\ b.fin_ack_rcvd = s.fin_ack_rcvd /\ b.send_fin = s.send_fin
  /\ b.out = s.out /\ b.failed = s.failed
  /\ b.iss \in SeqNo
  /\ IF s.st = "LISTEN" THEN b.snd_una = b.iss ELSE b.iss = s.iss /\ b.snd_una = s.snd_una

\* w is s after the SYN g and the acknowledgement of its own.
Met(s, g, w) ==
  /\ w.irs = g.seq /\ w.rcv_nxt = Plus(g.seq, 1)
  /\ w.rcvd = s.rcvd /\ w.buf = s.buf /\ w.fin_rcvd = s.fin_rcvd /\ Closings(w) = Closings(s)
  /\ w.fin_ack_rcvd = s.fin_ack_rcvd /\ w.send_fin = s.send_fin /\ w.out = s.out
  /\ w.iss = s.iss /\ w.qEnd = s.qEnd /\ w.snd_una = g.ackNo

-----------------------------------------------------------------------------
(* Ends with one initial sequence number. *)

\* Every end has one initial sequence number to choose.
OneISS(N) == \A e \in End : ISS[e] = {N[e]}

=============================================================================
