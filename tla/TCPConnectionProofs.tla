-------------------------- MODULE TCPConnectionProofs --------------------------
(***************************************************************************)
(* Types, timers, the order of sequence numbers and the stream of          *)
(* TCPConnection, for every size of the sequence number space, every       *)
(* initial sequence number and every sequence of commands, losses and      *)
(* timeouts.  The relations and invariants are those of                    *)
(* TCPConnectionInvariants.                                                *)
(***************************************************************************)
EXTENDS TCPConnectionInvariants, Integers, FiniteSetTheorems, SequenceTheorems, TLAPS

-----------------------------------------------------------------------------
(* Sequence numbers. *)

LEMMA Windows ==
  /\ SeqMod \div 2 \in Nat /\ SeqMod = 2 * (SeqMod \div 2) /\ SeqMod \div 2 >= 2
  /\ RcvWnd \in 1 .. SeqMod \div 2 - 1 /\ MSS \in 1 .. RcvWnd
BY ParamAssumption

LEMMA Mod ==
  ASSUME NEW a \in Nat
  PROVE  /\ a % SeqMod \in SeqNo
         /\ a < SeqMod => a % SeqMod = a
         /\ SeqMod <= a /\ a < 2 * SeqMod => a % SeqMod = a - SeqMod
BY Windows DEF SeqNo

\* A multiple of MSS is no larger than the number it is made from.
LEMMA WholeSegments ==
  ASSUME NEW a \in Nat
  PROVE  a - (a % MSS) \in 0 .. a
BY Windows

LEMMA PlusType ==
  ASSUME NEW a \in SeqNo, NEW n \in Nat
  PROVE  Plus(a, n) \in SeqNo
BY Mod DEF Plus, SeqNo

LEMMA DistType ==
  ASSUME NEW a \in SeqNo, NEW b \in SeqNo
  PROVE  Dist(a, b) \in SeqNo
BY Windows DEF Dist, SeqNo

LEMMA DistIs ==
  ASSUME NEW a \in SeqNo, NEW b \in SeqNo
  PROVE  /\ a <= b => Dist(a, b) = b - a
         /\ b < a => Dist(a, b) = b - a + SeqMod
<1>1. a \in Nat /\ b \in Nat /\ SeqMod \in Nat /\ a < SeqMod /\ b < SeqMod
  BY Windows DEF SeqNo
<1>2. PICK e \in Nat : e = b + SeqMod - a
  BY <1>1
<1>3. /\ e < SeqMod => e % SeqMod = e
      /\ SeqMod <= e /\ e < 2 * SeqMod => e % SeqMod = e - SeqMod
  BY Mod
<1>4. Dist(a, b) = e % SeqMod
  BY <1>2 DEF Dist
<1> QED
  BY <1>1, <1>2, <1>3, <1>4

LEMMA PlusPlus ==
  ASSUME NEW a \in SeqNo, NEW x \in 0 .. SeqMod, NEW y \in 0 .. SeqMod
  PROVE  /\ Plus(Plus(a, x), y) = Plus(a, x + y)
         /\ Plus(a, x) \in SeqNo
<1>1. a \in Nat /\ x \in Nat /\ y \in Nat /\ SeqMod \in Nat /\ SeqMod > 0 /\ a < SeqMod
  BY Windows DEF SeqNo
<1> QED
  BY <1>1 DEF Plus, SeqNo

\* Where the other number lies, seen from one of them.
LEMMA DistFrom ==
  ASSUME NEW i \in SeqNo, NEW x \in SeqNo, NEW y \in SeqNo
  PROVE  /\ x <= y => Dist(Plus(i, x), Plus(i, y)) = y - x
         /\ y < x => Dist(Plus(i, x), Plus(i, y)) = y - x + SeqMod
         /\ x # y => Plus(i, x) # Plus(i, y)
<1>1. i \in Nat /\ x \in Nat /\ y \in Nat /\ SeqMod \in Nat /\ SeqMod > 0 /\ i < SeqMod
        /\ x < SeqMod /\ y < SeqMod
  BY Windows DEF SeqNo
<1>2. PICK p \in SeqNo : p = Plus(i, x) /\ (p = i + x \/ p = i + x - SeqMod)
  BY <1>1, Mod, PlusType DEF Plus, SeqNo
<1>3. PICK q \in SeqNo : q = Plus(i, y) /\ (q = i + y \/ q = i + y - SeqMod)
  BY <1>1, Mod, PlusType DEF Plus, SeqNo
<1>4. /\ x <= y => Dist(p, q) = y - x
      /\ y < x => Dist(p, q) = y - x + SeqMod
      /\ x # y => p # q
  <2>1. p \in 0 .. SeqMod - 1 /\ q \in 0 .. SeqMod - 1
    BY DEF SeqNo
  <2>2. PICK d : d = Dist(p, q)
    OBVIOUS
  <2>3. (p <= q => d = q - p) /\ (q < p => d = q - p + SeqMod)
    BY <2>2, DistIs, Zenon
  <2> QED
    BY <1>1, <1>2, <1>3, <2>1, <2>2, <2>3
<1> QED
  BY <1>2, <1>3, <1>4, Zenon

LEMMA PlusDist ==
  ASSUME NEW a \in SeqNo, NEW b \in SeqNo
  PROVE  Plus(a, Dist(a, b)) = b
<1>1. PICK d \in SeqNo : d = Dist(a, b)
  BY DistType
<1>2. (a <= b => d = b - a) /\ (b < a => d = b - a + SeqMod)
  BY <1>1, DistIs, Zenon
<1>3. Plus(a, d) = b
  BY <1>2, Windows DEF Plus, SeqNo
<1> QED
  BY <1>1, <1>3, Zenon

\* Within half of the space the comparisons are those of the distances.
LEMMA Compare ==
  ASSUME NEW i \in SeqNo, NEW x \in 0 .. SeqMod \div 2 - 1, NEW y \in 0 .. SeqMod \div 2 - 1
  PROVE  /\ seqLE(Plus(i, x), Plus(i, y)) <=> x <= y
         /\ seqLess(Plus(i, x), Plus(i, y)) <=> x < y
         /\ Plus(i, x) = Plus(i, y) <=> x = y
<1>1. x \in SeqNo /\ y \in SeqNo /\ x \in Nat /\ y \in Nat
  BY Windows DEF SeqNo
<1>2. PICK p : p = Plus(i, x)
  OBVIOUS
<1>3. PICK q : q = Plus(i, y)
  OBVIOUS
<1>4. /\ x <= y => Dist(p, q) = y - x
      /\ y < x => Dist(p, q) = y - x + SeqMod
      /\ x # y => p # q
      /\ x = y => p = q
  BY <1>1, <1>2, <1>3, DistFrom, Zenon
<1>5. PICK d : d = Dist(p, q)
  OBVIOUS
<1>6. d < SeqMod \div 2 <=> x <= y
  BY <1>1, <1>4, <1>5, Windows
<1>7. p = q <=> x = y
  BY <1>4
<1>8. seqLE(p, q) <=> x <= y
  BY <1>5, <1>6 DEF seqLE
<1>9. seqLess(p, q) <=> x < y
  BY <1>1, <1>7, <1>8 DEF seqLess
<1> QED
  BY <1>2, <1>3, <1>7, <1>8, <1>9, Zenon

LEMMA OneOrder ==
  ASSUME NEW a \in SeqNo, NEW b \in SeqNo, seqLE(a, b)
  PROVE  ~ seqLess(b, a)
<1>1. PICK d, c : d = Dist(a, b) /\ c = Dist(b, a)
  OBVIOUS
<1>2. /\ (a <= b => d = b - a) /\ (b < a => d = b - a + SeqMod)
      /\ (b <= a => c = a - b) /\ (a < b => c = a - b + SeqMod)
  BY <1>1, DistIs, Zenon
<1>3. a # b => d + c = SeqMod /\ d \in Nat /\ c \in Nat
  BY <1>2, Windows DEF SeqNo
<1>4. d < SeqMod \div 2
  BY <1>1 DEF seqLE
<1>5. a # b => ~ (c < SeqMod \div 2)
  BY <1>3, <1>4, Windows
<1> QED
  BY <1>1, <1>5 DEF seqLess, seqLE

\* A number between two such ones lies between their distances.
LEMMA Between ==
  ASSUME NEW i \in SeqNo, NEW x \in 0 .. SeqMod \div 2 - 1, NEW y \in 0 .. SeqMod \div 2 - 1,
         NEW a \in SeqNo, seqLE(Plus(i, x), a), seqLE(a, Plus(i, y)), x <= y
  PROVE  \E z \in x .. y : a = Plus(i, z)
<1>1. PICK z \in SeqNo : a = Plus(i, z)
  BY DistType, PlusDist
<1>2. x \in SeqNo /\ y \in SeqNo /\ x \in Nat /\ y \in Nat /\ z \in Nat /\ z < SeqMod
  BY Windows DEF SeqNo
<1>3. PICK d : d = Dist(Plus(i, x), Plus(i, z))
  OBVIOUS
<1>4. PICK c : c = Dist(Plus(i, z), Plus(i, y))
  OBVIOUS
<1>5. (x <= z => d = z - x) /\ (z < x => d = z - x + SeqMod)
  BY <1>2, <1>3, DistFrom, ZenonT(40)
<1>6. (z <= y => c = y - z) /\ (y < z => c = y - z + SeqMod)
  BY <1>2, <1>4, DistFrom, ZenonT(40)
<1>7. d < SeqMod \div 2 /\ c < SeqMod \div 2
  BY <1>1, <1>3, <1>4 DEF seqLE
<1>8. z \in x .. y
  BY <1>2, <1>5, <1>6, <1>7, Windows
<1> QED
  BY <1>1, <1>8

-----------------------------------------------------------------------------
(* Connection blocks within a handler, and segments. *)

LEMMA SendsTransitive ==
  ASSUME NEW s, NEW t, NEW u, Sends(s, t), Sends(t, u)
  PROVE  Sends(s, u)
BY DEF Sends

LEMMA NumbersIn ==
  ASSUME NEW s \in Block
  PROVE  /\ s.iss \in SeqNo /\ s.irs \in SeqNo /\ s.snd_una \in SeqNo /\ s.snd_nxt \in SeqNo
         /\ s.snd_max \in SeqNo /\ s.rcv_nxt \in SeqNo /\ s.snd_fin_seq \in SeqNo
         /\ s.rcv_fin_seq \in SeqNo /\ s.qBegin \in SeqNo /\ s.qEnd \in SeqNo
         /\ s.snd_wl1 \in SeqNo /\ s.snd_wl2 \in SeqNo
BY DEF Block

LEMMA Segments ==
  /\ 0 \in SeqNo /\ 0 \in 0 .. MSS /\ MSS \in Nat
  /\ \A seg \in TCPSegment : /\ seg.seq \in SeqNo /\ seg.ackNo \in SeqNo /\ seg.len \in 0 .. MSS
                             /\ seg.syn \in BOOLEAN /\ seg.ack \in BOOLEAN
                             /\ seg.fin \in BOOLEAN /\ seg.rst \in BOOLEAN
<1>1. 0 \in SeqNo /\ 0 \in 0 .. MSS /\ MSS \in Nat
  BY Windows DEF SeqNo
<1> QED
  BY <1>1 DEF TCPSegment

\* A segment without FIN leaves.
LEMMA Emitted ==
  ASSUME NEW s \in Block, NEW seg \in TCPSegment, ~ seg.fin
  PROVE  Emits(s, Emit(s, seg))
<1>1. Emit(s, seg) \in Block
  BY ZenonT(40) DEF Emit, Block
<1>2. FinsSent(s) => FinsSent(Emit(s, seg))
  BY DEF Emit, FinsSent, EndsStream, Block
<1> QED
  BY <1>1, <1>2 DEF Emits, Sends, Emit, Block

LEMMA sendAckEmits ==
  ASSUME NEW s \in Block
  PROVE  Emits(s, sendAck(s))
<1> DEFINE seg == [NoFlags EXCEPT !.ack = TRUE, !.seq = s.snd_nxt, !.ackNo = s.rcv_nxt]
<1>1. seg \in TCPSegment /\ ~ seg.fin
  BY NumbersIn, Segments DEF NoFlags, TCPSegment
<1> HIDE DEF seg
<1>2. sendAck(s) = Emit(s, seg)
  BY DEF sendAck, seg
<1> QED
  BY <1>1, <1>2, Emitted, Zenon

LEMMA sendRstEmits ==
  ASSUME NEW s \in Block, NEW n \in SeqNo
  PROVE  Emits(s, sendRst(s, n))
<1> DEFINE seg == [NoFlags EXCEPT !.rst = TRUE, !.seq = n]
<1>1. seg \in TCPSegment /\ ~ seg.fin
  BY Segments DEF NoFlags, TCPSegment
<1> HIDE DEF seg
<1>2. sendRst(s, n) = Emit(s, seg)
  BY DEF sendRst, seg
<1> QED
  BY <1>1, <1>2, Emitted, Zenon

\* A block with a field of the congestion control, or of the acknowledgements, changed.
LEMMA Adjusted ==
  ASSUME NEW s \in Block
  PROVE  /\ \A w \in 0 .. RcvWnd : Emits(s, [s EXCEPT !.cwnd = w])
         /\ \A w \in 1 .. RcvWnd : Emits(s, [s EXCEPT !.ssthresh = w])
         /\ \A d \in 0 .. 4 : Emits(s, [s EXCEPT !.dupacks = d])
         /\ \A d \in 0 .. MaxRexmit : Emits(s, [s EXCEPT !.rexmit_count = d])
         /\ \A n \in SeqNo : /\ Sends(s, [s EXCEPT !.snd_nxt = n])
                             /\ [s EXCEPT !.snd_nxt = n].timers = s.timers
                             /\ [s EXCEPT !.snd_nxt = n].failed = s.failed
                             /\ [s EXCEPT !.snd_nxt = n].snd_max = s.snd_max
                             /\ [s EXCEPT !.snd_nxt = n].snd_nxt = n
<1>1. \A w \in 0 .. RcvWnd : Emits(s, [s EXCEPT !.cwnd = w])
  BY SMTT(40) DEF Emits, Sends, FinsSent, EndsStream, Block
<1>2. \A w \in 1 .. RcvWnd : Emits(s, [s EXCEPT !.ssthresh = w])
  BY SMTT(40) DEF Emits, Sends, FinsSent, EndsStream, Block
<1>3. \A d \in 0 .. 4 : Emits(s, [s EXCEPT !.dupacks = d])
  BY SMTT(40) DEF Emits, Sends, FinsSent, EndsStream, Block
<1>4. \A d \in 0 .. MaxRexmit : Emits(s, [s EXCEPT !.rexmit_count = d])
  BY SMTT(40) DEF Emits, Sends, FinsSent, EndsStream, Block
<1>5. \A n \in SeqNo : /\ Sends(s, [s EXCEPT !.snd_nxt = n])
                       /\ [s EXCEPT !.snd_nxt = n].timers = s.timers
                       /\ [s EXCEPT !.snd_nxt = n].failed = s.failed
                       /\ [s EXCEPT !.snd_nxt = n].snd_max = s.snd_max
                       /\ [s EXCEPT !.snd_nxt = n].snd_nxt = n
  BY SMTT(40) DEF Sends, FinsSent, EndsStream, Block
<1> QED
  BY <1>1, <1>2, <1>3, <1>4, <1>5

\* The numbers of a segment in a run of n bytes, and where the last of them ends.
LEMMA RunOfBytes ==
  ASSUME NEW a \in SeqNo, NEW n \in 0 .. SeqMod - 1, NEW i \in 0 .. n - 1
  PROVE  /\ Plus(a, i) \in SeqNo
         /\ Least(MSS, n - i) \in 0 .. MSS
         /\ i + MSS >= n => Plus(Plus(a, i), Least(MSS, n - i)) = Plus(a, n)
<1>1. n \in Nat /\ i \in Nat /\ i < n /\ n < SeqMod /\ SeqMod \in Nat /\ MSS \in Nat
  BY Windows
<1>2. Least(MSS, n - i) \in 0 .. MSS /\ (i + MSS >= n => Least(MSS, n - i) = n - i)
  BY <1>1 DEF Least
<1>3. PICK k \in Nat : k = n - i
  BY <1>1
<1>4. i \in 0 .. SeqMod /\ k \in 0 .. SeqMod /\ i + k = n
  BY <1>1, <1>3
<1>5. Plus(Plus(a, i), k) = Plus(a, i + k) /\ Plus(a, i) \in SeqNo
  BY <1>4, PlusPlus, Zenon
<1> QED
  BY <1>2, <1>3, <1>4, <1>5

LEMMA sendSegmentsSends ==
  ASSUME NEW s \in Block, NEW n \in 0 .. SeqMod - 1
  PROVE  /\ Sends(s, sendSegments(s, n))
         /\ sendSegments(s, n).timers = s.timers
         /\ sendSegments(s, n).snd_max = s.snd_max
         /\ sendSegments(s, n).snd_nxt =
              IF s.send_fin /\ Plus(s.snd_nxt, n) = s.snd_fin_seq
              THEN Plus(Plus(s.snd_nxt, n), 1) ELSE Plus(s.snd_nxt, n)
<1> DEFINE end == Plus(s.snd_nxt, n)
           fin == s.send_fin /\ end = s.snd_fin_seq
           starts == {i \in 0 .. n - 1 : i % MSS = 0}
           segment(i) == [NoFlags EXCEPT !.ack = TRUE, !.ackNo = s.rcv_nxt,
                            !.seq = Plus(s.snd_nxt, i), !.len = Least(MSS, n - i),
                            !.fin = fin /\ i + MSS >= n]
           sent == {segment(i) : i \in starts}
           ok == Require(seqLE(s.qBegin, s.snd_nxt) /\ seqLE(end, s.qEnd), s,
                         "createSegmentWithBytes")
           last == IF fin THEN Plus(end, 1) ELSE end
           t == [ok EXCEPT !.out = @ \cup sent, !.snd_nxt = last]
<1>1. end \in SeqNo /\ last \in SeqNo
  <2>1. s.snd_nxt \in SeqNo /\ n \in Nat /\ 1 \in Nat
    BY NumbersIn, Windows
  <2>2. end \in SeqNo
    BY <2>1, PlusType, Zenon
  <2>3. Plus(end, 1) \in SeqNo
    BY <2>1, <2>2, PlusType, Zenon
  <2> QED
    BY <2>2, <2>3
<1>2. \A i \in starts : segment(i) \in TCPSegment /\ EndsStream(segment(i), s)
  <2> SUFFICES ASSUME NEW i \in starts
               PROVE  segment(i) \in TCPSegment /\ EndsStream(segment(i), s)
    OBVIOUS
  <2>1. i \in 0 .. n - 1 /\ s.snd_nxt \in SeqNo /\ s.rcv_nxt \in SeqNo
    BY NumbersIn
  <2>2. PICK q : q = Plus(s.snd_nxt, i)
    OBVIOUS
  <2>3. PICK l : l = Least(MSS, n - i)
    OBVIOUS
  <2>4. PICK f \in BOOLEAN : f = (fin /\ i + MSS >= n)
    OBVIOUS
  <2>5. /\ q \in SeqNo /\ l \in 0 .. MSS
        /\ i + MSS >= n => Plus(q, l) = end
    BY <2>1, <2>2, <2>3, RunOfBytes, Zenon
  <2>6. segment(i) = [NoFlags EXCEPT !.ack = TRUE, !.ackNo = s.rcv_nxt,
                                     !.seq = q, !.len = l, !.fin = f]
    BY <2>2, <2>3, <2>4
  <2>7. segment(i) = [syn |-> FALSE, ack |-> TRUE, fin |-> f, rst |-> FALSE,
                      seq |-> q, ackNo |-> s.rcv_nxt, len |-> l]
    <3> HIDE DEF segment
    <3> QED
      BY <2>6 DEF NoFlags
  <2>8. segment(i) \in TCPSegment
    <3> HIDE DEF segment
    <3> QED
      BY <2>1, <2>5, <2>7 DEF TCPSegment
  <2>9. f => s.send_fin /\ Plus(q, l) = s.snd_fin_seq
    BY <2>4, <2>5
  <2> HIDE DEF segment
  <2> QED
    BY <2>7, <2>8, <2>9 DEF EndsStream
<1>3. sent \subseteq TCPSegment /\ \A seg \in sent : EndsStream(seg, s)
  <2> HIDE DEF segment, starts
  <2> QED
    BY <1>2
<1>4. sendSegments(s, n) = t
  BY DEF sendSegments
<1> HIDE DEF sent, last
<1>5. /\ Sends(s, t) /\ t.timers = s.timers /\ t.snd_max = s.snd_max /\ t.snd_nxt = last
  <2>1. ok \in {s, [s EXCEPT !.failed = "createSegmentWithBytes"]}
    BY DEF Require
  <2>2. PICK o : o = ok
    OBVIOUS
  <2>3. o = s \/ o = [s EXCEPT !.failed = "createSegmentWithBytes"]
    BY <2>1, <2>2
  <2>4. "createSegmentWithBytes" \in Failure
    BY DEF Failure
  <2> HIDE DEF ok
  <2>5. o \in Block
    BY <2>3, <2>4 DEF Block
  <2>6. t = [o EXCEPT !.out = o.out \cup sent, !.snd_nxt = last]
    BY <2>2
  <2> HIDE DEF t
  <2>7. t \in Block
    BY <1>1, <1>3, <2>5, <2>6, ZenonT(60) DEF Block
  <2>8. /\ o.out = s.out /\ o.send_fin = s.send_fin /\ o.snd_fin_seq = s.snd_fin_seq
        /\ o.failed \in {s.failed, "createSegmentWithBytes"}
        /\ o.timers = s.timers /\ o.snd_max = s.snd_max
        /\ o.st = s.st /\ o.active = s.active /\ o.iss = s.iss
        /\ o.snd_una = s.snd_una /\ o.qBegin = s.qBegin /\ o.qEnd = s.qEnd
        /\ o.rcv_nxt = s.rcv_nxt /\ o.fin_rcvd = s.fin_rcvd /\ o.ev = s.ev
    BY <2>3 DEF Block
  <2>9. t.out = s.out \cup sent /\ t.send_fin = s.send_fin /\ t.snd_fin_seq = s.snd_fin_seq
    BY <2>5, <2>6, <2>8 DEF Block
  <2>10. FinsSent(s) => FinsSent(t)
    BY <1>3, <2>9 DEF FinsSent, EndsStream
  <2>11. /\ t.timers = o.timers /\ t.snd_max = o.snd_max /\ t.snd_nxt = last
        /\ t.st = o.st /\ t.active = o.active /\ t.iss = o.iss
        /\ t.snd_una = o.snd_una /\ t.qBegin = o.qBegin /\ t.qEnd = o.qEnd
        /\ t.rcv_nxt = o.rcv_nxt /\ t.fin_rcvd = o.fin_rcvd /\ t.ev = o.ev
        /\ t.failed = o.failed
    BY <2>5, <2>6 DEF Block
  <2> QED
    BY <2>7, <2>8, <2>9, <2>10, <2>11 DEF Sends
<1> QED
  BY <1>4, <1>5 DEF last

LEMMA LeastType ==
  ASSUME NEW a \in Nat, NEW b \in Nat
  PROVE  Least(a, b) \in Nat /\ Least(a, b) <= a /\ Least(a, b) <= b
BY DEF Least

\* The retransmission timer is started when it is not running.
LEMMA startRexmitTimerSends ==
  ASSUME NEW s \in Block, "REXMIT" \notin s.timers
  PROVE  /\ Sends(s, startRexmitTimer(s))
         /\ startRexmitTimer(s).timers = s.timers \cup {"REXMIT"}
         /\ startRexmitTimer(s).snd_max = s.snd_max
         /\ startRexmitTimer(s).snd_nxt = s.snd_nxt
         /\ startRexmitTimer(s).failed = s.failed
<1> DEFINE t == [s EXCEPT !.timers = s.timers \cup {"REXMIT"}, !.rexmit_count = 0]
<1>1. startRexmitTimer(s) = t
  BY DEF startRexmitTimer, scheduleTimeout, Require
<1>2. 0 \in 0 .. MaxRexmit
  BY ParamAssumption
<1>3. s.timers \cup {"REXMIT"} \in SUBSET TimerName
  BY DEF TimerName, Block
<1>4. t \in Block
  BY <1>2, <1>3 DEF Block
<1>5. /\ Sends(s, t) /\ t.timers = s.timers \cup {"REXMIT"} /\ t.snd_max = s.snd_max
      /\ t.snd_nxt = s.snd_nxt /\ t.failed = s.failed
  BY <1>3, <1>4 DEF Sends, FinsSent, EndsStream, Block
<1> QED
  BY <1>1, <1>5

\* The timer is stopped.
LEMMA CancelledSends ==
  ASSUME NEW s \in Block
  PROVE  /\ Sends(s, cancelEvent(s, {"REXMIT"}))
         /\ cancelEvent(s, {"REXMIT"}).timers = s.timers \ {"REXMIT"}
         /\ cancelEvent(s, {"REXMIT"}).snd_max = s.snd_max
         /\ cancelEvent(s, {"REXMIT"}).snd_nxt = s.snd_nxt
         /\ cancelEvent(s, {"REXMIT"}).failed = s.failed
<1> DEFINE t == [s EXCEPT !.timers = s.timers \ {"REXMIT"}]
<1>1. cancelEvent(s, {"REXMIT"}) = t
  BY DEF cancelEvent
<1>2. t \in Block
  BY DEF Block
<1>3. /\ Sends(s, t) /\ t.timers = s.timers \ {"REXMIT"} /\ t.snd_max = s.snd_max
      /\ t.snd_nxt = s.snd_nxt /\ t.failed = s.failed
  BY <1>2 DEF Sends, FinsSent, EndsStream, Block
<1> QED
  BY <1>1, <1>3

LEMMA dataSentSends ==
  ASSUME NEW s \in Block
  PROVE  /\ Sends(s, dataSent(s))
         /\ dataSent(s).timers = s.timers \cup {"REXMIT"}
         /\ dataSent(s).snd_max = s.snd_max
<1>1. CASE "REXMIT" \in s.timers
  <2>1. dataSent(s) = s
    BY <1>1 DEF dataSent
  <2>2. Sends(s, s)
    BY DEF Sends
  <2> QED
    BY <1>1, <2>1, <2>2
<1>2. CASE "REXMIT" \notin s.timers
  <2>1. dataSent(s) = startRexmitTimer(s)
    BY <1>2 DEF dataSent
  <2> QED
    BY <1>2, <2>1, startRexmitTimerSends
<1> QED
  BY <1>1, <1>2

\* The windows allow no more than is in the queue, in what is less than the sequence space.
LEMMA bytesToSendType ==
  ASSUME NEW s \in Block
  PROVE  bytesToSend(s) \in 0 .. SeqMod - 1 /\ bytesToSend(s) <= bytesAvailable(s)
<1> DEFINE window == Least(s.snd_wnd, s.cwnd)
           flight == Dist(s.snd_una, s.snd_max)
           allowed == IF window > flight THEN Least(window - flight, bytesAvailable(s)) ELSE 0
<1>1. window \in 0 .. RcvWnd
  <2>1. s.snd_wnd \in 0 .. RcvWnd /\ s.cwnd \in 0 .. RcvWnd
    BY Windows DEF Block
  <2> QED
    BY <2>1 DEF Least
<1>2. flight \in SeqNo
  BY NumbersIn, DistType, Zenon
<1>3. bytesAvailable(s) \in SeqNo
  <2>1. Dist(s.snd_max, s.qEnd) \in SeqNo
    BY NumbersIn, DistType, Zenon
  <2> QED
    BY <2>1, Segments DEF bytesAvailable
<1>4. PICK w \in 0 .. RcvWnd : w = window
  BY <1>1
<1>5. PICK f \in SeqNo : f = flight
  BY <1>2
<1>6. PICK v \in SeqNo : v = bytesAvailable(s)
  BY <1>3
<1>7. PICK l \in Nat : l = allowed /\ l <= RcvWnd /\ l <= v
  <2>1. w \in Nat /\ f \in Nat /\ v \in Nat /\ RcvWnd \in Nat /\ w <= RcvWnd
    BY Windows DEF SeqNo
  <2>2. allowed = IF w > f THEN Least(w - f, v) ELSE 0
    BY <1>4, <1>5, <1>6
  <2> HIDE DEF allowed
  <2>3. CASE w > f
    <3>1. PICK d \in Nat : d = w - f
      BY <2>1, <2>3
    <3>2. allowed = Least(d, v)
      BY <2>2, <2>3, <3>1
    <3>3. allowed \in Nat /\ allowed <= d /\ allowed <= v
      BY <2>1, <3>2, LeastType
    <3> QED
      BY <2>1, <3>1, <3>3
  <2>4. CASE ~ (w > f)
    BY <2>1, <2>2, <2>4
  <2> QED
    BY <2>3, <2>4
<1>8. bytesToSend(s) \in {0, l, l - (l % MSS)}
  <2>1. bytesToSend(s) = CASE allowed > MSS -> allowed - (allowed % MSS)
                           [] allowed < MSS /\ fullSegmentsOnly(s) -> 0
                           [] OTHER -> allowed
    BY DEF bytesToSend
  <2> HIDE DEF allowed
  <2> QED
    BY <1>7, <2>1
<1>9. l - (l % MSS) \in 0 .. l
  BY WholeSegments
<1>10. l \in 0 .. SeqMod - 1 /\ l <= v
  BY <1>7, Windows
<1>11. PICK b : b = bytesToSend(s)
  OBVIOUS
<1>12. b \in 0 .. l
  BY <1>8, <1>9, <1>11
<1>13. b \in 0 .. SeqMod - 1 /\ b <= v
  BY <1>6, <1>10, <1>12, Windows DEF SeqNo
<1> QED
  BY <1>6, <1>11, <1>13

LEMMA sendDataPushes ==
  ASSUME NEW s \in Block
  PROVE  Pushes(s, sendData(s))
<1> DEFINE from == [s EXCEPT !.snd_nxt = s.snd_max]
<1>1. PICK n \in 0 .. SeqMod - 1 : n = bytesToSend(s) /\ n <= bytesAvailable(s)
  BY bytesToSendType
<1>2. /\ Sends(s, from) /\ from.timers = s.timers /\ from.snd_max = s.snd_max
      /\ from.snd_nxt = s.snd_max
  BY NumbersIn, Adjusted
<1>3. CASE n = 0
  <2>1. sendData(s) = from
    BY <1>1, <1>3 DEF sendData
  <2> QED
    BY <1>2, <2>1 DEF Pushes
<1>4. CASE n # 0
  <2>1. from \in Block
    BY <1>2 DEF Sends
  <2>2. PICK g \in Block : g = from
    BY <2>1
  <2> HIDE DEF from
  <2>3. PICK u : u = sendSegments(g, n)
    OBVIOUS
  <2>4. /\ Sends(g, u) /\ u.timers = g.timers /\ u.snd_max = g.snd_max
        /\ u.snd_nxt = IF g.send_fin /\ Plus(g.snd_nxt, n) = g.snd_fin_seq
                       THEN Plus(Plus(g.snd_nxt, n), 1) ELSE Plus(g.snd_nxt, n)
    BY <2>3, sendSegmentsSends
  <2>5. u \in Block
    BY <2>4 DEF Sends
  <2>6. PICK v : v = [u EXCEPT !.snd_max = u.snd_nxt]
    OBVIOUS
  <2>7. Sends(u, v) /\ v.timers = u.timers /\ v.snd_max = u.snd_nxt
    <3>1. v \in Block
      BY <2>5, <2>6, NumbersIn, ZenonT(60) DEF Block
    <3>2. /\ v.timers = u.timers /\ v.snd_max = u.snd_nxt
          /\ v.st = u.st /\ v.active = u.active /\ v.iss = u.iss
          /\ v.snd_una = u.snd_una /\ v.qBegin = u.qBegin /\ v.qEnd = u.qEnd
          /\ v.send_fin = u.send_fin /\ v.snd_fin_seq = u.snd_fin_seq
          /\ v.rcv_nxt = u.rcv_nxt /\ v.fin_rcvd = u.fin_rcvd /\ v.ev = u.ev
          /\ v.failed = u.failed /\ v.out = u.out
      BY <2>5, <2>6 DEF Block
    <3> QED
      BY <3>1, <3>2 DEF Sends, FinsSent, EndsStream
  <2>8. v \in Block
    BY <2>7 DEF Sends
  <2>9. PICK t : t = dataSent(v)
    OBVIOUS
  <2>10. Sends(v, t) /\ t.timers = v.timers \cup {"REXMIT"} /\ t.snd_max = v.snd_max
    BY <2>8, <2>9, dataSentSends
  <2>11. Sends(s, t)
    <3>1. Sends(s, u)
      BY <1>2, <2>2, <2>4, SendsTransitive, Zenon
    <3> QED
      BY <2>7, <2>10, <3>1, SendsTransitive, Zenon
  <2>12. sendData(s) = t
    BY <1>1, <1>4, <2>2, <2>3, <2>6, <2>9 DEF sendData, from
  <2>13. t.timers = s.timers \cup {"REXMIT"} /\ t.snd_max = u.snd_nxt
    BY <1>2, <2>2, <2>4, <2>7, <2>10
  <2>14. g.send_fin = s.send_fin /\ g.snd_fin_seq = s.snd_fin_seq /\ g.snd_nxt = s.snd_max
    BY <1>2, <2>2 DEF Sends
  <2>15. n \in 1 .. SeqMod - 1
    BY <1>4
  <2>16. t.snd_max = IF s.send_fin /\ Plus(s.snd_max, n) = s.snd_fin_seq
                     THEN Plus(Plus(s.snd_max, n), 1) ELSE Plus(s.snd_max, n)
    BY <2>4, <2>13, <2>14, Zenon
  <2>17. Pushes(s, t)
    BY <1>1, <2>11, <2>13, <2>15, <2>16, Zenon DEF Pushes, SentMore
  <2> QED
    BY <2>12, <2>17
<1> QED
  BY <1>3, <1>4

-----------------------------------------------------------------------------
(* Congestion control. *)

LEMMA retransmitSends ==
  ASSUME NEW s \in Block
  PROVE  /\ Sends(s, retransmitOneSegment(s)) /\ Sends(s, retransmitData(s))
         /\ retransmitOneSegment(s).snd_max = s.snd_max /\ retransmitData(s).snd_max = s.snd_max
         /\ retransmitOneSegment(s).timers = s.timers /\ retransmitData(s).timers = s.timers
<1>1. PICK g : g = [s EXCEPT !.snd_nxt = s.snd_una]
  OBVIOUS
<1>2. Sends(s, g) /\ g.timers = s.timers /\ g.snd_max = s.snd_max
  BY <1>1, NumbersIn, Adjusted
<1>3. g \in Block
  BY <1>2 DEF Sends
<1>4. PICK d \in SeqNo : d = Dist(s.snd_una, s.snd_max)
  BY NumbersIn, DistType
<1>5. PICK l : l = Least(MSS, d)
  OBVIOUS
<1>6. d \in 0 .. SeqMod - 1 /\ l \in 0 .. SeqMod - 1
  BY <1>5, Windows, LeastType DEF SeqNo
<1>7. retransmitData(s) = sendSegments(g, d) /\ retransmitOneSegment(s) = sendSegments(g, l)
  BY <1>1, <1>4, <1>5 DEF retransmitData, retransmitOneSegment
<1>8. ASSUME NEW n \in 0 .. SeqMod - 1, NEW t, t = sendSegments(g, n)
      PROVE  Sends(s, t) /\ t.snd_max = s.snd_max /\ t.timers = s.timers
  <2>1. Sends(g, t) /\ t.snd_max = g.snd_max /\ t.timers = g.timers
    BY <1>3, <1>8, sendSegmentsSends
  <2>2. Sends(s, t)
    BY <1>2, <2>1, SendsTransitive, Zenon
  <2> QED
    BY <1>2, <2>1, <2>2
<1>9. PICK t, u : t = retransmitData(s) /\ u = retransmitOneSegment(s)
  OBVIOUS
<1>10. Sends(s, t) /\ t.snd_max = s.snd_max /\ t.timers = s.timers
  BY <1>6, <1>7, <1>8, <1>9
<1>11. Sends(s, u) /\ u.snd_max = s.snd_max /\ u.timers = s.timers
  BY <1>6, <1>7, <1>8, <1>9
<1> QED
  BY <1>9, <1>10, <1>11

LEMMA recalculateEmits ==
  ASSUME NEW s \in Block
  PROVE  Emits(s, recalculateSlowStartThreshold(s))
<1> DEFINE half == Least(s.cwnd, s.snd_wnd) \div 2
           new == Least(RcvWnd, IF half > 2 * MSS THEN half ELSE 2 * MSS)
<1>1. Least(s.cwnd, s.snd_wnd) \in Nat
  <2>1. s.snd_wnd \in 0 .. RcvWnd /\ s.cwnd \in 0 .. RcvWnd
    BY Windows DEF Block
  <2> QED
    BY <2>1 DEF Least
<1>2. half \in Nat
  BY <1>1
<1>3. new \in 1 .. RcvWnd
  <2> HIDE DEF half
  <2> QED
    BY <1>2, Windows DEF Least
<1>4. recalculateSlowStartThreshold(s) = [s EXCEPT !.ssthresh = new]
  BY DEF recalculateSlowStartThreshold
<1> HIDE DEF new
<1> QED
  BY <1>3, <1>4, Adjusted, ZenonT(40)

LEMMA grownType ==
  ASSUME NEW s \in Block
  PROVE  grown(s) \in 0 .. RcvWnd
<1> DEFINE incr == IF s.cwnd < s.ssthresh THEN MSS
                   ELSE IF MSS * MSS < s.cwnd THEN 1 ELSE (MSS * MSS) \div s.cwnd
<1>1. s.cwnd \in 0 .. RcvWnd /\ s.ssthresh \in 1 .. RcvWnd
  BY DEF Block
<1>2. incr \in Nat
  <2>1. PICK q \in Nat : q = MSS * MSS
    BY Windows
  <2>2. CASE s.cwnd >= s.ssthresh
    <3>1. s.cwnd \in Nat /\ s.cwnd > 0
      BY <1>1, <2>2, Windows
    <3>2. q \div s.cwnd \in Nat
      BY <3>1
    <3> QED
      BY <1>1, <2>1, <3>2, Windows
  <2>3. CASE s.cwnd < s.ssthresh
    BY <2>3, Windows
  <2> QED
    BY <1>1, <2>2, <2>3
<1>3. grown(s) = Least(RcvWnd, s.cwnd + incr)
  BY DEF grown
<1> HIDE DEF incr
<1> QED
  BY <1>1, <1>2, <1>3, Windows DEF Least

LEMMA windowOnLossType == windowOnLoss \in 0 .. RcvWnd
BY Windows, ParamAssumption DEF windowOnLoss, Least

LEMMA PushesAfter ==
  ASSUME NEW s, NEW t, NEW u, Sends(s, t), t.snd_max = s.snd_max, t.timers = s.timers, Pushes(t, u),
         bytesAvailable(t) = bytesAvailable(s)
  PROVE  Pushes(s, u)
<1>1. Sends(s, u)
  BY SendsTransitive, Zenon DEF Pushes
<1>2. t.send_fin = s.send_fin /\ t.snd_fin_seq = s.snd_fin_seq
  BY DEF Sends
<1> QED
  BY <1>1, <1>2, Zenon DEF Pushes, SentMore

LEMMA SendsAvailable ==
  ASSUME NEW s, NEW t, Sends(s, t), t.snd_max = s.snd_max
  PROVE  bytesAvailable(t) = bytesAvailable(s)
<1>1. t.qEnd = s.qEnd
  BY DEF Sends
<1> QED
  BY <1>1 DEF bytesAvailable

\* The algorithm is told that the connection is established.
LEMMA establishedPushes ==
  ASSUME NEW s \in Block, NEW active \in BOOLEAN
  PROVE  Pushes(s, established(s, active))
<1>1. PICK g : g = [s EXCEPT !.cwnd = MSS]
  OBVIOUS
<1>2. Emits(s, g)
  <2>1. MSS \in 0 .. RcvWnd
    BY Windows
  <2> QED
    BY <1>1, <2>1, Adjusted, Zenon
<1>3. g \in Block /\ Sends(s, g) /\ g.snd_max = s.snd_max /\ g.timers = s.timers
  BY <1>2 DEF Emits, Sends
<1>4. bytesAvailable(g) = bytesAvailable(s)
  BY <1>3, SendsAvailable, Zenon
<1>5. PICK u : u = sendData(g)
  OBVIOUS
<1>6. Pushes(g, u)
  BY <1>3, <1>5, sendDataPushes
<1>7. Pushes(s, u)
  BY <1>3, <1>4, <1>6, PushesAfter, Zenon
<1>8. u \in Block
  BY <1>6 DEF Pushes, Sends
<1>9. PICK v : v = sendAck(u)
  OBVIOUS
<1>10. Emits(u, v)
  BY <1>8, <1>9, sendAckEmits
<1>11. Pushes(s, v)
  <2>1. Sends(s, v)
    BY <1>7, <1>10, SendsTransitive, Zenon DEF Pushes, Emits
  <2>2. v.snd_max = u.snd_max /\ v.timers = u.timers
    BY <1>10 DEF Emits
  <2> QED
    BY <1>7, <2>1, <2>2, Zenon DEF Pushes, SentMore
<1>12. Pushes(s, g)
  BY <1>3, Zenon DEF Pushes
<1>13. established(s, active) \in {g, u, v}
  BY <1>1, <1>5, <1>9 DEF established
<1> QED
  BY <1>7, <1>11, <1>12, <1>13

LEMMA receivedDuplicateAckSends ==
  ASSUME NEW s \in Block
  PROVE  /\ Sends(s, receivedDuplicateAck(s))
         /\ receivedDuplicateAck(s).snd_max = s.snd_max
         /\ s.timers \subseteq receivedDuplicateAck(s).timers
<1>1. PICK u : u = retransmitOneSegment(s)
  OBVIOUS
<1>2. Sends(s, u) /\ u.snd_max = s.snd_max /\ u.timers = s.timers
  BY <1>1, retransmitSends
<1>3. PICK v : v = recalculateSlowStartThreshold(u)
  OBVIOUS
<1>4. u \in Block
  BY <1>2 DEF Sends
<1>5. Emits(u, v)
  BY <1>3, <1>4, recalculateEmits
<1>6. v \in Block
  BY <1>5 DEF Emits, Sends
<1>7. PICK w : w = [v EXCEPT !.cwnd = windowOnLoss]
  OBVIOUS
<1>8. Emits(v, w)
  BY <1>6, <1>7, windowOnLossType, Adjusted
<1>9. w \in Block
  BY <1>8 DEF Emits, Sends
<1>10. PICK x : x = cancelEvent(w, {"REXMIT"})
  OBVIOUS
<1>11. Sends(w, x) /\ x.timers = w.timers \ {"REXMIT"} /\ x.snd_max = w.snd_max
  BY <1>9, <1>10, CancelledSends
<1>12. x \in Block /\ "REXMIT" \notin x.timers
  BY <1>11 DEF Sends
<1>13. PICK y : y = startRexmitTimer(x)
  OBVIOUS
<1>14. Sends(x, y) /\ y.timers = x.timers \cup {"REXMIT"} /\ y.snd_max = x.snd_max
  BY <1>12, <1>13, startRexmitTimerSends
<1>15. Sends(s, y)
  BY <1>2, <1>5, <1>8, <1>11, <1>14, SendsTransitive, Zenon DEF Emits
<1>16. y.snd_max = s.snd_max /\ s.timers \subseteq y.timers
  BY <1>2, <1>5, <1>8, <1>11, <1>14 DEF Emits
<1>17. PICK z : z = [s EXCEPT !.cwnd = Least(RcvWnd, s.cwnd + MSS)]
  OBVIOUS
<1>18. Emits(s, z)
  <2>1. Least(RcvWnd, s.cwnd + MSS) \in 0 .. RcvWnd
    BY Windows DEF Least, Block
  <2> QED
    BY <1>17, <2>1, Adjusted
<1>19. Sends(s, z) /\ z.snd_max = s.snd_max /\ s.timers \subseteq z.timers
  BY <1>18 DEF Emits
<1>20. Sends(s, s)
  BY DEF Sends
<1>21. receivedDuplicateAck(s) \in {y, z, s}
  BY <1>1, <1>3, <1>7, <1>10, <1>13, <1>17 DEF receivedDuplicateAck
<1> QED
  BY <1>15, <1>16, <1>19, <1>20, <1>21

LEMMA receivedDataAckAnswers ==
  ASSUME NEW s \in Block
  PROVE  Answers(s, receivedDataAck(s))
<1>1. PICK c : c = cancelEvent(s, {"REXMIT"})
  OBVIOUS
<1>2. Sends(s, c) /\ c.timers = s.timers \ {"REXMIT"} /\ c.snd_max = s.snd_max
  BY <1>1, CancelledSends
<1>3. c \in Block /\ "REXMIT" \notin c.timers
  BY <1>2 DEF Sends
<1>4. PICK d : d = startRexmitTimer(c)
  OBVIOUS
<1>5. Sends(c, d) /\ d.timers = c.timers \cup {"REXMIT"} /\ d.snd_max = c.snd_max
  BY <1>3, <1>4, startRexmitTimerSends
<1>6. PICK r : r = restartRexmitTimer(s)
  OBVIOUS
<1>7. r = IF s.snd_una = s.snd_max THEN c ELSE d
  BY <1>1, <1>4, <1>6 DEF restartRexmitTimer
<1>8. Sends(s, d)
  BY <1>2, <1>5, SendsTransitive, Zenon
<1>9. Sends(s, r) /\ r.snd_max = s.snd_max /\ (s.snd_una # s.snd_max => "REXMIT" \in r.timers)
  BY <1>2, <1>5, <1>7, <1>8
<1>10. r \in Block
  BY <1>9 DEF Sends
<1>11. PICK w : w = IF Algorithm = "Reno" /\ s.dupacks >= 3 THEN s.ssthresh ELSE grown(s)
  OBVIOUS
<1>12. w \in 0 .. RcvWnd
  <2>1. s.ssthresh \in 0 .. RcvWnd
    BY Windows DEF Block
  <2> QED
    BY <1>11, <2>1, grownType
<1>13. PICK g : g = [r EXCEPT !.cwnd = w]
  OBVIOUS
<1>14. Emits(r, g)
  BY <1>10, <1>12, <1>13, Adjusted, Zenon
<1>15. g \in Block /\ Sends(r, g) /\ g.snd_max = r.snd_max /\ g.timers = r.timers
  BY <1>14 DEF Emits, Sends
<1>16. Sends(s, g) /\ g.snd_max = s.snd_max
  BY <1>9, <1>15, SendsTransitive, Zenon
<1>17. PICK t : t = sendData(g)
  OBVIOUS
<1>18. Pushes(g, t)
  BY <1>15, <1>17, sendDataPushes
<1>19. bytesAvailable(g) = bytesAvailable(s)
  BY <1>16, SendsAvailable, Zenon
<1>20. Sends(s, t)
  BY <1>16, <1>18, SendsTransitive, Zenon DEF Pushes
<1>21. g.send_fin = s.send_fin /\ g.snd_fin_seq = s.snd_fin_seq
  BY <1>16 DEF Sends
<1>22. SentMore(g, t) => SentMore(s, t)
  BY <1>16, <1>19, <1>21, Zenon DEF SentMore
<1>23. \/ t.snd_max = g.snd_max /\ t.timers = g.timers
       \/ t.timers = g.timers \cup {"REXMIT"} /\ SentMore(g, t)
  BY <1>18 DEF Pushes
<1>24. Answers(s, t)
  BY <1>9, <1>15, <1>16, <1>20, <1>22, <1>23 DEF Answers
<1>25. receivedDataAck(s) = t
  BY <1>6, <1>11, <1>13, <1>17 DEF receivedDataAck
<1> QED
  BY <1>24, <1>25

LEMMA slowStartSends ==
  ASSUME NEW s \in Block
  PROVE  /\ Sends(s, slowStart(s)) /\ slowStart(s).snd_max = s.snd_max
         /\ slowStart(s).timers = s.timers
<1>1. PICK u : u = recalculateSlowStartThreshold(s)
  OBVIOUS
<1>2. Emits(s, u)
  BY <1>1, recalculateEmits
<1>3. u \in Block
  BY <1>2 DEF Emits, Sends
<1>4. PICK v : v = [u EXCEPT !.cwnd = MSS]
  OBVIOUS
<1>5. Emits(u, v)
  <2>1. MSS \in 0 .. RcvWnd
    BY Windows
  <2> QED
    BY <1>3, <1>4, <2>1, Adjusted, Zenon
<1>6. v \in Block /\ Sends(s, v) /\ v.snd_max = s.snd_max /\ v.timers = s.timers
  <2>1. Sends(s, v)
    BY <1>2, <1>5, SendsTransitive, Zenon DEF Emits
  <2> QED
    BY <1>2, <1>5, <2>1 DEF Emits, Sends
<1>7. slowStart(s) \in {retransmitData(v), retransmitOneSegment(v)}
  BY <1>1, <1>4 DEF slowStart
<1>8. PICK t, w : t = retransmitData(v) /\ w = retransmitOneSegment(v)
  OBVIOUS
<1>9. Sends(v, t) /\ t.snd_max = v.snd_max /\ t.timers = v.timers
  BY <1>6, <1>8, retransmitSends
<1>10. Sends(v, w) /\ w.snd_max = v.snd_max /\ w.timers = v.timers
  BY <1>6, <1>8, retransmitSends
<1>11. Sends(s, t) /\ Sends(s, w)
  BY <1>6, <1>9, <1>10, SendsTransitive, Zenon
<1> QED
  BY <1>6, <1>7, <1>8, <1>9, <1>10, <1>11

-----------------------------------------------------------------------------
(* Segments that arrive. *)

LEMMA KeepsTransitive ==
  ASSUME NEW s, NEW t, NEW u, Keeps(s, t), Keeps(t, u)
  PROVE  Keeps(s, u)
BY DEF Keeps

LEMMA KeepsItself ==
  ASSUME NEW s \in Block
  PROVE  Keeps(s, s)
BY DEF Keeps

LEMMA EmitsKeeps ==
  ASSUME NEW s, NEW t, Emits(s, t)
  PROVE  Keeps(s, t) /\ t.timers = s.timers /\ t.rcv_nxt = s.rcv_nxt /\ t.ev = s.ev
         /\ t.fin_rcvd = s.fin_rcvd /\ t.failed = s.failed
BY DEF Keeps, Emits, Sends

\* An indication to the application, and the event for the state machine.
LEMMA TellKeeps ==
  ASSUME NEW s \in Block, NEW code \in Indication
  PROVE  /\ Keeps(s, Tell(s, code))
         /\ Tell(s, code).timers = s.timers /\ Tell(s, code).rcv_nxt = s.rcv_nxt
         /\ Tell(s, code).ev = s.ev /\ Tell(s, code).fin_rcvd = s.fin_rcvd
         /\ Tell(s, code).failed = s.failed
<1>1. PICK t : t = Tell(s, code)
  OBVIOUS
<1>2. t \in Block
  <2>1. Append(s.told, code) \in Seq(Indication)
    BY DEF Block
  <2> QED
    BY <1>1, <2>1, ZenonT(60) DEF Tell, Block
<1>3. /\ t.timers = s.timers /\ t.rcv_nxt = s.rcv_nxt /\ t.ev = s.ev
      /\ t.fin_rcvd = s.fin_rcvd /\ t.failed = s.failed
      /\ t.st = s.st /\ t.active = s.active /\ t.iss = s.iss
      /\ t.snd_una = s.snd_una /\ t.snd_nxt = s.snd_nxt /\ t.snd_max = s.snd_max
      /\ t.qBegin = s.qBegin /\ t.qEnd = s.qEnd /\ t.out = s.out
      /\ t.send_fin = s.send_fin /\ t.snd_fin_seq = s.snd_fin_seq
  BY <1>1 DEF Tell, Block
<1>4. Keeps(s, t)
  BY <1>2, <1>3 DEF Keeps, FinsSent, EndsStream
<1> QED
  BY <1>1, <1>3, <1>4

LEMMA EventKeeps ==
  ASSUME NEW s \in Block, NEW e \in EventName
  PROVE  /\ Keeps(s, Event(s, e))
         /\ Event(s, e).timers = s.timers /\ Event(s, e).rcv_nxt = s.rcv_nxt
         /\ Event(s, e).ev = e /\ Event(s, e).fin_rcvd = s.fin_rcvd
         /\ Event(s, e).failed = s.failed
<1>1. PICK t : t = Event(s, e)
  OBVIOUS
<1>2. t \in Block
  BY <1>1, SMTT(40) DEF Event, Block
<1>3. /\ t.timers = s.timers /\ t.rcv_nxt = s.rcv_nxt /\ t.ev = e
      /\ t.fin_rcvd = s.fin_rcvd /\ t.failed = s.failed
      /\ t.st = s.st /\ t.active = s.active /\ t.iss = s.iss
      /\ t.snd_una = s.snd_una /\ t.snd_nxt = s.snd_nxt /\ t.snd_max = s.snd_max
      /\ t.qBegin = s.qBegin /\ t.qEnd = s.qEnd /\ t.out = s.out
      /\ t.send_fin = s.send_fin /\ t.snd_fin_seq = s.snd_fin_seq
  BY <1>1 DEF Event, Block
<1>4. Keeps(s, t)
  BY <1>2, <1>3 DEF Keeps, FinsSent, EndsStream
<1> QED
  BY <1>1, <1>3, <1>4

\* A timer is scheduled, which fails when it runs.
LEMMA Scheduled ==
  ASSUME NEW s \in Block, NEW n \in TimerName
  PROVE  /\ scheduleTimeout(s, n) \in Block
         /\ scheduleTimeout(s, n).failed = IF n \notin s.timers \/ s.failed # "no" THEN s.failed
                                           ELSE "already scheduled"
         /\ scheduleTimeout(s, n) = [s EXCEPT !.timers = s.timers \cup {n},
                                              !.failed = scheduleTimeout(s, n).failed]
<1>1. PICK f : f = IF n \notin s.timers \/ s.failed # "no" THEN s.failed ELSE "already scheduled"
  OBVIOUS
<1>2. f \in Failure
  BY <1>1 DEF Failure, Block
<1>3. PICK t : t = [s EXCEPT !.timers = s.timers \cup {n}, !.failed = f]
  OBVIOUS
<1>4. scheduleTimeout(s, n) = t
  <2>1. CASE n \notin s.timers \/ s.failed # "no"
    BY <1>1, <1>3, <2>1 DEF scheduleTimeout, Require, Block
  <2>2. CASE ~ (n \notin s.timers \/ s.failed # "no")
    BY <1>1, <1>3, <2>2 DEF scheduleTimeout, Require, Block
  <2> QED
    BY <2>1, <2>2
<1>5. s.timers \cup {n} \in SUBSET TimerName
  BY DEF Block
<1>6. t \in Block
  BY <1>2, <1>3, <1>5, ZenonT(60) DEF Block
<1>7. t.failed = f
  BY <1>3 DEF Block
<1> QED
  BY <1>1, <1>3, <1>4, <1>6, <1>7

LEMMA Received ==
  ASSUME NEW s \in Block, NEW n \in SeqNo, NEW k \in Nat, NEW b \in SUBSET SeqNo,
         NEW f, f \in {s.failed, "extractTo"}, NEW t, t = Taken(s, n, k, b, f)
  PROVE  /\ Keeps(s, t) /\ t.timers = s.timers /\ t.ev = s.ev /\ t.fin_rcvd = s.fin_rcvd
         /\ t.rcv_nxt = n /\ t.failed \in {s.failed, "extractTo"}
<1>1. f \in Failure
  BY DEF Failure, Block
<1>2. t \in Block
  BY <1>1, ZenonT(60) DEF Block, Taken
<1>3. /\ t.timers = s.timers /\ t.rcv_nxt = n /\ t.ev = s.ev
      /\ t.fin_rcvd = s.fin_rcvd /\ t.failed = f
      /\ t.st = s.st /\ t.active = s.active /\ t.iss = s.iss
      /\ t.snd_una = s.snd_una /\ t.snd_nxt = s.snd_nxt /\ t.snd_max = s.snd_max
      /\ t.qBegin = s.qBegin /\ t.qEnd = s.qEnd /\ t.out = s.out
      /\ t.send_fin = s.send_fin /\ t.snd_fin_seq = s.snd_fin_seq
  BY DEF Block, Taken
<1>4. Keeps(s, t)
  BY <1>2, <1>3 DEF Keeps, FinsSent, EndsStream
<1> QED
  BY <1>3, <1>4

LEMMA FirstRegionIn ==
  ASSUME NEW buf \in SUBSET SeqNo, NEW n \in SeqNo
  PROVE  FirstRegion(buf, n) \subseteq buf /\ Cardinality(FirstRegion(buf, n)) \in Nat
<1>1. FirstRegion(buf, n) \subseteq buf
  <2> DEFINE begin == CHOOSE i \in 0 .. SeqMod - 1 :
                        Plus(n, i) \in buf /\ \A j \in 0 .. i - 1 : Plus(n, j) \notin buf
             from(i) == {Plus(n, j) : j \in begin .. i}
  <2>1. FirstRegion(buf, n) =
          IF buf = {} THEN {}
          ELSE UNION {from(i) : i \in {k \in begin .. SeqMod - 1 : from(k) \subseteq buf}}
    BY DEF FirstRegion
  <2> HIDE DEF from, begin
  <2> QED
    BY <2>1
<1>2. IsFiniteSet(SeqNo)
  BY Windows, FS_Interval DEF SeqNo
<1>3. IsFiniteSet(FirstRegion(buf, n))
  BY <1>1, <1>2, FS_Subset
<1> QED
  BY <1>1, <1>3, FS_CardinalityType

LEMMA processTextKeeps ==
  ASSUME NEW s \in Block, NEW seg \in TCPSegment
  PROVE  /\ Keeps(s, processText(s, seg))
         /\ processText(s, seg).timers = s.timers /\ processText(s, seg).ev = s.ev
         /\ processText(s, seg).fin_rcvd = s.fin_rcvd
         /\ processText(s, seg).failed \in {s.failed, "extractTo"}
<1>1. PICK b \in SUBSET SeqNo : b = s.buf \cup {Plus(seg.seq, i) : i \in 0 .. seg.len - 1}
  <2>1. \A i \in 0 .. seg.len - 1 : Plus(seg.seq, i) \in SeqNo
    <3>1. seg.seq \in SeqNo /\ seg.len \in 0 .. MSS
      BY Segments
    <3>2. \A i \in 0 .. seg.len - 1 : i \in Nat
      BY <3>1, Windows
    <3> QED
      BY <3>1, <3>2, PlusType, Zenon
  <2> QED
    BY <2>1 DEF Block
<1>2. PICK r : r = FirstRegion(b, s.rcv_nxt)
  OBVIOUS
<1>3. PICK k \in Nat : k = Cardinality(r)
  BY <1>2, NumbersIn, FirstRegionIn
<1>4. PICK n \in SeqNo : n = Plus(s.rcv_nxt, k)
  BY NumbersIn, PlusType
<1>5. PICK q \in SUBSET SeqNo : q = b \ r
  OBVIOUS
<1>6. PICK o : o = Require(SeqMod - 1 \notin r \cup FirstRegion(q, n), s, "extractTo")
  OBVIOUS
<1>7. PICK f \in {s.failed, "extractTo"} : o = [s EXCEPT !.failed = f]
  BY <1>6 DEF Require, Block
<1>8. PICK t : t = [o EXCEPT !.rcv_nxt = n, !.rcvd = o.rcvd + k, !.buf = q]
  OBVIOUS
<1>9. PICK c \in Nat : c = s.rcvd + k
  BY DEF Block
<1>10. t = Taken(s, n, c, q, f)
  BY <1>7, <1>8, <1>9 DEF Block, Taken
<1>11. /\ Keeps(s, t) /\ t.timers = s.timers /\ t.ev = s.ev /\ t.fin_rcvd = s.fin_rcvd
       /\ t.failed \in {s.failed, "extractTo"}
  BY <1>10, Received
<1>12. t \in Block
  BY <1>11 DEF Keeps
<1>13. PICK m \in SeqNo : m = Plus(n, 1)
  BY PlusType
<1>14. PICK v : v = [t EXCEPT !.rcv_nxt = m]
  OBVIOUS
<1>15. v = Taken(t, m, t.rcvd, t.buf, t.failed) /\ t.rcvd \in Nat /\ t.buf \in SUBSET SeqNo
  BY <1>12, <1>14 DEF Block, Taken
<1>16. /\ Keeps(t, v) /\ v.timers = t.timers /\ v.ev = t.ev /\ v.fin_rcvd = t.fin_rcvd
       /\ v.failed \in {t.failed, "extractTo"}
  <2>1. t.failed \in {t.failed, "extractTo"}
    OBVIOUS
  <2> QED
    BY <1>12, <1>15, <2>1, Received
<1>17. v \in Block
  BY <1>16 DEF Keeps
<1>18. PICK w : w = Tell(v, "PEER_CLOSED")
  OBVIOUS
<1>19. /\ Keeps(v, w) /\ w.timers = v.timers /\ w.ev = v.ev /\ w.fin_rcvd = v.fin_rcvd
       /\ w.failed = v.failed
  BY <1>17, <1>18, TellKeeps DEF Indication
<1>20. Keeps(s, w)
  BY <1>11, <1>16, <1>19, KeepsTransitive, Zenon
<1>21. PICK x : x = [s EXCEPT !.buf = b]
  OBVIOUS
<1>22. x = Taken(s, s.rcv_nxt, s.rcvd, b, s.failed) /\ s.rcvd \in Nat /\ s.rcv_nxt \in SeqNo
  BY <1>21 DEF Block, Taken
<1>23. /\ Keeps(s, x) /\ x.timers = s.timers /\ x.ev = s.ev /\ x.fin_rcvd = s.fin_rcvd
       /\ x.failed \in {s.failed, "extractTo"}
  <2>1. s.failed \in {s.failed, "extractTo"}
    OBVIOUS
  <2> QED
    BY <1>22, <2>1, Received
<1>24. PICK y : y = sendAck(x)
  OBVIOUS
<1>25. Emits(x, y)
  BY <1>23, <1>24, sendAckEmits DEF Keeps
<1>26. /\ Keeps(s, y) /\ y.timers = s.timers /\ y.ev = s.ev /\ y.fin_rcvd = s.fin_rcvd
       /\ y.failed \in {s.failed, "extractTo"}
  BY <1>23, <1>25, EmitsKeeps, KeepsTransitive
<1>27. processText(s, seg) \in {y, w, t}
  BY <1>1, <1>2, <1>3, <1>4, <1>5, <1>6, <1>8, <1>13, <1>14, <1>18, <1>21, <1>24 DEF processText
<1> QED
  BY <1>11, <1>16, <1>19, <1>20, <1>26, <1>27

\* The timer of TIME_WAIT
LEMMA ScheduledKeeps ==
  ASSUME NEW s \in Block, NEW t, t = scheduleTimeout(s, "2MSL")
  PROVE  /\ Keeps(s, t) /\ t.timers = s.timers \cup {"2MSL"} /\ t.ev = s.ev
         /\ t.rcv_nxt = s.rcv_nxt /\ t.fin_rcvd = s.fin_rcvd
         /\ "2MSL" \notin s.timers => t.failed = s.failed
         /\ t.failed \in {s.failed, "already scheduled"}
<1>1. "2MSL" \in TimerName
  BY DEF TimerName
<1>2. PICK f : /\ t \in Block /\ t = [s EXCEPT !.timers = s.timers \cup {"2MSL"}, !.failed = f]
               /\ f = IF "2MSL" \notin s.timers \/ s.failed # "no" THEN s.failed
                      ELSE "already scheduled"
  BY <1>1, Scheduled
<1>3. /\ t.timers = s.timers \cup {"2MSL"} /\ t.rcv_nxt = s.rcv_nxt /\ t.ev = s.ev
      /\ t.fin_rcvd = s.fin_rcvd /\ t.failed = f
      /\ t.st = s.st /\ t.active = s.active /\ t.iss = s.iss
      /\ t.snd_una = s.snd_una /\ t.snd_nxt = s.snd_nxt /\ t.snd_max = s.snd_max
      /\ t.qBegin = s.qBegin /\ t.qEnd = s.qEnd /\ t.out = s.out
      /\ t.send_fin = s.send_fin /\ t.snd_fin_seq = s.snd_fin_seq
  BY <1>2, ZenonT(60) DEF Block
<1>4. Keeps(s, t)
  BY <1>2, <1>3 DEF Keeps, FinsSent, EndsStream
<1> QED
  BY <1>2, <1>3, <1>4

LEMMA CancelledKeeps ==
  ASSUME NEW s \in Block, NEW t, t = cancelEvent(s, {"2MSL"})
  PROVE  /\ Keeps(s, t) /\ t.timers = s.timers \ {"2MSL"} /\ t.ev = s.ev
         /\ t.rcv_nxt = s.rcv_nxt /\ t.fin_rcvd = s.fin_rcvd /\ t.failed = s.failed
<1>1. t \in Block
  BY SMTT(40) DEF Block, cancelEvent
<1>2. /\ t.timers = s.timers \ {"2MSL"} /\ t.rcv_nxt = s.rcv_nxt /\ t.ev = s.ev
      /\ t.fin_rcvd = s.fin_rcvd /\ t.failed = s.failed
      /\ t.st = s.st /\ t.active = s.active /\ t.iss = s.iss
      /\ t.snd_una = s.snd_una /\ t.snd_nxt = s.snd_nxt /\ t.snd_max = s.snd_max
      /\ t.qBegin = s.qBegin /\ t.qEnd = s.qEnd /\ t.out = s.out
      /\ t.send_fin = s.send_fin /\ t.snd_fin_seq = s.snd_fin_seq
  BY DEF Block, cancelEvent
<1>3. Keeps(s, t)
  BY <1>1, <1>2 DEF Keeps, FinsSent, EndsStream
<1> QED
  BY <1>2, <1>3

LEMMA processFinKeeps ==
  ASSUME NEW s \in Block, NEW seg \in TCPSegment
  PROVE  Finished(s, seg, processFin(s, seg))
<1>1. PICK fin \in SeqNo : fin = Plus(seg.seq, seg.len)
  BY Segments, PlusType
<1>2. PICK n \in SeqNo : n = Plus(s.rcv_nxt, 1)
  BY NumbersIn, PlusType
<1>3. PICK a : a = [s EXCEPT !.rcv_nxt = n]
  OBVIOUS
<1>4. a = Taken(s, n, s.rcvd, s.buf, s.failed) /\ s.rcvd \in Nat /\ s.buf \in SUBSET SeqNo
  BY <1>3 DEF Block, Taken
<1>5. /\ Keeps(s, a) /\ a.timers = s.timers /\ a.rcv_nxt = n
      /\ a.failed = s.failed
  <2>1. s.failed \in {s.failed, "extractTo"}
    OBVIOUS
  <2>2. Keeps(s, a) /\ a.timers = s.timers /\ a.rcv_nxt = n
    BY <1>4, <2>1, Received
  <2> QED
    BY <1>3, <2>2
<1>6. a \in Block
  BY <1>5 DEF Keeps
<1>7. PICK b : b = Tell(a, "PEER_CLOSED")
  OBVIOUS
<1>8. Keeps(a, b) /\ b.timers = a.timers /\ b.rcv_nxt = a.rcv_nxt /\ b.failed = a.failed
  BY <1>6, <1>7, TellKeeps DEF Indication
<1>9. PICK c : c = [s EXCEPT !.fin_rcvd = TRUE, !.rcv_fin_seq = fin]
  OBVIOUS
<1>10. Keeps(s, c) /\ c.timers = s.timers /\ c.fin_rcvd /\ c.failed = s.failed
  <2>1. c \in Block
    BY <1>9, ZenonT(60) DEF Block
  <2>2. /\ c.timers = s.timers /\ c.fin_rcvd = TRUE /\ c.failed = s.failed
        /\ c.st = s.st /\ c.active = s.active /\ c.iss = s.iss
        /\ c.snd_una = s.snd_una /\ c.snd_nxt = s.snd_nxt /\ c.snd_max = s.snd_max
        /\ c.qBegin = s.qBegin /\ c.qEnd = s.qEnd /\ c.out = s.out
        /\ c.send_fin = s.send_fin /\ c.snd_fin_seq = s.snd_fin_seq
    BY <1>9 DEF Block
  <2> QED
    BY <2>1, <2>2 DEF Keeps, FinsSent, EndsStream
<1>11. PICK d : d = IF s.rcv_nxt = fin THEN b ELSE c
  OBVIOUS
<1>12. /\ Keeps(s, d) /\ d.timers = s.timers /\ d.failed = s.failed
       /\ d.fin_rcvd \/ d.rcv_nxt = Plus(fin, 1)
  <2>1. Keeps(s, b) /\ b.timers = s.timers /\ b.failed = s.failed /\ b.rcv_nxt = n
    BY <1>5, <1>8, KeepsTransitive
  <2> QED
    BY <1>2, <1>10, <1>11, <2>1
<1>13. d \in Block
  BY <1>12 DEF Keeps
<1>14. ASSUME NEW g, g \in Block, Keeps(s, g), g.fin_rcvd \/ g.rcv_nxt = Plus(fin, 1),
              NEW v \in {"RCV_FIN", "RCV_FIN_ACK"}, NEW t, t = Event(g, v)
       PROVE  /\ Keeps(s, t) /\ t.ev = v /\ t.timers = g.timers /\ t.failed = g.failed
              /\ t.fin_rcvd \/ t.rcv_nxt = Plus(fin, 1)
  <2>1. v \in EventName
    BY DEF EventName
  <2>2. /\ Keeps(g, t) /\ t.ev = v /\ t.timers = g.timers /\ t.failed = g.failed
        /\ t.rcv_nxt = g.rcv_nxt /\ t.fin_rcvd = g.fin_rcvd
    BY <1>14, <2>1, EventKeeps
  <2> QED
    BY <1>14, <2>2, KeepsTransitive
<1>15. ASSUME NEW g, g \in Block, Keeps(s, g), g.fin_rcvd \/ g.rcv_nxt = Plus(fin, 1),
              g.failed = s.failed, NEW t, t = Event(scheduleTimeout(g, "2MSL"), "RCV_FIN")
       PROVE  /\ Keeps(s, t) /\ t.ev = "RCV_FIN"
              /\ t.fin_rcvd \/ t.rcv_nxt = Plus(fin, 1)
              /\ "2MSL" \notin g.timers => t.failed = s.failed
  <2>1. PICK h : h = scheduleTimeout(g, "2MSL")
    OBVIOUS
  <2>2. /\ Keeps(g, h) /\ h.rcv_nxt = g.rcv_nxt /\ h.fin_rcvd = g.fin_rcvd
        /\ "2MSL" \notin g.timers => h.failed = g.failed
    BY <1>15, <2>1, ScheduledKeeps
  <2>3. h \in Block /\ Keeps(s, h)
    BY <1>15, <2>2, KeepsTransitive DEF Keeps
  <2>4. t = Event(h, "RCV_FIN")
    BY <1>15, <2>1
  <2>5. Keeps(s, t) /\ t.ev = "RCV_FIN" /\ t.failed = h.failed
        /\ (t.fin_rcvd \/ t.rcv_nxt = Plus(fin, 1))
    BY <1>14, <1>15, <2>2, <2>3, <2>4
  <2> QED
    BY <1>15, <2>2, <2>5
<1>16. CASE s.st = "FIN_WAIT_1" /\ s.fin_ack_rcvd
  <2>1. PICK t : t = Event(scheduleTimeout(d, "2MSL"), "RCV_FIN")
    OBVIOUS
  <2>2. /\ Keeps(s, t) /\ (t.fin_rcvd \/ t.rcv_nxt = Plus(fin, 1))
        /\ "2MSL" \notin d.timers => t.failed = s.failed
    BY <1>12, <1>13, <1>15, <2>1
  <2>3. PICK u : u = Event(t, "RCV_FIN_ACK")
    OBVIOUS
  <2>4. t \in Block
    BY <2>2 DEF Keeps
  <2>5. Keeps(s, u) /\ u.ev = "RCV_FIN_ACK" /\ u.failed = t.failed
        /\ (u.fin_rcvd \/ u.rcv_nxt = Plus(fin, 1))
    BY <1>14, <2>2, <2>3, <2>4
  <2>6. processFin(s, seg) = u
    BY <1>1, <1>2, <1>3, <1>7, <1>9, <1>11, <1>16, <2>1, <2>3 DEF processFin
  <2> QED
    BY <1>1, <1>12, <1>16, <2>2, <2>5, <2>6 DEF Finished
<1>17. CASE s.st = "FIN_WAIT_2"
  <2>1. PICK t : t = Event(scheduleTimeout(d, "2MSL"), "RCV_FIN")
    OBVIOUS
  <2>2. /\ Keeps(s, t) /\ (t.fin_rcvd \/ t.rcv_nxt = Plus(fin, 1)) /\ t.ev = "RCV_FIN"
        /\ "2MSL" \notin d.timers => t.failed = s.failed
    BY <1>12, <1>13, <1>15, <2>1
  <2>3. processFin(s, seg) = t
    BY <1>1, <1>2, <1>3, <1>7, <1>9, <1>11, <1>17, <2>1 DEF processFin
  <2> QED
    BY <1>1, <1>12, <1>17, <2>2, <2>3 DEF Finished
<1>18. CASE s.st = "TIME_WAIT"
  <2>1. PICK g : g = cancelEvent(d, {"2MSL"})
    OBVIOUS
  <2>2. /\ Keeps(d, g) /\ g.timers = d.timers \ {"2MSL"} /\ g.rcv_nxt = d.rcv_nxt
        /\ g.fin_rcvd = d.fin_rcvd /\ g.failed = d.failed
    BY <1>13, <2>1, CancelledKeeps
  <2>3. g \in Block /\ Keeps(s, g) /\ "2MSL" \notin g.timers
    BY <1>12, <2>2, KeepsTransitive DEF Keeps
  <2>4. PICK t : t = Event(scheduleTimeout(g, "2MSL"), "RCV_FIN")
    OBVIOUS
  <2>5. /\ Keeps(s, t) /\ (t.fin_rcvd \/ t.rcv_nxt = Plus(fin, 1)) /\ t.ev = "RCV_FIN"
        /\ t.failed = s.failed
    BY <1>12, <1>15, <2>2, <2>3, <2>4
  <2>6. processFin(s, seg) = t
    BY <1>1, <1>2, <1>3, <1>7, <1>9, <1>11, <1>18, <2>1, <2>4 DEF processFin
  <2> QED
    BY <1>1, <1>18, <2>5, <2>6 DEF Finished
<1>19. CASE ~ (s.st = "FIN_WAIT_1" /\ s.fin_ack_rcvd) /\ s.st \notin {"FIN_WAIT_2", "TIME_WAIT"}
  <2>1. PICK t : t = Event(d, "RCV_FIN")
    OBVIOUS
  <2>2. /\ Keeps(s, t) /\ t.ev = "RCV_FIN" /\ t.timers = s.timers /\ t.failed = s.failed
        /\ t.fin_rcvd \/ t.rcv_nxt = Plus(fin, 1)
    BY <1>12, <1>13, <1>14, <2>1
  <2>3. processFin(s, seg) = t
    BY <1>1, <1>2, <1>3, <1>7, <1>9, <1>11, <1>19, <2>1 DEF processFin
  <2> QED
    BY <1>1, <2>2, <2>3 DEF Finished
<1> QED
  BY <1>16, <1>17, <1>18, <1>19

LEMMA FinishedReceives ==
  ASSUME NEW s, NEW seg, NEW b, NEW t, seg.fin, Keeps(s, b), b.timers = s.timers, b.st = s.st,
         b.failed \in {s.failed, "extractTo"}, Finished(b, seg, t)
  PROVE  Receives(s, seg, t)
<1>1. Keeps(s, t)
  BY KeepsTransitive DEF Finished
<1>2. /\ \/ t.ev = "RCV_FIN"
         \/ s.st = "FIN_WAIT_1" /\ t.ev = "RCV_FIN_ACK"
      /\ \/ t.timers = s.timers
         \/ s.st = "FIN_WAIT_1" /\ t.ev = "RCV_FIN_ACK"
         \/ s.st = "FIN_WAIT_2" /\ t.ev = "RCV_FIN"
         \/ s.st = "TIME_WAIT"
      /\ "2MSL" \notin s.timers \/ s.st \notin {"FIN_WAIT_1", "FIN_WAIT_2"}
           => t.failed \in {s.failed, "extractTo"}
      /\ t.fin_rcvd \/ t.rcv_nxt = Plus(Plus(seg.seq, seg.len), 1)
  BY DEF Finished
<1> QED
  BY <1>1, <1>2 DEF Receives

LEMMA processTextAndFinReceives ==
  ASSUME NEW s \in Block, NEW seg \in TCPSegment, NEW old
  PROVE  Receives(s, seg, processTextAndFin(s, seg, old))
<1> DEFINE takes == s.st \in {"ESTABLISHED", "FIN_WAIT_1", "FIN_WAIT_2"} /\ seg.len > 0
<1>1. PICK a : a = processText(s, seg)
  OBVIOUS
<1>2. /\ Keeps(s, a) /\ a.timers = s.timers /\ a.ev = s.ev /\ a.fin_rcvd = s.fin_rcvd
      /\ a.failed \in {s.failed, "extractTo"}
  BY <1>1, processTextKeeps
<1>3. PICK b : b = IF takes THEN a ELSE s
  OBVIOUS
<1>4. /\ Keeps(s, b) /\ b.timers = s.timers /\ b.ev = s.ev /\ b.fin_rcvd = s.fin_rcvd
      /\ b.failed \in {s.failed, "extractTo"} /\ b.st = s.st
      /\ s.st \notin {"ESTABLISHED", "FIN_WAIT_1", "FIN_WAIT_2"} => b.rcv_nxt = s.rcv_nxt
  <2>1. CASE takes
    BY <1>2, <1>3, <2>1 DEF Keeps
  <2>2. CASE ~ takes
    <3>1. b = s
      BY <1>3, <2>2
    <3> QED
      BY <3>1, KeepsItself
  <2> QED
    BY <2>1, <2>2
<1> HIDE DEF takes
<1>5. b \in Block
  BY <1>4 DEF Keeps
<1>6. PICK c : c = processFin(b, seg)
  OBVIOUS
<1>7. Finished(b, seg, c)
  BY <1>5, <1>6, processFinKeeps
<1>8. PICK d : d = IF seg.fin THEN c ELSE b
  OBVIOUS
<1>9. Receives(s, seg, d)
  <2>1. CASE seg.fin
    <3>1. d = c
      BY <1>8, <2>1
    <3>2. Receives(s, seg, c)
      BY <1>4, <1>7, <2>1, FinishedReceives
    <3> QED
      BY <3>1, <3>2
  <2>2. CASE ~ seg.fin
    <3>1. d = b
      BY <1>8, <2>2
    <3> QED
      BY <1>4, <2>2, <3>1 DEF Receives
  <2> QED
    BY <2>1, <2>2
<1>10. d \in Block
  BY <1>9 DEF Receives, Keeps
<1>11. PICK f : f = sendAck(d)
  OBVIOUS
<1>12. /\ Keeps(d, f) /\ f.timers = d.timers /\ f.rcv_nxt = d.rcv_nxt /\ f.ev = d.ev
       /\ f.fin_rcvd = d.fin_rcvd /\ f.failed = d.failed
  BY <1>10, <1>11, sendAckEmits, EmitsKeeps
<1>13. PICK g : g = IF d.rcv_nxt # s.rcv_nxt THEN f ELSE d
  OBVIOUS
<1>14. Receives(s, seg, g)
  <2>1. Keeps(s, f)
    BY <1>9, <1>12, KeepsTransitive DEF Receives
  <2>2. Receives(s, seg, f)
    BY <1>9, <1>12, <2>1 DEF Receives
  <2> QED
    BY <1>9, <1>13, <2>2
<1>15. g \in Block
  BY <1>14 DEF Receives, Keeps
<1>16. PICK h : h = Event(g, "CLOSE")
  OBVIOUS
<1>17. /\ Keeps(g, h) /\ h.timers = g.timers /\ h.rcv_nxt = g.rcv_nxt /\ h.ev = "CLOSE"
       /\ h.fin_rcvd = g.fin_rcvd /\ h.failed = g.failed
  BY <1>15, <1>16, EventKeeps DEF EventName
<1>18. s.st = "CLOSE_WAIT" => Receives(s, seg, h)
  <2>1. Keeps(s, h)
    BY <1>14, <1>17, KeepsTransitive DEF Receives
  <2> QED
    BY <1>14, <1>17, <2>1 DEF Receives
<1>19. processTextAndFin(s, seg, old) = IF /\ s.st = "CLOSE_WAIT" /\ g.send_fin
                                           /\ g.snd_nxt = Plus(g.snd_fin_seq, 1)
                                           /\ old # g.snd_nxt
                                        THEN h ELSE g
  BY <1>1, <1>3, <1>6, <1>8, <1>11, <1>13, <1>16 DEF processTextAndFin, takes
<1> QED
  BY <1>14, <1>18, <1>19

-----------------------------------------------------------------------------
(* Acknowledgements. *)

LEMMA discardUpToIs ==
  ASSUME NEW s \in Block, NEW n \in SeqNo
  PROVE  \E f \in Failure :
           /\ f = IF s.failed # "no" \/ (seqLE(s.qBegin, n) /\ seqLE(n, s.qEnd))
                  THEN s.failed ELSE "discardUpTo"
           /\ discardUpTo(s, n) = [s EXCEPT !.qBegin = n, !.failed = f]
<1>1. PICK f : f = IF s.failed # "no" \/ (seqLE(s.qBegin, n) /\ seqLE(n, s.qEnd))
                   THEN s.failed ELSE "discardUpTo"
  OBVIOUS
<1>2. f \in Failure
  BY <1>1 DEF Failure, Block
<1>3. PICK ok \in BOOLEAN : ok <=> seqLE(s.qBegin, n) /\ seqLE(n, s.qEnd)
  OBVIOUS
<1>4. discardUpTo(s, n) = [s EXCEPT !.qBegin = n, !.failed = f]
  <2>1. discardUpTo(s, n) = [(IF ok \/ s.failed # "no" THEN s
                              ELSE [s EXCEPT !.failed = "discardUpTo"]) EXCEPT !.qBegin = n]
    BY <1>3 DEF discardUpTo, Require
  <2>2. CASE ok \/ s.failed # "no"
    BY <1>1, <1>3, <2>1, <2>2 DEF Block
  <2>3. CASE ~ (ok \/ s.failed # "no")
    BY <1>1, <1>3, <2>1, <2>3 DEF Block
  <2> QED
    BY <2>2, <2>3
<1> QED
  BY <1>1, <1>2, <1>4

\* The window that a segment advertises
LEMMA updateWindowIs ==
  ASSUME NEW s \in Block, NEW a \in SeqNo, NEW b \in SeqNo, NEW t, t = updateWindow(s, a, b)
  PROVE  Emits(s, t) /\ t = [s EXCEPT !.snd_wnd = RcvWnd, !.snd_wl1 = a, !.snd_wl2 = b]
<1>1. t \in Block
  BY ZenonT(60) DEF updateWindow, Block
<1>2. /\ t.timers = s.timers /\ t.rcv_nxt = s.rcv_nxt /\ t.ev = s.ev
      /\ t.fin_rcvd = s.fin_rcvd /\ t.failed = s.failed
      /\ t.st = s.st /\ t.active = s.active /\ t.iss = s.iss
      /\ t.snd_una = s.snd_una /\ t.snd_nxt = s.snd_nxt /\ t.snd_max = s.snd_max
      /\ t.qBegin = s.qBegin /\ t.qEnd = s.qEnd /\ t.out = s.out
      /\ t.send_fin = s.send_fin /\ t.snd_fin_seq = s.snd_fin_seq
  BY DEF updateWindow, Block
<1>3. Emits(s, t)
  BY <1>1, <1>2 DEF Emits, Sends, FinsSent, EndsStream
<1> QED
  BY <1>3 DEF updateWindow

LEMMA AnswersThenEmits ==
  ASSUME NEW s, NEW t, NEW u, Answers(s, t), Emits(t, u)
  PROVE  Answers(s, u)
<1>1. Sends(s, u)
  BY SendsTransitive, Zenon DEF Answers, Emits
<1>2. u.snd_max = t.snd_max /\ u.timers = t.timers
  BY DEF Emits
<1> QED
  BY <1>1, <1>2 DEF Answers, SentMore

LEMMA AcksThenEmits ==
  ASSUME NEW s, NEW n, NEW r, NEW u, Acks(s, n, r), Emits(r, u)
  PROVE  Acks(s, n, u)
BY DEF Acks, Emits, Sends

LEMMA processAckInEstabEtcAcknowledges ==
  ASSUME NEW s \in Block, NEW seg \in TCPSegment
  PROVE  Acknowledges(s, seg, processAckInEstabEtc(s, seg))
<1>1. PICK n \in SeqNo : n = seg.ackNo
  BY Segments
<1>2. PICK finAcked \in BOOLEAN : finAcked <=> FinAcked(s, n)
  OBVIOUS
<1>3. PICK x \in SeqNo : x = IF seqLess(s.snd_nxt, n) THEN n ELSE s.snd_nxt
  BY NumbersIn
<1>4. PICK k \in BOOLEAN : k = (s.fin_ack_rcvd \/ finAcked)
  OBVIOUS
<1>5. PICK a : a = [s EXCEPT !.snd_una = n, !.snd_nxt = x, !.fin_ack_rcvd = k]
  OBVIOUS
<1>6. /\ a \in Block
      /\ a.st = s.st /\ a.active = s.active /\ a.iss = s.iss
      /\ a.snd_max = s.snd_max /\ a.qEnd = s.qEnd /\ a.qBegin = s.qBegin
      /\ a.send_fin = s.send_fin /\ a.snd_fin_seq = s.snd_fin_seq
      /\ a.rcv_nxt = s.rcv_nxt /\ a.fin_rcvd = s.fin_rcvd /\ a.ev = s.ev /\ a.timers = s.timers
      /\ a.snd_una = n /\ a.failed = s.failed /\ a.out = s.out
  <2>1. a \in Block
    BY <1>5, ZenonT(60) DEF Block
  <2> QED
    BY <1>5, <2>1 DEF Block
<1>7. PICK q \in SeqNo : q = IF finAcked THEN s.snd_fin_seq ELSE n
  BY NumbersIn
<1>8. PICK b : b = discardUpTo(a, q)
  OBVIOUS
<1>9. PICK f \in Failure :
        /\ f = IF a.failed # "no" \/ (seqLE(a.qBegin, q) /\ seqLE(q, a.qEnd))
               THEN a.failed ELSE "discardUpTo"
        /\ b = [a EXCEPT !.qBegin = q, !.failed = f]
  <2>1. a \in Block
    BY <1>6
  <2> QED
    BY <1>8, <2>1, discardUpToIs, ZenonT(40)
<1>10. b \in Block
  <2>1. a \in Block /\ b = [a EXCEPT !.qBegin = q, !.failed = f]
    BY <1>6, <1>9
  <2> QED
    BY <2>1, ZenonT(60) DEF Block
<1>11. Acks(s, n, b)
  <2>1. /\ b.st = a.st /\ b.active = a.active /\ b.iss = a.iss
        /\ b.snd_max = a.snd_max /\ b.qEnd = a.qEnd
        /\ b.send_fin = a.send_fin /\ b.snd_fin_seq = a.snd_fin_seq
        /\ b.rcv_nxt = a.rcv_nxt /\ b.fin_rcvd = a.fin_rcvd /\ b.ev = a.ev
        /\ b.timers = a.timers /\ b.snd_una = a.snd_una /\ b.out = a.out
        /\ b.qBegin = q /\ b.failed = f
    BY <1>6, <1>9 DEF Block
  <2>2. FinsSent(s) => FinsSent(b)
    BY <1>6, <2>1 DEF FinsSent, EndsStream
  <2>3. q = IF FinAcked(s, n) THEN s.snd_fin_seq ELSE n
    BY <1>2, <1>7
  <2>4. f = IF s.failed # "no" \/ (seqLE(s.qBegin, q) /\ seqLE(q, s.qEnd))
            THEN s.failed ELSE "discardUpTo"
    BY <1>6, <1>9
  <2> QED
    BY <1>6, <1>10, <2>1, <2>2, <2>3, <2>4 DEF Acks
<1>12. PICK c : c = updateWindow(b, seg.seq, n)
  OBVIOUS
<1>13. Emits(b, c)
  BY <1>10, <1>12, Segments, updateWindowIs
<1>14. Acks(s, n, c)
  BY <1>11, <1>13, AcksThenEmits, Zenon
<1>15. PICK newer \in BOOLEAN :
         newer <=> \/ seqLess(s.snd_wl1, seg.seq)
                   \/ s.snd_wl1 = seg.seq /\ seqLE(s.snd_wl2, seg.ackNo)
  OBVIOUS
<1>16. PICK r : r = IF newer THEN c ELSE b
  OBVIOUS
<1>17. Acks(s, n, r)
  BY <1>11, <1>14, <1>16
<1>18. r \in Block
  BY <1>17 DEF Acks
<1>19. PICK d : d = receivedDataAck(r)
  OBVIOUS
<1>20. Answers(r, d)
  BY <1>18, <1>19, receivedDataAckAnswers
<1>21. d \in Block
  BY <1>20 DEF Answers, Sends
<1>22. PICK e : e = [d EXCEPT !.dupacks = 0]
  OBVIOUS
<1>23. Emits(d, e)
  <2>1. 0 \in 0 .. 4
    OBVIOUS
  <2> QED
    BY <1>21, <1>22, <2>1, Adjusted, Zenon
<1>24. Answers(r, e)
  BY <1>20, <1>23, AnswersThenEmits, Zenon
<1>25. CASE seqLE(seg.ackNo, s.snd_una)
  <2>1. PICK z \in 0 .. 4 : z = Least(4, s.dupacks + 1)
    BY DEF Least, Block
  <2>2. PICK g : g = [s EXCEPT !.dupacks = z]
    OBVIOUS
  <2>3. Emits(s, g)
    BY <2>2, Adjusted
  <2>4. g \in Block
    BY <2>3 DEF Emits, Sends
  <2>5. PICK h : h = receivedDuplicateAck(g)
    OBVIOUS
  <2>6. Sends(g, h) /\ h.snd_max = g.snd_max /\ g.timers \subseteq h.timers
    BY <2>4, <2>5, receivedDuplicateAckSends
  <2>7. Sends(s, h)
    BY <2>3, <2>6, SendsTransitive, Zenon DEF Emits
  <2>8. h.snd_max = s.snd_max /\ s.timers \subseteq h.timers
    BY <2>3, <2>6 DEF Emits
  <2>9. PICK i : i = [s EXCEPT !.dupacks = 0]
    OBVIOUS
  <2>10. Emits(s, i)
    <3>1. 0 \in 0 .. 4
      OBVIOUS
    <3> QED
      BY <2>9, <3>1, Adjusted, Zenon
  <2>11. processAckInEstabEtc(s, seg) =
           IF s.snd_una = seg.ackNo /\ seg.len = 0 /\ s.snd_una # s.snd_max
           THEN receivedDuplicateAck([s EXCEPT !.dupacks = Least(4, @ + 1)])
           ELSE [s EXCEPT !.dupacks = 0]
    <3>1. ~ seqLess(s.snd_una, seg.ackNo)
      BY <1>1, <1>25, NumbersIn, OneOrder
    <3> QED
      BY <1>25, <3>1 DEF processAckInEstabEtc
  <2>12. processAckInEstabEtc(s, seg) \in {h, i}
    BY <2>1, <2>2, <2>5, <2>9, <2>11
  <2>13. Sends(s, i) /\ i.snd_max = s.snd_max /\ s.timers \subseteq i.timers
    BY <2>10 DEF Emits
  <2> QED
    BY <2>7, <2>8, <2>12, <2>13 DEF Acknowledges
<1>26. CASE ~ seqLE(seg.ackNo, s.snd_una) /\ seqLess(s.snd_una, seg.ackNo)
              /\ seqLE(seg.ackNo, s.snd_max)
  <2> DEFINE acked == s.send_fin /\ seg.ackNo = Plus(s.snd_fin_seq, 1)
             s1 == [s EXCEPT !.snd_una = seg.ackNo,
                             !.snd_nxt = IF seqLess(@, seg.ackNo) THEN seg.ackNo ELSE @,
                             !.fin_ack_rcvd = @ \/ acked]
             s2 == discardUpTo(s1, IF acked THEN s.snd_fin_seq ELSE seg.ackNo)
             later == \/ seqLess(s.snd_wl1, seg.seq)
                      \/ s.snd_wl1 = seg.seq /\ seqLE(s.snd_wl2, seg.ackNo)
             s3 == IF later THEN updateWindow(s2, seg.seq, seg.ackNo) ELSE s2
  <2>1. acked = finAcked
    BY <1>1, <1>2 DEF FinAcked
  <2>2. processAckInEstabEtc(s, seg) = [receivedDataAck(s3) EXCEPT !.dupacks = 0]
    BY <1>26 DEF processAckInEstabEtc
  <2> HIDE DEF acked
  <2>3. s1 = a
    BY <1>1, <1>3, <1>4, <1>5, <2>1
  <2> HIDE DEF s1
  <2>4. s2 = b
    BY <1>1, <1>7, <1>8, <2>1, <2>3
  <2> HIDE DEF s2
  <2>5. s3 = r
    <3>1. later <=> newer
      BY <1>15
    <3> HIDE DEF later
    <3> QED
      BY <1>1, <1>12, <1>16, <2>4, <3>1
  <2> HIDE DEF s3
  <2>6. processAckInEstabEtc(s, seg) = e
    BY <1>19, <1>22, <2>2, <2>5
  <2> QED
    BY <1>1, <1>17, <1>24, <1>26, <2>6 DEF Acknowledges
<1>27. CASE /\ ~ seqLE(seg.ackNo, s.snd_una)
            /\ ~ (seqLess(s.snd_una, seg.ackNo) /\ seqLE(seg.ackNo, s.snd_max))
  <2>1. PICK g : g = sendAck(s)
    OBVIOUS
  <2>2. Emits(s, g)
    BY <2>1, sendAckEmits
  <2>3. g \in Block
    BY <2>2 DEF Emits, Sends
  <2>4. PICK h : h = [g EXCEPT !.dupacks = 0]
    OBVIOUS
  <2>5. Emits(g, h)
    <3>1. 0 \in 0 .. 4
      OBVIOUS
    <3> QED
      BY <2>3, <2>4, <3>1, Adjusted, Zenon
  <2>6. Sends(s, h)
    BY <2>2, <2>5, SendsTransitive, Zenon DEF Emits
  <2>7. processAckInEstabEtc(s, seg) = h
    BY <1>27, <2>1, <2>4 DEF processAckInEstabEtc
  <2> QED
    BY <2>2, <2>5, <2>6, <2>7 DEF Acknowledges, Emits
<1> QED
  BY <1>25, <1>26, <1>27

\* Only the retransmission timer, and what is sent, depend on an acknowledgement.
LEMMA AcknowledgesKeeps ==
  ASSUME NEW s \in Block, NEW seg, NEW t, Acknowledges(s, seg, t)
  PROVE  /\ t \in Block /\ t.st = s.st /\ t.active = s.active /\ t.iss = s.iss
         /\ t.send_fin = s.send_fin /\ t.snd_fin_seq = s.snd_fin_seq
         /\ t.rcv_nxt = s.rcv_nxt /\ t.fin_rcvd = s.fin_rcvd /\ t.ev = s.ev
         /\ t.timers \ {"REXMIT"} = s.timers \ {"REXMIT"}
         /\ t.failed \in {s.failed, "createSegmentWithBytes", "discardUpTo"}
         /\ FinsSent(s) => FinsSent(t)
<1>1. CASE Sends(s, t)
  BY <1>1 DEF Sends
<1>2. ASSUME NEW r, Acks(s, seg.ackNo, r), Sends(r, t)
      PROVE  /\ t \in Block /\ t.st = s.st /\ t.active = s.active /\ t.iss = s.iss
             /\ t.send_fin = s.send_fin /\ t.snd_fin_seq = s.snd_fin_seq
             /\ t.rcv_nxt = s.rcv_nxt /\ t.fin_rcvd = s.fin_rcvd /\ t.ev = s.ev
             /\ t.timers \ {"REXMIT"} = s.timers \ {"REXMIT"}
             /\ t.failed \in {s.failed, "createSegmentWithBytes", "discardUpTo"}
             /\ FinsSent(s) => FinsSent(t)
  BY <1>2 DEF Acks, Sends
<1> QED
  BY <1>1, <1>2 DEF Acknowledges, Answers

LEMMA processAckProcesses ==
  ASSUME NEW s \in Block, NEW seg \in TCPSegment, s.ev = "IGNORE", s.failed = "no"
  PROVE  /\ Processes(s, seg, processAck(s, seg)) /\ Closes(s, seg, processAck(s, seg))
         /\ s.st = "SYN_RCVD" /\ ~ seqLess(s.snd_max, seg.ackNo)
              => processAck(s, seg).ev \in {"RCV_ACK", "RCV_FIN"}
<1>1. PICK a : a = established(s, FALSE)
  OBVIOUS
<1>2. Emits(s, a)
  <2>1. a = [s EXCEPT !.cwnd = MSS]
    BY <1>1 DEF established
  <2>2. MSS \in 0 .. RcvWnd
    BY Windows
  <2> QED
    BY <2>1, <2>2, Adjusted, Zenon
<1>3. /\ Keeps(s, a) /\ a.timers = s.timers /\ a.rcv_nxt = s.rcv_nxt /\ a.ev = s.ev
      /\ a.fin_rcvd = s.fin_rcvd /\ a.failed = s.failed /\ a \in Block
  BY <1>2, EmitsKeeps, ZenonT(60) DEF Keeps
<1>4. PICK b : b = Event(a, "RCV_ACK")
  OBVIOUS
<1>5. /\ Keeps(a, b) /\ b.timers = a.timers /\ b.rcv_nxt = a.rcv_nxt /\ b.ev = "RCV_ACK"
      /\ b.fin_rcvd = a.fin_rcvd /\ b.failed = a.failed
  BY <1>3, <1>4, EventKeeps DEF EventName
<1>6. Keeps(s, b)
  BY <1>3, <1>5, KeepsTransitive
<1>7. PICK g : g = IF s.st = "SYN_RCVD" THEN b ELSE s
  OBVIOUS
<1>8. /\ Keeps(s, g) /\ g.timers = s.timers /\ g.rcv_nxt = s.rcv_nxt
      /\ g.fin_rcvd = s.fin_rcvd /\ g.failed = s.failed
      /\ g.ev = IF s.st = "SYN_RCVD" THEN "RCV_ACK" ELSE "IGNORE"
  BY <1>3, <1>5, <1>6, <1>7, KeepsItself
<1>9. g \in Block /\ g.st = s.st
  BY <1>8 DEF Keeps
<1>10. PICK c : c = processAckInEstabEtc(g, seg)
  OBVIOUS
<1>11. Acknowledges(g, seg, c)
  BY <1>9, <1>10, processAckInEstabEtcAcknowledges
<1>12. PICK h : h = IF s.st \in {"LAST_ACK", "TIME_WAIT"} THEN g ELSE c
  OBVIOUS
<1>13. Acknowledges(g, seg, h)
  <2>1. Sends(g, g)
    BY <1>9 DEF Sends
  <2>2. Acknowledges(g, seg, g)
    BY <2>1 DEF Acknowledges
  <2> QED
    BY <1>11, <1>12, <2>2
<1>14. /\ h.st = s.st /\ h.rcv_nxt = s.rcv_nxt /\ h.fin_rcvd = s.fin_rcvd
       /\ h.ev = g.ev /\ h.timers \ {"REXMIT"} = s.timers \ {"REXMIT"}
       /\ h.failed # "already scheduled"
  <2>1. /\ h.st = g.st /\ h.rcv_nxt = g.rcv_nxt /\ h.fin_rcvd = g.fin_rcvd
        /\ h.ev = g.ev /\ h.timers \ {"REXMIT"} = g.timers \ {"REXMIT"}
        /\ h.failed \in {g.failed, "createSegmentWithBytes", "discardUpTo"}
    BY <1>9, <1>13, AcknowledgesKeeps
  <2> QED
    BY <1>8, <1>9, <2>1
<1>15. h \in Block
  BY <1>9, <1>13, AcknowledgesKeeps
<1>16. ASSUME NEW t, Keeps(h, t)
       PROVE  Processes(s, seg, t)
  BY <1>8, <1>13, <1>16 DEF Processes
<1>17. PICK d : d = Event(h, "RCV_ACK")
  OBVIOUS
<1>18. /\ Keeps(h, d) /\ d.timers = h.timers /\ d.rcv_nxt = h.rcv_nxt /\ d.ev = "RCV_ACK"
       /\ d.fin_rcvd = h.fin_rcvd /\ d.failed = h.failed
  BY <1>15, <1>17, EventKeeps DEF EventName
<1>19. PICK e : e = scheduleTimeout(h, "2MSL")
  OBVIOUS
<1>20. /\ Keeps(h, e) /\ e.timers = h.timers \cup {"2MSL"} /\ e.ev = h.ev
       /\ e.rcv_nxt = h.rcv_nxt /\ e.fin_rcvd = h.fin_rcvd
       /\ "2MSL" \notin h.timers => e.failed = h.failed
  BY <1>15, <1>19, ScheduledKeeps
<1>21. e \in Block
  BY <1>20 DEF Keeps
<1>22. PICK f : f = Event(e, "RCV_ACK")
  OBVIOUS
<1>23. /\ Keeps(e, f) /\ f.timers = e.timers /\ f.rcv_nxt = e.rcv_nxt /\ f.ev = "RCV_ACK"
       /\ f.fin_rcvd = e.fin_rcvd /\ f.failed = e.failed
  BY <1>21, <1>22, EventKeeps DEF EventName
<1>24. PICK i : i = sendAck(h)
  OBVIOUS
<1>25. /\ Keeps(h, i) /\ i.timers = h.timers /\ i.rcv_nxt = h.rcv_nxt /\ i.ev = h.ev
       /\ i.fin_rcvd = h.fin_rcvd /\ i.failed = h.failed
  BY <1>15, <1>24, sendAckEmits, EmitsKeeps
<1>26. i \in Block
  BY <1>25 DEF Keeps
<1>27. PICK j : j = cancelEvent(i, {"2MSL"})
  OBVIOUS
<1>28. /\ Keeps(i, j) /\ j.timers = i.timers \ {"2MSL"} /\ j.ev = i.ev
       /\ j.rcv_nxt = i.rcv_nxt /\ j.fin_rcvd = i.fin_rcvd /\ j.failed = i.failed
  BY <1>26, <1>27, CancelledKeeps
<1>29. j \in Block
  BY <1>28 DEF Keeps
<1>30. PICK k : k = scheduleTimeout(j, "2MSL")
  OBVIOUS
<1>31. /\ Keeps(j, k) /\ k.ev = j.ev
       /\ k.rcv_nxt = j.rcv_nxt /\ k.fin_rcvd = j.fin_rcvd /\ k.failed = j.failed
  BY <1>28, <1>29, <1>30, ScheduledKeeps
<1>32. Keeps(h, f) /\ Keeps(h, k)
  BY <1>20, <1>23, <1>25, <1>28, <1>31, KeepsTransitive
<1>33. PICK l : l = CASE s.st = "FIN_WAIT_1" /\ h.fin_ack_rcvd -> d
                      [] s.st = "CLOSING" /\ h.fin_ack_rcvd -> f
                      [] s.st = "TIME_WAIT" -> k
                      [] OTHER -> h
  OBVIOUS
<1>34. l \in {d, f, k, h}
  BY <1>33
<1>35. \/ l = d /\ s.st = "FIN_WAIT_1"
       \/ l = f /\ s.st = "CLOSING"
       \/ l = k /\ s.st = "TIME_WAIT"
       \/ l = h
  BY <1>33
<1>36. Keeps(h, l)
  BY <1>15, <1>18, <1>32, <1>34, KeepsItself
<1>37. l \in Block /\ l.st = s.st
  BY <1>14, <1>36 DEF Keeps
<1>38. PICK m : m = processTextAndFin(l, seg, s.snd_nxt)
  OBVIOUS
<1>39. Receives(l, seg, m)
  BY <1>37, <1>38, processTextAndFinReceives
<1>40. Keeps(h, m)
  BY <1>36, <1>39, KeepsTransitive DEF Receives
<1>41. /\ l.rcv_nxt = s.rcv_nxt /\ l.fin_rcvd = s.fin_rcvd
       /\ l.ev \in {g.ev, "RCV_ACK"}
       /\ s.st = "SYN_RCVD" => l.ev = "RCV_ACK"
       /\ "2MSL" \in l.timers => \/ "2MSL" \in s.timers
                                 \/ s.st = "CLOSING" /\ l.ev = "RCV_ACK"
                                 \/ s.st = "TIME_WAIT"
       /\ "2MSL" \notin s.timers \/ s.st # "CLOSING" => l.failed # "already scheduled"
  <2>1. CASE l = d /\ s.st = "FIN_WAIT_1"
    BY <1>8, <1>14, <1>18, <2>1
  <2>2. CASE l = f /\ s.st = "CLOSING"
    BY <1>8, <1>14, <1>20, <1>23, <2>2
  <2>3. CASE l = k /\ s.st = "TIME_WAIT"
    BY <1>8, <1>14, <1>25, <1>28, <1>31, <2>3
  <2>4. CASE l = h
    BY <1>8, <1>14, <2>4
  <2> QED
    BY <1>35, <2>1, <2>2, <2>3, <2>4
<1>42. Closes(s, seg, m)
  BY <1>8, <1>37, <1>39, <1>41, ZenonT(60) DEF Closes, Receives, Keeps
<1>43. PICK n : n = Event(h, "IGNORE")
  OBVIOUS
<1>44. /\ Keeps(h, n) /\ n.timers = h.timers /\ n.rcv_nxt = h.rcv_nxt /\ n.ev = "IGNORE"
       /\ n.fin_rcvd = h.fin_rcvd /\ n.failed = h.failed
  BY <1>15, <1>43, EventKeeps DEF EventName
<1>45. Closes(s, seg, n)
  BY <1>14, <1>44 DEF Closes
<1>46. PICK o : o = Tell(s, "CLOSED")
  OBVIOUS
<1>47. /\ Keeps(s, o) /\ o.timers = s.timers /\ o.rcv_nxt = s.rcv_nxt
       /\ o.fin_rcvd = s.fin_rcvd /\ o.failed = s.failed /\ o \in Block
  BY <1>46, TellKeeps DEF Indication, Keeps
<1>48. PICK p : p = Event(o, "RCV_ACK")
  OBVIOUS
<1>49. /\ Keeps(o, p) /\ p.timers = o.timers /\ p.rcv_nxt = o.rcv_nxt /\ p.ev = "RCV_ACK"
       /\ p.fin_rcvd = o.fin_rcvd /\ p.failed = o.failed
  BY <1>47, <1>48, EventKeeps DEF EventName
<1>50. Keeps(s, p)
  BY <1>47, <1>49, KeepsTransitive
<1>51. Closes(s, seg, p)
  BY <1>47, <1>49 DEF Closes
<1>52. s.st = "LAST_ACK" => Processes(s, seg, p)
  BY <1>7, <1>12, <1>16, <1>50
<1>53. PICK dropped \in BOOLEAN :
         dropped <=> s.st \notin {"LAST_ACK", "TIME_WAIT"} /\ seqLess(s.snd_max, seg.ackNo)
  OBVIOUS
<1>54. \/ processAck(s, seg) = n /\ dropped
       \/ processAck(s, seg) = p /\ s.st = "LAST_ACK"
       \/ processAck(s, seg) = m
  <2> DEFINE closed == s.st = "LAST_ACK" /\ s.send_fin /\ seg.ackNo = Plus(s.snd_fin_seq, 1)
  <2>1. processAck(s, seg) = CASE dropped -> n
                               [] closed -> p
                               [] OTHER -> m
    BY <1>1, <1>4, <1>7, <1>10, <1>12, <1>17, <1>19, <1>22, <1>24, <1>27, <1>30, <1>33, <1>38,
       <1>43, <1>46, <1>48, <1>53 DEF processAck
  <2>2. closed => ~ dropped
    BY <1>53
  <2> QED
    BY <2>1, <2>2
<1>55. s.st = "SYN_RCVD" => m.ev \in {"RCV_ACK", "RCV_FIN"}
  BY <1>37, <1>39, <1>41 DEF Receives
<1> QED
  BY <1>16, <1>40, <1>42, <1>44, <1>45, <1>51, <1>52, <1>53, <1>54, <1>55

-----------------------------------------------------------------------------
(* Handlers of segments. *)

LEMMA EmitsIgnores ==
  ASSUME NEW s, NEW t, Emits(s, t)
  PROVE  Ignores(s, t) /\ t.ev = s.ev
BY EmitsKeeps DEF Ignores

\* The application is told, and the state machine.
LEMMA TellEventIgnores ==
  ASSUME NEW s \in Block, NEW code \in Indication, NEW e \in EventName, NEW t,
         t = Event(Tell(s, code), e)
  PROVE  Ignores(s, t) /\ t.ev = e
<1>1. PICK a : a = Tell(s, code)
  OBVIOUS
<1>2. /\ Keeps(s, a) /\ a.timers = s.timers /\ a.rcv_nxt = s.rcv_nxt
      /\ a.fin_rcvd = s.fin_rcvd /\ a.failed = s.failed
  BY <1>1, TellKeeps
<1>3. a \in Block
  BY <1>2 DEF Keeps
<1>4. t = Event(a, e)
  BY <1>1
<1>5. /\ Keeps(a, t) /\ t.timers = a.timers /\ t.rcv_nxt = a.rcv_nxt
      /\ t.ev = e /\ t.fin_rcvd = a.fin_rcvd /\ t.failed = a.failed
  BY <1>3, <1>4, EventKeeps
<1>6. Keeps(s, t)
  BY <1>2, <1>5, KeepsTransitive
<1> QED
  BY <1>2, <1>5, <1>6 DEF Ignores

LEMMA processRstHandles ==
  ASSUME NEW s \in Block, NEW seg, NEW t, t = processRst(s)
  PROVE  Handles(s, seg, t)
<1>1. CASE s.st = "SYN_RCVD"
  <2>1. PICK q \in SeqNo : q = s.qEnd
    BY NumbersIn
  <2>2. PICK a : a = discardUpTo(s, q)
    OBVIOUS
  <2>3. PICK f \in Failure :
          /\ f = IF s.failed # "no" \/ (seqLE(s.qBegin, q) /\ seqLE(q, s.qEnd))
                 THEN s.failed ELSE "discardUpTo"
          /\ a = [s EXCEPT !.qBegin = q, !.failed = f]
    BY <2>2, discardUpToIs, Zenon
  <2>4. a \in Block
    <3>1. a = [s EXCEPT !.qBegin = q, !.failed = f]
      BY <2>3
    <3> QED
      BY <3>1, ZenonT(60) DEF Block
  <2>5. PICK b : b = Tell(a, "CONNECTION_REFUSED")
    OBVIOUS
  <2>6. /\ Keeps(a, b) /\ b.timers = a.timers /\ b.fin_rcvd = a.fin_rcvd /\ b.failed = a.failed
    BY <2>4, <2>5, TellKeeps DEF Indication
  <2>7. PICK c : c = IF s.active THEN b ELSE a
    OBVIOUS
  <2>8. /\ Keeps(a, c) /\ c.timers = a.timers /\ c.fin_rcvd = a.fin_rcvd /\ c.failed = a.failed
    BY <2>4, <2>6, <2>7, KeepsItself
  <2>9. c \in Block
    BY <2>8 DEF Keeps
  <2>10. t = Event(c, "RCV_RST")
    BY <1>1, <2>1, <2>2, <2>5, <2>7 DEF processRst
  <2>11. /\ Keeps(c, t) /\ t.timers = c.timers /\ t.fin_rcvd = c.fin_rcvd
         /\ t.failed = c.failed /\ t.ev = "RCV_RST"
    BY <2>9, <2>10, EventKeeps DEF EventName
  <2>12. /\ Keeps(a, t) /\ t.timers = a.timers /\ t.fin_rcvd = a.fin_rcvd /\ t.failed = a.failed
    BY <2>8, <2>11, KeepsTransitive
  <2>13. /\ a.st = s.st /\ a.active = s.active /\ a.iss = s.iss /\ a.timers = s.timers
         /\ a.send_fin = s.send_fin /\ a.snd_fin_seq = s.snd_fin_seq
         /\ a.fin_rcvd = s.fin_rcvd /\ a.failed = f /\ a.out = s.out
    BY <2>3 DEF Block
  <2>14. FinsSent(s) => FinsSent(a)
    BY <2>13 DEF FinsSent, EndsStream
  <2>15. /\ seqLE(s.qBegin, s.qEnd) /\ seqLE(s.qEnd, s.qEnd) => f = s.failed
         /\ f \in {s.failed, "discardUpTo"}
    BY <2>1, <2>3
  <2>16. Discards(s, t)
    BY <2>12, <2>13, <2>14, <2>15 DEF Discards, Keeps
  <2> QED
    BY <1>1, <2>11, <2>16 DEF Handles
<1>2. CASE s.st # "SYN_RCVD"
  <2>1. PICK code \in Indication : t = Event(Tell(s, code), "RCV_RST")
    <3>1. t \in {Event(Tell(s, "CONNECTION_RESET"), "RCV_RST"),
                 Event(Tell(s, "CLOSED"), "RCV_RST")}
      BY <1>2 DEF processRst
    <3>2. "CONNECTION_RESET" \in Indication /\ "CLOSED" \in Indication
      BY DEF Indication
    <3> QED
      BY <3>1, <3>2
  <2>2. "RCV_RST" \in EventName
    BY DEF EventName
  <2>3. Ignores(s, t) /\ t.ev = "RCV_RST"
    BY <2>1, <2>2, TellEventIgnores
  <2> QED
    BY <2>3 DEF Handles
<1> QED
  BY <1>1, <1>2

LEMMA processSegmentHandles ==
  ASSUME NEW s \in Block, NEW seg \in TCPSegment, s.ev = "IGNORE", s.failed = "no"
  PROVE  Handles(s, seg, processSegment1stThru8th(s, seg))
<1>1. PICK t : t = processSegment1stThru8th(s, seg)
  OBVIOUS
<1>2. PICK accepted \in BOOLEAN : accepted <=> isSegmentAcceptable(s, seg)
  OBVIOUS
<1>3. Ignores(s, s)
  BY KeepsItself DEF Ignores
<1>4. PICK a : a = sendAck(s)
  OBVIOUS
<1>5. Ignores(s, a) /\ a.ev = "IGNORE"
  BY <1>4, sendAckEmits, EmitsIgnores
<1>6. PICK b : b = Event(Tell(s, "CONNECTION_RESET"), "RCV_UNEXP_SYN")
  OBVIOUS
<1>7. Ignores(s, b) /\ b.ev = "RCV_UNEXP_SYN"
  <2>1. "CONNECTION_RESET" \in Indication /\ "RCV_UNEXP_SYN" \in EventName
    BY DEF Indication, EventName
  <2> QED
    BY <1>6, <2>1, TellEventIgnores
<1>8. PICK c : c = sendRst(s, seg.ackNo)
  OBVIOUS
<1>9. Ignores(s, c) /\ c.ev = "IGNORE"
  BY <1>8, Segments, sendRstEmits, EmitsIgnores
<1>10. PICK d : d = processAck(s, seg)
  OBVIOUS
<1>11. /\ Processes(s, seg, d) /\ Closes(s, seg, d)
       /\ s.st = "SYN_RCVD" /\ ~ seqLess(s.snd_max, seg.ackNo) => d.ev \in {"RCV_ACK", "RCV_FIN"}
  BY <1>10, processAckProcesses
<1>12. PICK k : k = processRst(s)
  OBVIOUS
<1>13. Handles(s, seg, k)
  BY <1>12, processRstHandles
<1>14. PICK ours \in BOOLEAN : ours <=> seqLE(s.snd_una, seg.ackNo) /\ seqLE(seg.ackNo, s.snd_nxt)
  OBVIOUS
<1>15. \/ t \in {s, a, b, c}
       \/ t = k
       \/ t = d /\ accepted /\ (s.st = "SYN_RCVD" => ours)
  <2>1. CASE accepted
    BY <1>1, <1>2, <1>4, <1>6, <1>8, <1>10, <1>12, <1>14, <2>1 DEF processSegment1stThru8th
  <2>2. CASE ~ accepted
    BY <1>1, <1>2, <1>4, <1>6, <1>8, <1>10, <1>12, <1>14, <2>2 DEF processSegment1stThru8th
  <2> QED
    BY <2>1, <2>2
<1>16. CASE t \in {s, a, b, c}
  BY <1>1, <1>3, <1>5, <1>7, <1>9, <1>16 DEF Handles
<1>17. CASE t = d /\ accepted /\ (s.st = "SYN_RCVD" => ours)
  BY <1>1, <1>2, <1>11, <1>14, <1>17 DEF Handles
<1> QED
  BY <1>1, <1>13, <1>15, <1>16, <1>17

-----------------------------------------------------------------------------
(* The handshake. *)

LEMMA scheduleTimeoutSchedules ==
  ASSUME NEW s \in Block, NEW n \in TimerName, NEW t, t = scheduleTimeout(s, n)
  PROVE  Schedules(s, n, t)
<1>1. PICK f : /\ t \in Block /\ t = [s EXCEPT !.timers = s.timers \cup {n}, !.failed = f]
               /\ f = IF n \notin s.timers \/ s.failed # "no" THEN s.failed
                      ELSE "already scheduled"
  BY Scheduled
<1>2. /\ t.timers = s.timers \cup {n} /\ t.rcv_nxt = s.rcv_nxt /\ t.ev = s.ev
      /\ t.fin_rcvd = s.fin_rcvd /\ t.failed = f
      /\ t.st = s.st /\ t.active = s.active /\ t.iss = s.iss
      /\ t.snd_una = s.snd_una /\ t.snd_nxt = s.snd_nxt /\ t.snd_max = s.snd_max
      /\ t.qBegin = s.qBegin /\ t.qEnd = s.qEnd /\ t.out = s.out
      /\ t.send_fin = s.send_fin /\ t.snd_fin_seq = s.snd_fin_seq
  BY <1>1, ZenonT(60) DEF Block
<1> QED
  BY <1>1, <1>2 DEF Schedules

LEMMA startSynRexmitTimerSchedules ==
  ASSUME NEW s \in Block, NEW t, t = startSynRexmitTimer(s)
  PROVE  Schedules(s, "SYN_REXMIT", t) /\ t.failed = s.failed
<1>1. PICK a : a = cancelEvent([s EXCEPT !.syn_rexmit_count = 0], {"SYN_REXMIT"})
  OBVIOUS
<1>2. a = [s EXCEPT !.syn_rexmit_count = 0, !.timers = s.timers \ {"SYN_REXMIT"}]
  BY <1>1 DEF cancelEvent, Block
<1>3. 0 \in 0 .. MaxSynRexmit /\ s.timers \ {"SYN_REXMIT"} \in SUBSET TimerName
  BY ParamAssumption DEF Block
<1>4. a \in Block
  BY <1>2, <1>3, ZenonT(60) DEF Block
<1>5. /\ a.timers = s.timers \ {"SYN_REXMIT"} /\ a.rcv_nxt = s.rcv_nxt /\ a.ev = s.ev
      /\ a.fin_rcvd = s.fin_rcvd /\ a.failed = s.failed
      /\ a.st = s.st /\ a.active = s.active /\ a.iss = s.iss
      /\ a.snd_una = s.snd_una /\ a.snd_nxt = s.snd_nxt /\ a.snd_max = s.snd_max
      /\ a.qBegin = s.qBegin /\ a.qEnd = s.qEnd /\ a.out = s.out
      /\ a.send_fin = s.send_fin /\ a.snd_fin_seq = s.snd_fin_seq
  BY <1>2 DEF Block
<1>6. t = scheduleTimeout(a, "SYN_REXMIT") /\ "SYN_REXMIT" \in TimerName
  BY <1>1 DEF startSynRexmitTimer, TimerName
<1>7. Schedules(a, "SYN_REXMIT", t)
  BY <1>4, <1>6, scheduleTimeoutSchedules
<1> QED
  BY <1>5, <1>7 DEF Schedules

LEMMA sendSynIs ==
  ASSUME NEW s \in Block
  PROVE  SynSent(s, sendSyn(s)) /\ SynSent(s, sendSynAck(s))
<1>1. PICK n \in SeqNo : n = Plus(s.iss, 1)
  BY NumbersIn, PlusType
<1>2. PICK a : a = [s EXCEPT !.snd_nxt = n, !.snd_max = n]
  OBVIOUS
<1>3. a \in Block
  BY <1>2, ZenonT(60) DEF Block
<1>4. SynSent(s, a)
  <2>1. /\ a.timers = s.timers /\ a.rcv_nxt = s.rcv_nxt /\ a.ev = s.ev
        /\ a.fin_rcvd = s.fin_rcvd /\ a.failed = s.failed
        /\ a.st = s.st /\ a.active = s.active /\ a.iss = s.iss
        /\ a.snd_una = s.snd_una /\ a.snd_nxt = n /\ a.snd_max = n
        /\ a.qBegin = s.qBegin /\ a.qEnd = s.qEnd /\ a.out = s.out
        /\ a.send_fin = s.send_fin /\ a.snd_fin_seq = s.snd_fin_seq
    BY <1>2 DEF Block
  <2>2. Sends(s, a)
    BY <1>3, <2>1 DEF Sends, FinsSent, EndsStream
  <2> QED
    BY <1>1, <2>1, <2>2 DEF SynSent
<1>5. PICK x : x = [NoFlags EXCEPT !.syn = TRUE, !.seq = s.iss]
  OBVIOUS
<1>6. x \in TCPSegment /\ ~ x.fin
  BY <1>5, NumbersIn, Segments DEF NoFlags, TCPSegment
<1>7. PICK y : y = [NoFlags EXCEPT !.syn = TRUE, !.ack = TRUE, !.seq = s.iss, !.ackNo = s.rcv_nxt]
  OBVIOUS
<1>8. y \in TCPSegment /\ ~ y.fin
  BY <1>7, NumbersIn, Segments DEF NoFlags, TCPSegment
<1>9. ASSUME NEW z \in TCPSegment, ~ z.fin, NEW t, t = Emit(a, z)
      PROVE  SynSent(s, t)
  <2>1. Emits(a, t)
    BY <1>3, <1>9, Emitted
  <2>2. Sends(s, t)
    BY <1>4, <2>1, SendsTransitive, Zenon DEF SynSent, Emits
  <2> QED
    BY <1>4, <2>1, <2>2 DEF SynSent, Emits
<1>10. sendSyn(s) = Emit(a, x) /\ sendSynAck(s) = Emit(a, y)
  BY <1>1, <1>2, <1>5, <1>7 DEF sendSyn, sendSynAck
<1> QED
  BY <1>6, <1>8, <1>9, <1>10

LEMMA selectInitialSeqNumSelects ==
  ASSUME NEW s \in Block, NEW n \in SeqNo
  PROVE  Selects(s, n, selectInitialSeqNum(s, n))
<1>1. PICK m \in SeqNo : m = Plus(n, 1)
  BY PlusType
<1>2. PICK t : t = [s EXCEPT !.iss = n, !.snd_una = n, !.snd_nxt = n, !.snd_max = n,
                             !.qBegin = m, !.qEnd = m]
  OBVIOUS
<1>3. t \in Block
  BY <1>2, ZenonT(60) DEF Block
<1>4. /\ t.st = s.st /\ t.iss = n /\ t.snd_una = n /\ t.qBegin = m /\ t.qEnd = m
      /\ t.send_fin = s.send_fin /\ t.snd_fin_seq = s.snd_fin_seq /\ t.fin_rcvd = s.fin_rcvd
      /\ t.timers = s.timers /\ t.failed = s.failed /\ t.out = s.out /\ t.ev = s.ev
  BY <1>2 DEF Block
<1>5. selectInitialSeqNum(s, n) = t
  BY <1>1, <1>2 DEF selectInitialSeqNum
<1> QED
  BY <1>1, <1>3, <1>4, <1>5 DEF Selects

LEMMA ActiveBegins ==
  ASSUME NEW s \in Block, NEW n \in SeqNo
  PROVE  Begins(s, n, Active(s, n))
<1>1. PICK a : a = [s EXCEPT !.active = TRUE]
  OBVIOUS
<1>2. a \in Block
  BY <1>1, ZenonT(60) DEF Block
<1>3. /\ a.st = s.st /\ a.send_fin = s.send_fin /\ a.snd_fin_seq = s.snd_fin_seq
      /\ a.fin_rcvd = s.fin_rcvd /\ a.timers = s.timers /\ a.failed = s.failed /\ a.out = s.out
  BY <1>1 DEF Block
<1>4. PICK b : b = selectInitialSeqNum(a, n)
  OBVIOUS
<1>5. Selects(a, n, b)
  BY <1>2, <1>4, selectInitialSeqNumSelects
<1>6. b \in Block
  BY <1>5 DEF Selects
<1>7. PICK c : c = sendSyn(b)
  OBVIOUS
<1>8. SynSent(b, c)
  BY <1>6, <1>7, sendSynIs
<1>9. c \in Block
  BY <1>8 DEF SynSent, Sends
<1>10. PICK d : d = startSynRexmitTimer(c)
  OBVIOUS
<1>11. Schedules(c, "SYN_REXMIT", d) /\ d.failed = c.failed
  BY <1>9, <1>10, startSynRexmitTimerSchedules
<1>12. d \in Block /\ "CONN_ESTAB" \in TimerName
  BY <1>11 DEF Schedules, TimerName
<1>13. PICK e : e = scheduleTimeout(d, "CONN_ESTAB")
  OBVIOUS
<1>14. Schedules(d, "CONN_ESTAB", e)
  BY <1>12, <1>13, scheduleTimeoutSchedules
<1>15. FinsSent(s) => FinsSent(b)
  BY <1>3, <1>5 DEF Selects, FinsSent, EndsStream
<1>16. FinsSent(c) => FinsSent(e)
  BY <1>11, <1>14 DEF Schedules, FinsSent, EndsStream
<1>17. FinsSent(s) => FinsSent(e)
  BY <1>8, <1>15, <1>16 DEF SynSent, Sends
<1>18. /\ e.timers = s.timers \cup {"CONN_ESTAB", "SYN_REXMIT"}
       /\ e.failed \in {s.failed, "already scheduled"}
       /\ "CONN_ESTAB" \notin s.timers => e.failed = s.failed
  BY <1>3, <1>5, <1>8, <1>11, <1>14, ZenonT(60) DEF Selects, SynSent, Schedules
<1>19. /\ e \in Block /\ e.st = s.st /\ e.iss = n /\ e.snd_una = n
       /\ e.snd_nxt = Plus(n, 1) /\ e.snd_max = Plus(n, 1)
       /\ e.qBegin = Plus(n, 1) /\ e.qEnd = Plus(n, 1)
       /\ e.send_fin = s.send_fin /\ e.snd_fin_seq = s.snd_fin_seq /\ e.fin_rcvd = s.fin_rcvd
  <2>1. /\ c.st = b.st /\ c.iss = b.iss /\ c.snd_una = b.snd_una
        /\ c.snd_nxt = Plus(b.iss, 1) /\ c.snd_max = Plus(b.iss, 1)
        /\ c.qBegin = b.qBegin /\ c.qEnd = b.qEnd
        /\ c.send_fin = b.send_fin /\ c.snd_fin_seq = b.snd_fin_seq /\ c.fin_rcvd = b.fin_rcvd
    BY <1>8 DEF SynSent, Sends
  <2>2. /\ e \in Block /\ e.st = c.st /\ e.iss = c.iss /\ e.snd_una = c.snd_una
        /\ e.snd_nxt = c.snd_nxt /\ e.snd_max = c.snd_max
        /\ e.qBegin = c.qBegin /\ e.qEnd = c.qEnd
        /\ e.send_fin = c.send_fin /\ e.snd_fin_seq = c.snd_fin_seq /\ e.fin_rcvd = c.fin_rcvd
    BY <1>11, <1>14 DEF Schedules
  <2>3. /\ b.st = s.st /\ b.iss = n /\ b.snd_una = n
        /\ b.qBegin = Plus(n, 1) /\ b.qEnd = Plus(n, 1)
        /\ b.send_fin = s.send_fin /\ b.snd_fin_seq = s.snd_fin_seq /\ b.fin_rcvd = s.fin_rcvd
    BY <1>3, <1>5 DEF Selects
  <2> QED
    BY <2>1, <2>2, <2>3
<1>20. Active(s, n) = e
  BY <1>1, <1>4, <1>7, <1>10, <1>13 DEF Active
<1> QED
  BY <1>17, <1>18, <1>19, <1>20 DEF Begins

\* What is received with a SYN: where the peer's numbers begin.
LEMMA ReceivedSyn ==
  ASSUME NEW s \in Block, NEW n \in SeqNo, NEW i \in SeqNo
  PROVE  /\ Keeps(s, [s EXCEPT !.rcv_nxt = n, !.irs = i])
         /\ [s EXCEPT !.rcv_nxt = n, !.irs = i].timers = s.timers
         /\ [s EXCEPT !.rcv_nxt = n, !.irs = i].failed = s.failed
         /\ [s EXCEPT !.rcv_nxt = n, !.irs = i].fin_rcvd = s.fin_rcvd
         /\ [s EXCEPT !.rcv_nxt = n, !.irs = i].ev = s.ev
<1>1. PICK t : t = [s EXCEPT !.rcv_nxt = n, !.irs = i]
  OBVIOUS
<1>2. t \in Block
  BY <1>1, ZenonT(60) DEF Block
<1>3. /\ t.timers = s.timers /\ t.ev = s.ev
      /\ t.fin_rcvd = s.fin_rcvd /\ t.failed = s.failed
      /\ t.st = s.st /\ t.active = s.active /\ t.iss = s.iss
      /\ t.snd_una = s.snd_una /\ t.snd_nxt = s.snd_nxt /\ t.snd_max = s.snd_max
      /\ t.qBegin = s.qBegin /\ t.qEnd = s.qEnd /\ t.out = s.out
      /\ t.send_fin = s.send_fin /\ t.snd_fin_seq = s.snd_fin_seq
  BY <1>1 DEF Block
<1>4. Keeps(s, t)
  BY <1>2, <1>3 DEF Keeps, FinsSent, EndsStream
<1> QED
  BY <1>1, <1>3, <1>4

LEMMA processSegmentInListenBegins ==
  ASSUME NEW s \in Block, NEW seg \in TCPSegment, NEW n \in SeqNo, s.ev = "IGNORE"
  PROVE  LET t == processSegmentInListen(s, seg, n)
         IN  \/ Ignores(s, t) /\ t.ev = "IGNORE"
             \/ Begins(s, n, t) /\ t.failed = s.failed /\ t.ev = "RCV_SYN"
<1>1. PICK m \in SeqNo : m = Plus(seg.seq, 1)
  BY Segments, PlusType
<1>2. PICK i \in SeqNo : i = seg.seq
  BY Segments
<1>3. PICK g : g = [s EXCEPT !.rcv_nxt = m, !.irs = i]
  OBVIOUS
<1>4. Keeps(s, g) /\ g.timers = s.timers /\ g.failed = s.failed /\ g.fin_rcvd = s.fin_rcvd
  BY <1>3, ReceivedSyn
<1>5. g \in Block
  BY <1>4 DEF Keeps
<1>6. PICK a : a = [g EXCEPT !.remote = TRUE]
  OBVIOUS
<1>7. a \in Block
  BY <1>5, <1>6, ZenonT(60) DEF Block
<1>8. /\ a.st = s.st /\ a.send_fin = s.send_fin /\ a.snd_fin_seq = s.snd_fin_seq
      /\ a.fin_rcvd = s.fin_rcvd /\ a.timers = s.timers /\ a.failed = s.failed
      /\ FinsSent(s) => FinsSent(a)
  <2>1. /\ a.st = g.st /\ a.send_fin = g.send_fin /\ a.snd_fin_seq = g.snd_fin_seq
        /\ a.fin_rcvd = g.fin_rcvd /\ a.timers = g.timers /\ a.failed = g.failed
        /\ a.out = g.out
    BY <1>5, <1>6 DEF Block
  <2>2. FinsSent(g) => FinsSent(a)
    BY <2>1 DEF FinsSent, EndsStream
  <2> QED
    BY <1>4, <2>1, <2>2 DEF Keeps
<1>9. PICK b : b = selectInitialSeqNum(a, n)
  OBVIOUS
<1>10. Selects(a, n, b)
  BY <1>7, <1>9, selectInitialSeqNumSelects
<1>11. b \in Block
  BY <1>10 DEF Selects
<1>12. PICK w : w = updateWindow(b, i, n)
  OBVIOUS
<1>13. Emits(b, w)
  BY <1>11, <1>12, updateWindowIs
<1>14. w \in Block
  BY <1>13 DEF Emits, Sends
<1>15. PICK c : c = sendSynAck(w)
  OBVIOUS
<1>16. SynSent(w, c)
  BY <1>14, <1>15, sendSynIs
<1>17. c \in Block
  BY <1>16 DEF SynSent, Sends
<1>18. PICK d : d = startSynRexmitTimer(c)
  OBVIOUS
<1>19. Schedules(c, "SYN_REXMIT", d) /\ d.failed = c.failed
  BY <1>17, <1>18, startSynRexmitTimerSchedules
<1>20. d \in Block /\ "CONN_ESTAB" \in TimerName
  BY <1>19 DEF Schedules, TimerName
<1>21. PICK e : e = scheduleTimeout(d, "CONN_ESTAB")
  OBVIOUS
<1>22. Schedules(d, "CONN_ESTAB", e)
  BY <1>20, <1>21, scheduleTimeoutSchedules
<1>23. PICK f : f = IF "CONN_ESTAB" \in d.timers THEN d ELSE e
  OBVIOUS
<1>24. f \in Block
  BY <1>20, <1>22, <1>23 DEF Schedules
<1>25. PICK h : h = Event(f, "RCV_SYN")
  OBVIOUS
<1>26. Ignores(f, h) /\ h.ev = "RCV_SYN"
  BY <1>24, <1>25, EventKeeps DEF Ignores, EventName
<1>27. /\ f.st = d.st /\ f.iss = d.iss /\ f.snd_una = d.snd_una /\ f.snd_nxt = d.snd_nxt
       /\ f.snd_max = d.snd_max /\ f.qBegin = d.qBegin /\ f.qEnd = d.qEnd
       /\ f.send_fin = d.send_fin /\ f.snd_fin_seq = d.snd_fin_seq /\ f.fin_rcvd = d.fin_rcvd
       /\ f.failed = d.failed /\ f.out = d.out
       /\ f.timers = d.timers \cup {"CONN_ESTAB"}
  BY <1>22, <1>23 DEF Schedules
<1>28. Begins(s, n, h)
  <2>1. /\ w.st = a.st /\ w.iss = n /\ w.snd_una = n /\ w.qBegin = Plus(n, 1)
        /\ w.qEnd = Plus(n, 1) /\ w.send_fin = a.send_fin /\ w.snd_fin_seq = a.snd_fin_seq
        /\ w.fin_rcvd = a.fin_rcvd /\ w.timers = a.timers /\ w.failed = a.failed
    BY <1>10, <1>13 DEF Selects, Emits, Sends
  <2>2. /\ c.st = w.st /\ c.iss = w.iss /\ c.snd_una = w.snd_una
        /\ c.snd_nxt = Plus(w.iss, 1) /\ c.snd_max = Plus(w.iss, 1)
        /\ c.qBegin = w.qBegin /\ c.qEnd = w.qEnd /\ c.timers = w.timers /\ c.failed = w.failed
        /\ c.send_fin = w.send_fin /\ c.snd_fin_seq = w.snd_fin_seq /\ c.fin_rcvd = w.fin_rcvd
    BY <1>16 DEF SynSent, Sends
  <2>3. /\ d.st = c.st /\ d.iss = c.iss /\ d.snd_una = c.snd_una
        /\ d.snd_nxt = c.snd_nxt /\ d.snd_max = c.snd_max /\ d.qBegin = c.qBegin
        /\ d.qEnd = c.qEnd /\ d.timers = c.timers \cup {"SYN_REXMIT"} /\ d.failed = c.failed
        /\ d.send_fin = c.send_fin /\ d.snd_fin_seq = c.snd_fin_seq /\ d.fin_rcvd = c.fin_rcvd
    BY <1>19 DEF Schedules
  <2>4. FinsSent(a) => FinsSent(b)
    BY <1>10 DEF Selects, FinsSent, EndsStream
  <2>5. FinsSent(b) => FinsSent(c)
    BY <1>13, <1>16 DEF Emits, SynSent, Sends
  <2>6. FinsSent(c) => FinsSent(f)
    BY <1>19, <1>27 DEF Schedules, FinsSent, EndsStream
  <2>7. FinsSent(s) => FinsSent(h)
    BY <1>8, <1>26, <2>4, <2>5, <2>6 DEF Ignores, Keeps
  <2>8. /\ h \in Block /\ h.st = f.st /\ h.iss = f.iss /\ h.snd_una = f.snd_una
        /\ h.snd_nxt = f.snd_nxt /\ h.snd_max = f.snd_max /\ h.qBegin = f.qBegin
        /\ h.qEnd = f.qEnd /\ h.timers = f.timers /\ h.failed = f.failed
        /\ h.send_fin = f.send_fin /\ h.snd_fin_seq = f.snd_fin_seq /\ h.fin_rcvd = f.fin_rcvd
    BY <1>26 DEF Ignores, Keeps
  <2>9. /\ h.st = s.st /\ h.iss = n /\ h.snd_una = n
        /\ h.snd_nxt = Plus(n, 1) /\ h.snd_max = Plus(n, 1) /\ h.qBegin = Plus(n, 1)
        /\ h.qEnd = Plus(n, 1) /\ h.failed = s.failed
        /\ h.send_fin = s.send_fin /\ h.snd_fin_seq = s.snd_fin_seq /\ h.fin_rcvd = s.fin_rcvd
    BY <1>8, <1>27, <2>1, <2>2, <2>3, <2>8
  <2>10. h.timers = s.timers \cup {"CONN_ESTAB", "SYN_REXMIT"}
    BY <1>8, <1>27, <2>1, <2>2, <2>3, <2>8
  <2> QED
    BY <2>7, <2>8, <2>9, <2>10 DEF Begins
<1>29. h.failed = s.failed
  BY <1>8, <1>10, <1>13, <1>16, <1>19, <1>26, <1>27 DEF Selects, Emits, SynSent, Ignores
<1>30. PICK x : x = sendRst(s, seg.ackNo)
  OBVIOUS
<1>31. Ignores(s, x) /\ x.ev = "IGNORE"
  BY <1>30, Segments, sendRstEmits, EmitsIgnores
<1>32. Ignores(s, s)
  BY KeepsItself DEF Ignores
<1>33. processSegmentInListen(s, seg, n) \in {s, x, h}
  <2>1. a = [s EXCEPT !.rcv_nxt = m, !.irs = i, !.remote = TRUE]
    BY <1>3, <1>6 DEF Block
  <2> QED
    BY <1>1, <1>2, <1>9, <1>12, <1>15, <1>18, <1>21, <1>23, <1>25, <1>30, <2>1
       DEF processSegmentInListen
<1> QED
  BY <1>26, <1>28, <1>29, <1>31, <1>32, <1>33

LEMMA sendSynRepeats ==
  ASSUME NEW s, NEW c, NEW t, SynSent(s, c), Schedules(c, "SYN_REXMIT", t), t.failed = c.failed
  PROVE  Repeats(s, t) /\ t.ev = s.ev
<1>1. /\ c.st = s.st /\ c.iss = s.iss /\ c.snd_una = s.snd_una /\ c.ev = s.ev
      /\ c.snd_nxt = Plus(s.iss, 1) /\ c.snd_max = Plus(s.iss, 1)
      /\ c.qBegin = s.qBegin /\ c.qEnd = s.qEnd /\ c.timers = s.timers /\ c.failed = s.failed
      /\ c.send_fin = s.send_fin /\ c.snd_fin_seq = s.snd_fin_seq /\ c.fin_rcvd = s.fin_rcvd
      /\ FinsSent(s) => FinsSent(c)
  BY DEF SynSent, Sends
<1>2. /\ t.st = c.st /\ t.iss = c.iss /\ t.snd_una = c.snd_una /\ t.ev = c.ev
      /\ t.snd_nxt = c.snd_nxt /\ t.snd_max = c.snd_max /\ t.qBegin = c.qBegin
      /\ t.qEnd = c.qEnd /\ t.timers = c.timers \cup {"SYN_REXMIT"} /\ t.out = c.out
      /\ t.send_fin = c.send_fin /\ t.snd_fin_seq = c.snd_fin_seq /\ t.fin_rcvd = c.fin_rcvd
      /\ t \in Block
  BY DEF Schedules
<1>3. FinsSent(c) => FinsSent(t)
  BY <1>2 DEF FinsSent, EndsStream
<1> QED
  BY <1>1, <1>2, <1>3 DEF Repeats

LEMMA processSegmentInSynSentIs ==
  ASSUME NEW s \in Block, NEW seg \in TCPSegment, s.ev = "IGNORE"
  PROVE  LET t == processSegmentInSynSent(s, seg)
         IN  \/ Ignores(s, t) /\ t.ev \in {"IGNORE", "RCV_RST"}
             \/ \E g : Ignores(g, t) /\ Repeats(s, g) /\ t.ev = "RCV_SYN"
             \/ \E r, u : /\ Connects(s, seg.ackNo, r) /\ Pushes(r, u) /\ Ignores(u, t)
                          /\ t.ev = "RCV_SYN_ACK" /\ seg.ack /\ ~ BadAck(s, seg)
<1>1. PICK m \in SeqNo : m = Plus(seg.seq, 1)
  BY Segments, PlusType
<1>2. PICK i \in SeqNo : i = seg.seq
  BY Segments
<1>3. PICK n \in SeqNo : n = seg.ackNo
  BY Segments
<1>4. PICK g : g = [s EXCEPT !.rcv_nxt = m, !.irs = i]
  OBVIOUS
<1>5. /\ Keeps(s, g) /\ g.timers = s.timers /\ g.failed = s.failed /\ g.fin_rcvd = s.fin_rcvd
      /\ g.ev = s.ev
  BY <1>4, ReceivedSyn, ZenonT(60)
<1>6. g \in Block
  BY <1>5 DEF Keeps
<1>7. PICK a : a = [g EXCEPT !.snd_una = n]
  OBVIOUS
<1>8. a \in Block
  BY <1>6, <1>7, ZenonT(60) DEF Block
<1>9. /\ a.st = g.st /\ a.iss = g.iss /\ a.snd_max = g.snd_max /\ a.qEnd = g.qEnd
      /\ a.qBegin = g.qBegin /\ a.send_fin = g.send_fin /\ a.snd_fin_seq = g.snd_fin_seq
      /\ a.fin_rcvd = g.fin_rcvd /\ a.timers = g.timers /\ a.snd_una = n
      /\ a.failed = g.failed /\ a.out = g.out
  BY <1>6, <1>7 DEF Block
<1>10. PICK d : d = discardUpTo(a, n)
  OBVIOUS
<1>11. PICK f \in Failure :
         /\ f = IF a.failed # "no" \/ (seqLE(a.qBegin, n) /\ seqLE(n, a.qEnd))
                THEN a.failed ELSE "discardUpTo"
         /\ d = [a EXCEPT !.qBegin = n, !.failed = f]
  BY <1>8, <1>10, discardUpToIs, Zenon
<1>12. d \in Block
  <2>1. d = [a EXCEPT !.qBegin = n, !.failed = f]
    BY <1>11
  <2> QED
    BY <1>8, <2>1, ZenonT(60) DEF Block
<1>13. Connects(s, n, d)
  <2>1. /\ d.st = a.st /\ d.iss = a.iss /\ d.snd_max = a.snd_max /\ d.qEnd = a.qEnd
        /\ d.send_fin = a.send_fin /\ d.snd_fin_seq = a.snd_fin_seq
        /\ d.fin_rcvd = a.fin_rcvd /\ d.timers = a.timers /\ d.snd_una = a.snd_una
        /\ d.qBegin = n /\ d.failed = f /\ d.out = a.out
    BY <1>8, <1>11 DEF Block
  <2>2. FinsSent(g) => FinsSent(d)
    BY <1>9, <2>1 DEF FinsSent, EndsStream
  <2>3. /\ g.st = s.st /\ g.iss = s.iss /\ g.snd_max = s.snd_max /\ g.qEnd = s.qEnd
        /\ g.qBegin = s.qBegin /\ g.send_fin = s.send_fin /\ g.snd_fin_seq = s.snd_fin_seq
        /\ FinsSent(s) => FinsSent(g)
    BY <1>5 DEF Keeps
  <2>4. f = IF s.failed # "no" \/ (seqLE(s.qBegin, n) /\ seqLE(n, s.qEnd))
            THEN s.failed ELSE "discardUpTo"
    BY <1>5, <1>9, <1>11, <2>3
  <2> QED
    BY <1>5, <1>9, <1>12, <2>1, <2>2, <2>3, <2>4 DEF Connects
<1>14. PICK w : w = updateWindow(d, i, n)
  OBVIOUS
<1>15. Emits(d, w)
  BY <1>12, <1>14, updateWindowIs
<1>16. Connects(s, n, w)
  BY <1>13, <1>15 DEF Connects, Emits, Sends
<1>17. w \in Block
  BY <1>16 DEF Connects
<1>18. PICK u : u = established(w, TRUE)
  OBVIOUS
<1>19. Pushes(w, u)
  BY <1>17, <1>18, establishedPushes
<1>20. u \in Block
  BY <1>19 DEF Pushes, Sends
<1>21. PICK v : v = Event(u, "RCV_SYN_ACK")
  OBVIOUS
<1>22. Ignores(u, v) /\ v.ev = "RCV_SYN_ACK"
  BY <1>20, <1>21, EventKeeps DEF Ignores, EventName
<1>23. PICK c : c = sendSynAck(g)
  OBVIOUS
<1>24. SynSent(g, c)
  BY <1>6, <1>23, sendSynIs
<1>25. c \in Block
  BY <1>24 DEF SynSent, Sends
<1>26. PICK e : e = startSynRexmitTimer(c)
  OBVIOUS
<1>27. Schedules(c, "SYN_REXMIT", e) /\ e.failed = c.failed
  BY <1>25, <1>26, startSynRexmitTimerSchedules
<1>28. Repeats(g, e)
  BY <1>24, <1>27, sendSynRepeats
<1>29. Repeats(s, e)
  BY <1>5, <1>28 DEF Repeats, Keeps
<1>30. e \in Block
  BY <1>28 DEF Repeats
<1>31. PICK h : h = Event(e, "RCV_SYN")
  OBVIOUS
<1>32. Ignores(e, h) /\ h.ev = "RCV_SYN"
  BY <1>30, <1>31, EventKeeps DEF Ignores, EventName
<1>33. PICK x : x = sendRst(s, n)
  OBVIOUS
<1>34. Ignores(s, x) /\ x.ev = "IGNORE"
  BY <1>33, sendRstEmits, EmitsIgnores
<1>35. PICK y : y = Event(Tell(s, "CONNECTION_RESET"), "RCV_RST")
  OBVIOUS
<1>36. Ignores(s, y) /\ y.ev = "RCV_RST"
  <2>1. "CONNECTION_RESET" \in Indication /\ "RCV_RST" \in EventName
    BY DEF Indication, EventName
  <2> QED
    BY <1>35, <2>1, TellEventIgnores
<1>37. Ignores(s, s)
  BY KeepsItself DEF Ignores
<1>38. PICK bad \in BOOLEAN : bad <=> BadAck(s, seg)
  OBVIOUS
<1>39. PICK z : z = processSegmentInSynSent(s, seg)
  OBVIOUS
<1>40. z \in {s, x, y, h} \/ (z = v /\ seg.ack /\ ~ bad)
  <2>1. [g EXCEPT !.snd_una = seg.ackNo] = a
    BY <1>3, <1>7
  <2>2. z = CASE bad -> x
              [] ~ bad /\ seg.rst -> IF seg.ack THEN y ELSE s
              [] ~ bad /\ ~ seg.rst /\ seg.syn -> IF seg.ack THEN v ELSE h
              [] OTHER -> s
    BY <1>1, <1>2, <1>3, <1>4, <1>7, <1>10, <1>14, <1>18, <1>21, <1>23, <1>26, <1>31, <1>33,
       <1>35, <1>38, <1>39 DEF processSegmentInSynSent, BadAck
  <2> QED
    BY <2>2
<1>41. CASE z \in {s, x, y, h}
  BY <1>29, <1>32, <1>34, <1>36, <1>37, <1>39, <1>41
<1>42. CASE z = v /\ seg.ack /\ ~ bad
  BY <1>3, <1>16, <1>19, <1>22, <1>38, <1>39, <1>42
<1> QED
  BY <1>40, <1>41, <1>42

-----------------------------------------------------------------------------
(* Timers. *)

LEMMA cancelEventCancels ==
  ASSUME NEW s \in Block, NEW ts, NEW t, t = cancelEvent(s, ts)
  PROVE  Cancels(s, ts, t)
<1>1. t = [s EXCEPT !.timers = s.timers \ ts]
  BY DEF cancelEvent
<1>2. t \in Block
  BY <1>1, SMTT(40) DEF Block
<1>3. /\ t.st = s.st /\ t.active = s.active /\ t.iss = s.iss
      /\ t.snd_una = s.snd_una /\ t.snd_nxt = s.snd_nxt /\ t.snd_max = s.snd_max
      /\ t.qBegin = s.qBegin /\ t.qEnd = s.qEnd /\ t.out = s.out
      /\ t.send_fin = s.send_fin /\ t.snd_fin_seq = s.snd_fin_seq
      /\ t.rcv_nxt = s.rcv_nxt /\ t.fin_rcvd = s.fin_rcvd /\ t.ev = s.ev
      /\ t.timers = s.timers \ ts
      /\ t.failed = s.failed
  BY <1>1 DEF Block
<1> QED
  BY <1>2, <1>3 DEF Cancels

LEMMA processRexmitTimerRetransmits ==
  ASSUME NEW s \in Block, "REXMIT" \notin s.timers
  PROVE  Retransmits(s, processRexmitTimer(s))
<1>1. PICK a : a = Event(Tell(s, "TIMED_OUT"), "ABORT")
  OBVIOUS
<1>2. Ignores(s, a) /\ a.ev = "ABORT"
  <2>1. "TIMED_OUT" \in Indication /\ "ABORT" \in EventName
    BY DEF Indication, EventName
  <2> QED
    BY <1>1, <2>1, TellEventIgnores
<1>3. CASE s.rexmit_count >= MaxRexmit
  <2>1. processRexmitTimer(s) = a
    BY <1>1, <1>3 DEF processRexmitTimer
  <2> QED
    BY <1>2, <2>1 DEF Retransmits
<1>4. CASE ~ s.rexmit_count >= MaxRexmit
  <2>1. PICK k \in 0 .. MaxRexmit : k = s.rexmit_count + 1
    <3>1. s.rexmit_count \in 0 .. MaxRexmit
      BY DEF Block
    <3> QED
      BY <1>4, <3>1, ParamAssumption
  <2>2. PICK b : b = [s EXCEPT !.rexmit_count = k]
    OBVIOUS
  <2>3. Emits(s, b)
    BY <2>2, Adjusted
  <2>4. b \in Block /\ b.timers = s.timers /\ Sends(s, b) /\ b.snd_max = s.snd_max
    BY <2>3 DEF Emits, Sends
  <2>5. PICK c : c = scheduleTimeout(b, "REXMIT")
    OBVIOUS
  <2>6. "REXMIT" \in TimerName
    BY DEF TimerName
  <2>7. Schedules(b, "REXMIT", c)
    BY <2>4, <2>5, <2>6, scheduleTimeoutSchedules
  <2>8. Sends(b, c) /\ c.snd_max = b.snd_max /\ c.timers = s.timers \cup {"REXMIT"}
    <3>1. FinsSent(b) => FinsSent(c)
      BY <2>7 DEF Schedules, FinsSent, EndsStream
    <3> QED
      BY <2>4, <2>7, <3>1 DEF Schedules, Sends
  <2>9. c \in Block
    BY <2>8 DEF Sends
  <2>10. PICK d : d = slowStart(c)
    OBVIOUS
  <2>11. Sends(c, d) /\ d.snd_max = c.snd_max /\ d.timers = c.timers
    BY <2>9, <2>10, slowStartSends
  <2>12. Sends(s, c)
    BY <2>4, <2>8, SendsTransitive
  <2>13. Sends(s, d)
    BY <2>11, <2>12, SendsTransitive
  <2>14. processRexmitTimer(s) = d
    <3>1. b = [s EXCEPT !.rexmit_count = @ + 1]
      BY <2>1, <2>2 DEF Block
    <3> QED
      BY <1>4, <2>5, <2>10, <3>1 DEF processRexmitTimer
  <2> QED
    BY <2>4, <2>8, <2>11, <2>13, <2>14 DEF Retransmits
<1> QED
  BY <1>3, <1>4


LEMMA SynAgainRepeats ==
  ASSUME NEW s \in Block, "SYN_REXMIT" \notin s.timers
  PROVE  LET t == SynAgain(s)
         IN  (Ignores(s, t) /\ t.ev = "ABORT") \/ (Repeats(s, t) /\ t.ev = s.ev)
<1>1. PICK a : a = Event(s, "ABORT")
  OBVIOUS
<1>2. Ignores(s, a) /\ a.ev = "ABORT"
  BY <1>1, EventKeeps DEF Ignores, EventName
<1>3. PICK k : k = s.syn_rexmit_count + 1
  OBVIOUS
<1>4. PICK b : b = [s EXCEPT !.syn_rexmit_count = k]
  OBVIOUS
<1>5. b = [s EXCEPT !.syn_rexmit_count = @ + 1] /\ b.syn_rexmit_count = k
  BY <1>3, <1>4 DEF Block
<1>6. CASE k > MaxSynRexmit
  <2>1. SynAgain(s) = a
    BY <1>1, <1>5, <1>6 DEF SynAgain
  <2> QED
    BY <1>2, <2>1
<1>7. CASE ~ k > MaxSynRexmit
  <2>1. k \in 0 .. MaxSynRexmit
    <3>1. s.syn_rexmit_count \in 0 .. MaxSynRexmit
      BY DEF Block
    <3> QED
      BY <1>3, <1>7, <3>1, ParamAssumption
  <2>2. Emits(s, b)
    BY <1>4, <2>1, ZenonT(60) DEF Emits, Sends, FinsSent, EndsStream, Block
  <2>3. b \in Block /\ b.timers = s.timers /\ Sends(s, b) /\ b.snd_max = s.snd_max
        /\ b.failed = s.failed /\ b.iss = s.iss
    BY <2>2 DEF Emits, Sends
  <2>4. PICK c : c = IF s.st = "SYN_SENT" THEN sendSyn(b) ELSE sendSynAck(b)
    OBVIOUS
  <2>5. SynSent(b, c)
    BY <2>3, <2>4, sendSynIs
  <2>6. SynSent(s, c)
    <3>1. Sends(b, c)
      BY <2>5 DEF SynSent
    <3>2. Sends(s, c)
      BY <2>3, <3>1, SendsTransitive
    <3> QED
      BY <2>3, <2>5, <3>2 DEF SynSent
  <2>7. c \in Block /\ c.timers = s.timers
    BY <2>6 DEF SynSent, Sends
  <2>8. PICK d : d = scheduleTimeout(c, "SYN_REXMIT")
    OBVIOUS
  <2>9. "SYN_REXMIT" \in TimerName
    BY DEF TimerName
  <2>10. Schedules(c, "SYN_REXMIT", d)
    BY <2>7, <2>8, <2>9, scheduleTimeoutSchedules
  <2>11. d.failed = c.failed
    BY <2>7, <2>10 DEF Schedules
  <2>12. Repeats(s, d) /\ d.ev = s.ev
    BY <2>6, <2>10, <2>11, sendSynRepeats
  <2>13. SynAgain(s) = d
    BY <1>5, <1>7, <2>4, <2>8 DEF SynAgain
  <2> QED
    BY <2>12, <2>13
<1> QED
  BY <1>6, <1>7

-----------------------------------------------------------------------------
(* Commands. *)

LEMMA processCloseEnds ==
  ASSUME NEW s \in Block, ~ s.send_fin
  PROVE  Ends(s, process_CLOSE(s))
<1>1. PICK q \in SeqNo : q = s.qEnd
  BY NumbersIn
<1>2. PICK m \in SeqNo : m = s.snd_max
  BY NumbersIn
<1>3. PICK k \in SeqNo : k = Plus(m, 1)
  BY PlusType
<1>4. PICK r \in SeqNo : r = s.rcv_nxt
  BY NumbersIn
<1>5. PICK a : a = [s EXCEPT !.send_fin = TRUE, !.snd_fin_seq = q]
  OBVIOUS
<1>6. a \in Block
  BY <1>5, ZenonT(60) DEF Block
<1>7. /\ a.st = s.st /\ a.iss = s.iss /\ a.snd_una = s.snd_una
      /\ a.qBegin = s.qBegin /\ a.qEnd = s.qEnd /\ a.send_fin /\ a.snd_fin_seq = s.qEnd
      /\ a.snd_max = s.snd_max /\ a.timers = s.timers /\ a.failed = s.failed
      /\ a.rcv_nxt = s.rcv_nxt /\ a.fin_rcvd = s.fin_rcvd /\ a.out = s.out /\ a.ev = s.ev
  BY <1>1, <1>5 DEF Block
<1>8. FinsSent(s) => \A seg \in s.out : ~ seg.fin
  BY DEF FinsSent, EndsStream
<1>9. FinsSent(s) => FinsSent(a)
  BY <1>7, <1>8 DEF FinsSent, EndsStream
<1>10. PICK b : b = Event(a, "CLOSE")
  OBVIOUS
<1>11. Ignores(a, b) /\ b.ev = "CLOSE"
  BY <1>6, <1>10, EventKeeps DEF Ignores, EventName
<1>12. PICK seg : seg = [NoFlags EXCEPT !.fin = TRUE, !.ack = TRUE, !.seq = m, !.ackNo = r]
  OBVIOUS
<1>13. seg \in TCPSegment /\ seg.fin /\ seg.seq = m /\ seg.len = 0
  BY <1>12, Segments DEF NoFlags, TCPSegment
<1>14. PICK o : o = s.out \cup {seg}
  OBVIOUS
<1>15. PICK c : c = [a EXCEPT !.snd_nxt = k, !.snd_max = k, !.out = o]
  OBVIOUS
<1>16. c \in Block
  <2>1. o \in SUBSET TCPSegment
    BY <1>13, <1>14 DEF Block
  <2> QED
    BY <1>6, <1>15, <2>1, ZenonT(60) DEF Block
<1>17. /\ c.st = s.st /\ c.iss = s.iss /\ c.snd_una = s.snd_una
       /\ c.qBegin = s.qBegin /\ c.qEnd = s.qEnd /\ c.send_fin /\ c.snd_fin_seq = s.qEnd
       /\ c.snd_max = k /\ c.timers = s.timers /\ c.failed = s.failed
       /\ c.rcv_nxt = s.rcv_nxt /\ c.fin_rcvd = s.fin_rcvd /\ c.out = o /\ c.ev = s.ev
  BY <1>6, <1>7, <1>15 DEF Block
<1>18. s.snd_max = s.qEnd /\ FinsSent(s) => FinsSent(c)
  <2>1. Plus(m, 0) = m
    BY Mod, Windows DEF Plus, SeqNo
  <2> QED
    BY <1>2, <1>8, <1>13, <1>14, <1>17, <2>1 DEF FinsSent, EndsStream
<1>19. PICK d : d = Event(c, "CLOSE")
  OBVIOUS
<1>20. Ignores(c, d) /\ d.ev = "CLOSE"
  BY <1>16, <1>19, EventKeeps DEF Ignores, EventName
<1>21. PICK t : t = process_CLOSE(s)
  OBVIOUS
<1>22. t = CASE m = q -> d
             [] m # q /\ s.st = "CLOSE_WAIT" -> a
             [] OTHER -> b
  <2>1. [s EXCEPT !.send_fin = TRUE, !.snd_fin_seq = s.qEnd] = a
    BY <1>1, <1>5
  <2>2. [sendFin([a EXCEPT !.snd_nxt = s.snd_max]) EXCEPT !.snd_nxt = k, !.snd_max = k] = c
    <3>1. PICK x : x = [a EXCEPT !.snd_nxt = m]
      OBVIOUS
    <3>2. x.snd_nxt = m /\ x.rcv_nxt = r /\ x.out = s.out
      BY <1>4, <1>6, <1>7, <3>1 DEF Block
    <3>3. sendFin(x) = [x EXCEPT !.out = o]
      BY <1>12, <1>14, <3>2 DEF sendFin, Emit
    <3>4. [[x EXCEPT !.out = o] EXCEPT !.snd_nxt = k, !.snd_max = k] = c
      BY <1>6, <1>15, <3>1 DEF Block
    <3> QED
      BY <1>2, <3>1, <3>3, <3>4
  <2> QED
    BY <1>1, <1>2, <1>3, <1>10, <1>19, <1>21, <2>1, <2>2 DEF process_CLOSE
<1>23. CASE m = q
  <2>1. t = d
    BY <1>22, <1>23
  <2>2. /\ d.st = c.st /\ d.iss = c.iss /\ d.snd_una = c.snd_una /\ d.qBegin = c.qBegin
        /\ d.qEnd = c.qEnd /\ d.send_fin = c.send_fin /\ d.snd_fin_seq = c.snd_fin_seq
        /\ d.snd_max = c.snd_max /\ d.timers = c.timers /\ d.failed = c.failed
        /\ d.rcv_nxt = c.rcv_nxt /\ d.fin_rcvd = c.fin_rcvd /\ d \in Block
        /\ FinsSent(c) => FinsSent(d)
    BY <1>20 DEF Ignores, Keeps
  <2> QED
    BY <1>1, <1>2, <1>3, <1>17, <1>18, <1>20, <1>21, <1>23, <2>1, <2>2 DEF Ends
<1>24. CASE m # q /\ s.st = "CLOSE_WAIT"
  <2>1. t = a
    BY <1>22, <1>24
  <2> QED
    BY <1>1, <1>2, <1>6, <1>7, <1>9, <1>21, <1>24, <2>1 DEF Ends
<1>25. CASE m # q /\ s.st # "CLOSE_WAIT"
  <2>1. t = b
    BY <1>22, <1>25
  <2>2. /\ b.st = a.st /\ b.iss = a.iss /\ b.snd_una = a.snd_una /\ b.qBegin = a.qBegin
        /\ b.qEnd = a.qEnd /\ b.send_fin = a.send_fin /\ b.snd_fin_seq = a.snd_fin_seq
        /\ b.snd_max = a.snd_max /\ b.timers = a.timers /\ b.failed = a.failed
        /\ b.rcv_nxt = a.rcv_nxt /\ b.fin_rcvd = a.fin_rcvd /\ b \in Block
        /\ FinsSent(a) => FinsSent(b)
    BY <1>11 DEF Ignores, Keeps
  <2> QED
    BY <1>1, <1>2, <1>7, <1>9, <1>11, <1>21, <1>25, <2>1, <2>2 DEF Ends
<1> QED
  BY <1>23, <1>24, <1>25

LEMMA enqueueAppDataEnqueues ==
  ASSUME NEW s \in Block, NEW n \in Nat
  PROVE  Enqueues(s, n, enqueueAppData(s, n))
<1>1. PICK q \in SeqNo : q = Plus(s.qEnd, n)
  BY NumbersIn, PlusType
<1>2. PICK t : t = [s EXCEPT !.qEnd = q]
  OBVIOUS
<1>3. t \in Block
  BY <1>2, SMTT(40) DEF Block
<1>4. /\ t.st = s.st /\ t.iss = s.iss /\ t.snd_una = s.snd_una
      /\ t.snd_nxt = s.snd_nxt /\ t.snd_max = s.snd_max /\ t.qBegin = s.qBegin
      /\ t.qEnd = q /\ t.send_fin = s.send_fin /\ t.snd_fin_seq = s.snd_fin_seq
      /\ t.timers = s.timers /\ t.failed = s.failed /\ t.out = s.out
      /\ t.rcv_nxt = s.rcv_nxt /\ t.fin_rcvd = s.fin_rcvd /\ t.ev = s.ev
  BY <1>2 DEF Block
<1>5. FinsSent(s) => FinsSent(t)
  BY <1>4 DEF FinsSent, EndsStream
<1>6. enqueueAppData(s, n) = t
  BY <1>1, <1>2 DEF enqueueAppData
<1>7. Enqueues(s, n, t)
  BY <1>1, <1>3, <1>4, <1>5 DEF Enqueues
<1> QED
  BY <1>6, <1>7


-----------------------------------------------------------------------------
(* The state machine. *)

LEMMA TransitionTo ==
  ASSUME NEW t \in Transition
  PROVE  t[3] \in State
BY DEF Transition, State

LEMMA nextStateIs ==
  ASSUME NEW s, ~ Resets(s)
  PROVE  \/ nextState(s) = s.st /\ \A t \in Transition : ~ (t[1] = s.st /\ t[2] = s.ev)
         \/ \E t \in Transition : t[1] = s.st /\ t[2] = s.ev /\ nextState(s) = t[3]
<1>1. PICK ts : ts = {t \in Transition : t[1] = s.st /\ t[2] = s.ev}
  OBVIOUS
<1>2. nextState(s) = IF ts = {} THEN s.st ELSE (CHOOSE t \in ts : TRUE)[3]
  BY <1>1 DEF nextState, Resets
<1>3. ts # {} => (CHOOSE t \in ts : TRUE) \in ts
  OBVIOUS
<1> QED
  BY <1>1, <1>2, <1>3

LEMMA nextStateResets ==
  ASSUME NEW s, Resets(s)
  PROVE  nextState(s) = IF s.ev # "ABORT" /\ s.st = "SYN_RCVD"
                           /\ s.ev \in {"RCV_RST", "CONN_ESTAB"} /\ ~ s.active
                        THEN "LISTEN" ELSE "CLOSED"
BY DEF nextState, Resets

LEMMA nextStateType ==
  ASSUME NEW s \in Block
  PROVE  nextState(s) \in State
<1>1. CASE Resets(s)
  BY <1>1, nextStateResets DEF State
<1>2. CASE ~ Resets(s)
  <2>1. s.st \in State
    BY DEF Block
  <2> QED
    BY <1>2, <2>1, nextStateIs, TransitionTo
<1> QED
  BY <1>1, <1>2

\* A connection past its handshake stays so until it is closed.
LEMMA SynchronizedNext ==
  ASSUME NEW s, s.st \in Synchronized
  PROVE  nextState(s) \in Synchronized \cup {"CLOSED"}
<1>1. CASE Resets(s)
  BY <1>1, nextStateResets DEF Synchronized
<1>2. CASE ~ Resets(s)
  BY <1>2, nextStateIs, SMTT(60) DEF Transition, Synchronized
<1> QED
  BY <1>1, <1>2

\* CLOSING is entered with the peer's FIN.
LEMMA ClosingNext ==
  ASSUME NEW s, nextState(s) = "CLOSING"
  PROVE  s.st = "CLOSING" \/ (s.st = "FIN_WAIT_1" /\ s.ev = "RCV_FIN")
<1>1. CASE Resets(s)
  BY <1>1, nextStateResets
<1>2. CASE ~ Resets(s)
  BY <1>2, nextStateIs, SMTT(60) DEF Transition
<1> QED
  BY <1>1, <1>2

LEMMA NewConnectionType == NewConnection \in Block
<1>1. 0 \in SeqNo /\ RcvWnd \in 1 .. RcvWnd /\ 0 \in 0 .. RcvWnd
  BY Windows DEF SeqNo
<1>2. 0 \in 0 .. 4 /\ 0 \in 0 .. MaxSynRexmit /\ 0 \in 0 .. MaxRexmit
  BY ParamAssumption
<1>3. <<>> \in Seq(Indication)
  OBVIOUS
<1>4. "INIT" \in State /\ "IGNORE" \in EventName /\ "no" \in Failure
  BY DEF State, EventName, Failure
<1> QED
  BY <1>1, <1>2, <1>3, <1>4 DEF NewConnection, Block

LEMMA stateEnteredEnters ==
  ASSUME NEW s \in Block, NEW x \in State
  PROVE  Enters(s, x, stateEntered(s, x))
<1>1. PICK t : t = stateEntered(s, x)
  OBVIOUS
<1>2. CASE x = s.st
  <2>1. t = s
    BY <1>1, <1>2 DEF stateEntered
  <2>2. Enters(s, x, s)
    BY <1>2 DEF Enters
  <2> QED
    BY <1>1, <2>1, <2>2
<1>3. PICK a : a = cancelEvent(s, {"CONN_ESTAB", "SYN_REXMIT"})
  OBVIOUS
<1>4. Cancels(s, {"CONN_ESTAB", "SYN_REXMIT"}, a)
  BY <1>3, cancelEventCancels
<1>5. a \in Block
  BY <1>4 DEF Cancels
<1>6. PICK b : b = [a EXCEPT !.st = x]
  OBVIOUS
<1>7. b \in Block
  BY <1>5, <1>6, ZenonT(60) DEF Block
<1>8. /\ b.st = x /\ b.send_fin = a.send_fin /\ b.snd_fin_seq = a.snd_fin_seq
      /\ b.qEnd = a.qEnd /\ b.out = a.out /\ b.failed = a.failed /\ b.timers = a.timers
      /\ b.iss = a.iss /\ b.snd_una = a.snd_una /\ b.snd_nxt = a.snd_nxt
      /\ b.snd_max = a.snd_max /\ b.qBegin = a.qBegin
      /\ b.rcv_nxt = a.rcv_nxt /\ b.fin_rcvd = a.fin_rcvd
  BY <1>5, <1>6 DEF Block
<1>9. x # "CLOSED" => Enters(s, x, b)
  BY <1>4, <1>7, <1>8 DEF Cancels, Enters
<1>10. CASE x # s.st /\ x = "ESTABLISHED"
  <2>1. PICK c : c = Tell(b, "ESTABLISHED")
    OBVIOUS
  <2>2. t = c
    BY <1>1, <1>3, <1>6, <1>10, <2>1 DEF stateEntered
  <2>3. c = [b EXCEPT !.told = Append(b.told, "ESTABLISHED")]
    BY <2>1 DEF Tell
  <2>4. "ESTABLISHED" \in Indication
    BY DEF Indication
  <2>5. Keeps(b, c) /\ c.timers = b.timers
    BY <1>7, <2>1, <2>4, TellKeeps
  <2>6. /\ c.st = b.st /\ c.send_fin = b.send_fin /\ c.snd_fin_seq = b.snd_fin_seq
        /\ c.qEnd = b.qEnd /\ c.out = b.out /\ c.failed = b.failed
        /\ c.iss = b.iss /\ c.snd_una = b.snd_una /\ c.snd_nxt = b.snd_nxt
        /\ c.snd_max = b.snd_max /\ c.qBegin = b.qBegin
        /\ c.rcv_nxt = b.rcv_nxt /\ c.fin_rcvd = b.fin_rcvd
    BY <1>7, <2>3 DEF Block
  <2>7. c \in Block
    BY <2>5 DEF Keeps
  <2>8. Enters(s, x, c)
    BY <1>9, <1>10, <2>5, <2>6, <2>7 DEF Enters
  <2> QED
    BY <1>1, <2>2, <2>8
<1>11. CASE x # s.st /\ x = "CLOSED"
  <2>1. PICK c : c = ClosedOf(s)
    OBVIOUS
  <2>2. t = c
    BY <1>1, <1>11, <2>1 DEF stateEntered, ClosedOf
  <2>3. c \in Block
    BY <1>11, <2>1, NewConnectionType, ZenonT(60) DEF ClosedOf, Block
  <2>4. /\ c.st = x /\ c.send_fin = s.send_fin /\ c.snd_fin_seq = s.snd_fin_seq
        /\ c.qEnd = s.qEnd /\ c.out = s.out /\ c.failed = s.failed /\ c.timers = {}
    BY <1>11, <2>1 DEF ClosedOf, NewConnection
  <2>5. Enters(s, x, c)
    BY <1>11, <2>3, <2>4 DEF Enters
  <2> QED
    BY <1>1, <2>2, <2>5
<1>12. CASE x # s.st /\ x \in {"SYN_RCVD", "SYN_SENT"}
  <2>1. PICK c : c = [s EXCEPT !.st = x]
    OBVIOUS
  <2>2. t = c
    BY <1>1, <1>12, <2>1 DEF stateEntered
  <2>3. c \in Block
    BY <2>1, SMTT(40) DEF Block
  <2>4. /\ c.st = x /\ c.send_fin = s.send_fin /\ c.snd_fin_seq = s.snd_fin_seq
        /\ c.qEnd = s.qEnd /\ c.out = s.out /\ c.failed = s.failed /\ c.timers = s.timers
        /\ c.iss = s.iss /\ c.snd_una = s.snd_una /\ c.snd_nxt = s.snd_nxt
        /\ c.snd_max = s.snd_max /\ c.qBegin = s.qBegin
        /\ c.rcv_nxt = s.rcv_nxt /\ c.fin_rcvd = s.fin_rcvd
    BY <2>1 DEF Block
  <2>5. Enters(s, x, c)
    BY <1>12, <2>3, <2>4 DEF Enters
  <2> QED
    BY <1>1, <2>2, <2>5
<1>13. CASE x # s.st /\ x \notin {"ESTABLISHED", "CLOSED", "SYN_RCVD", "SYN_SENT"}
  <2>1. t = b
    BY <1>1, <1>3, <1>6, <1>13 DEF stateEntered
  <2> QED
    BY <1>1, <1>9, <1>13, <2>1
<1> QED
  BY <1>2, <1>10, <1>11, <1>12, <1>13


-----------------------------------------------------------------------------
(* The order of the sequence numbers of a connection. *)

LEMMA SameOrder ==
  ASSUME NEW s, NEW t, SameNumbers(s, t), Order(s)
  PROVE  Order(t)
<1>1. PICK u \in Nat, m \in Nat, n \in Nat : Offsets(s, u, m, n)
  BY DEF Order
<1>2. Offsets(t, u, m, n)
  BY <1>1 DEF Offsets, SameNumbers
<1> QED
  BY <1>2 DEF Order

\* Offsets lie where the comparisons are those of the distances.
LEMMA OffsetsSmall ==
  ASSUME NEW s \in Block, NEW u \in Nat, NEW m \in Nat, NEW n \in Nat, Offsets(s, u, m, n)
  PROVE  /\ s.iss \in SeqNo
         /\ u \in 0 .. SeqMod \div 2 - 1 /\ m \in 0 .. SeqMod \div 2 - 1
         /\ n \in 0 .. SeqMod \div 2 - 1 /\ n + 1 \in 0 .. SeqMod \div 2 - 1
         /\ 1 \in 0 .. SeqMod \div 2 - 1
         /\ QueueFrom(u, n) \in 1 .. n
         /\ \A k \in 0 .. SeqMod \div 2 - 1 : k \in SeqNo /\ k \in 0 .. SeqMod
<1>1. s.iss \in SeqNo
  BY NumbersIn
<1>2. m <= n + 1 /\ u <= m /\ 1 <= n /\ n + 1 < SeqMod \div 2 /\ SeqMod \div 2 \in Nat
  BY Windows DEF Offsets
<1>3. QueueFrom(u, n) \in 1 .. n
  BY <1>2 DEF QueueFrom
<1>4. \A k \in 0 .. SeqMod \div 2 - 1 : k \in SeqNo /\ k \in 0 .. SeqMod
  BY Windows DEF SeqNo
<1> QED
  BY <1>1, <1>2, <1>3, <1>4

LEMMA OrderQueue ==
  ASSUME NEW s \in Block, Order(s)
  PROVE  seqLE(s.qBegin, s.qEnd) /\ seqLE(s.qEnd, s.qEnd)
<1>1. PICK u \in Nat, m \in Nat, n \in Nat : Offsets(s, u, m, n)
  BY DEF Order
<1>2. PICK i \in SeqNo : i = s.iss
  BY NumbersIn
<1>3. PICK b \in 1 .. n : b = QueueFrom(u, n)
  BY <1>1, OffsetsSmall
<1>4. n \in 0 .. SeqMod \div 2 - 1
  BY <1>1, OffsetsSmall
<1>5. b \in 0 .. SeqMod \div 2 - 1 /\ b <= n
  <2>1. PICK h \in Nat : h = SeqMod \div 2
    BY Windows
  <2>2. n \in Nat /\ n <= h - 1 /\ b \in Nat /\ b <= n
    BY <1>3, <1>4, <2>1
  <2>3. b <= h - 1
    BY <2>1, <2>2
  <2> QED
    BY <2>1, <2>2, <2>3
<1>6. s.qBegin = Plus(i, b) /\ s.qEnd = Plus(i, n)
  BY <1>1, <1>2, <1>3 DEF Offsets
<1>7. seqLE(Plus(i, b), Plus(i, n)) /\ seqLE(Plus(i, n), Plus(i, n))
  BY <1>4, <1>5, Compare
<1> QED
  BY <1>6, <1>7

LEMMA SentMoreOrder ==
  ASSUME NEW s \in Block, Order(s), NEW t, Sends(s, t), SentMore(s, t)
  PROVE  Order(t)
<1>1. PICK u \in Nat, m \in Nat, n \in Nat : Offsets(s, u, m, n)
  BY DEF Order
<1>2. PICK i \in SeqNo : i = s.iss
  BY NumbersIn
<1>3. PICK k \in 1 .. SeqMod - 1 :
        /\ k <= bytesAvailable(s)
        /\ t.snd_max = IF s.send_fin /\ Plus(s.snd_max, k) = s.snd_fin_seq
                       THEN Plus(Plus(s.snd_max, k), 1) ELSE Plus(s.snd_max, k)
  BY DEF SentMore
<1>4. /\ m \in 0 .. SeqMod \div 2 - 1 /\ n \in 0 .. SeqMod \div 2 - 1
      /\ n + 1 \in 0 .. SeqMod \div 2 - 1 /\ m \in SeqNo /\ n \in SeqNo /\ m \in 0 .. SeqMod
      /\ 1 \in 0 .. SeqMod
  BY <1>1, OffsetsSmall
<1>5. s.snd_max = Plus(i, m) /\ s.qEnd = Plus(i, n) /\ (s.send_fin => s.snd_fin_seq = Plus(i, n))
  BY <1>1, <1>2 DEF Offsets
<1>6. PICK d : d = Dist(Plus(i, m), Plus(i, n))
  OBVIOUS
<1>7. m <= n => d = n - m
  BY <1>4, <1>6, DistFrom
<1>8. bytesAvailable(s) = IF seqLess(Plus(i, m), Plus(i, n)) THEN d ELSE 0
  BY <1>5, <1>6 DEF bytesAvailable
<1>9. seqLess(Plus(i, m), Plus(i, n)) <=> m < n
  BY <1>4, Compare
<1>10. m < n /\ k <= n - m
  BY <1>3, <1>4, <1>7, <1>8, <1>9
<1>11. PICK z \in 0 .. SeqMod \div 2 - 1 : z = m + k /\ z <= n /\ m <= z
  <2>1. PICK h \in Nat : h = SeqMod \div 2
    BY Windows
  <2>2. n \in Nat /\ n <= h - 1 /\ m \in Nat /\ k \in Nat
    BY <1>3, <1>4, <2>1
  <2>3. m + k \in Nat /\ m + k <= n /\ m <= m + k /\ m + k <= h - 1
    BY <1>10, <2>1, <2>2
  <2>4. m + k \in 0 .. h - 1
    BY <2>1, <2>3
  <2> QED
    BY <2>1, <2>3, <2>4
<1>12. z \in SeqNo /\ z \in 0 .. SeqMod /\ k \in 0 .. SeqMod
  BY <1>3, <1>11, Windows DEF SeqNo
<1>13. Plus(Plus(i, m), k) = Plus(i, z) /\ Plus(Plus(i, z), 1) = Plus(i, z + 1)
  BY <1>4, <1>11, <1>12, PlusPlus
<1>14. Plus(i, z) = Plus(i, n) => z = n
  BY <1>4, <1>11, Compare
<1>15. t.snd_max = IF s.send_fin /\ Plus(i, z) = Plus(i, n) THEN Plus(i, z + 1) ELSE Plus(i, z)
  BY <1>3, <1>5, <1>13
<1>16. /\ t.iss = s.iss /\ t.snd_una = s.snd_una /\ t.qBegin = s.qBegin /\ t.qEnd = s.qEnd
       /\ t.send_fin = s.send_fin /\ t.snd_fin_seq = s.snd_fin_seq
  BY DEF Sends
<1>17. PICK w \in Nat : t.snd_max = Plus(i, w) /\ m <= w
                        /\ IF s.send_fin THEN w <= n + 1 ELSE w <= n
  <2>1. CASE s.send_fin /\ Plus(i, z) = Plus(i, n)
    <3>1. z + 1 \in Nat /\ m <= z + 1 /\ z + 1 <= n + 1
      BY <1>11
    <3> QED
      BY <1>15, <2>1, <3>1
  <2>2. CASE ~ (s.send_fin /\ Plus(i, z) = Plus(i, n))
    <3>1. z \in Nat /\ m <= z /\ z <= n + 1 /\ z <= n
      BY <1>11
    <3> QED
      BY <1>15, <2>2, <3>1
  <2> QED
    BY <2>1, <2>2
<1>18. u <= m /\ 1 <= m
  BY <1>1 DEF Offsets
<1>19. u <= w /\ 1 <= w
  BY <1>17, <1>18
<1>20. Offsets(t, u, w, n)
  BY <1>1, <1>2, <1>16, <1>17, <1>19 DEF Offsets
<1> QED
  BY <1>20 DEF Order

\* New data is acknowledged.
LEMMA AcksOrder ==
  ASSUME NEW s \in Block, Order(s), s.failed # "discardUpTo", NEW a \in SeqNo,
         seqLess(s.snd_una, a), seqLE(a, s.snd_max), NEW r, Acks(s, a, r)
  PROVE  Order(r) /\ r.failed = s.failed
<1>1. PICK u \in Nat, m \in Nat, n \in Nat : Offsets(s, u, m, n)
  BY DEF Order
<1>2. PICK i \in SeqNo : i = s.iss
  BY NumbersIn
<1>3. /\ u \in 0 .. SeqMod \div 2 - 1 /\ m \in 0 .. SeqMod \div 2 - 1
      /\ n \in 0 .. SeqMod \div 2 - 1 /\ n + 1 \in 0 .. SeqMod \div 2 - 1
      /\ n \in 0 .. SeqMod /\ 1 \in 0 .. SeqMod
  BY <1>1, OffsetsSmall
<1>4. /\ s.snd_una = Plus(i, u) /\ s.snd_max = Plus(i, m) /\ s.qEnd = Plus(i, n)
      /\ s.qBegin = Plus(i, QueueFrom(u, n)) /\ (s.send_fin => s.snd_fin_seq = Plus(i, n))
      /\ u <= m /\ 1 <= m /\ 1 <= n /\ n + 1 < SeqMod \div 2
      /\ IF s.send_fin THEN m <= n + 1 ELSE m <= n
  BY <1>1, <1>2 DEF Offsets
<1>5. seqLE(Plus(i, u), a) /\ seqLE(a, Plus(i, m)) /\ Plus(i, u) # a
  BY <1>4 DEF seqLess
<1>6. PICK z \in u .. m : a = Plus(i, z)
  BY <1>3, <1>4, <1>5, Between
<1>7. z # u /\ z \in Nat /\ u < z /\ z <= m /\ z \in 0 .. SeqMod \div 2 - 1
  <2>1. PICK h \in Nat : h = SeqMod \div 2
    BY Windows
  <2>2. m \in Nat /\ m <= h - 1 /\ z \in Nat /\ z <= m /\ u <= z
    BY <1>3, <1>6, <2>1
  <2>3. z <= h - 1
    BY <2>1, <2>2
  <2>4. z # u
    BY <1>5, <1>6
  <2>5. u < z
    BY <2>2, <2>4
  <2> QED
    BY <2>1, <2>2, <2>3, <2>4, <2>5
<1>8. Plus(Plus(i, n), 1) = Plus(i, n + 1)
  BY <1>3, PlusPlus
<1>9. Plus(i, z) = Plus(i, n + 1) <=> z = n + 1
  BY <1>3, <1>7, Compare
<1>10. FinAcked(s, a) <=> z = n + 1
  <2>1. CASE s.send_fin
    BY <1>4, <1>6, <1>8, <1>9, <2>1 DEF FinAcked
  <2>2. CASE ~ s.send_fin
    <3>1. z # n + 1
      BY <1>3, <1>4, <1>7, <2>2
    <3> QED
      BY <2>2, <3>1 DEF FinAcked
  <2> QED
    BY <2>1, <2>2
<1>11. PICK b \in 0 .. SeqMod \div 2 - 1 : b = QueueFrom(z, n) /\ b <= n
  BY <1>3, <1>4, <1>7 DEF QueueFrom
<1>12. r.qBegin = Plus(i, b)
  <2>1. r.qBegin = IF FinAcked(s, a) THEN s.snd_fin_seq ELSE a
    BY DEF Acks
  <2>2. FinAcked(s, a) => s.snd_fin_seq = Plus(i, n)
    BY <1>4 DEF FinAcked
  <2>3. b = IF z = n + 1 THEN n ELSE z
    BY <1>7, <1>11 DEF QueueFrom
  <2> QED
    BY <1>6, <1>10, <2>1, <2>2, <2>3
<1>13. PICK c \in 0 .. SeqMod \div 2 - 1 : c = QueueFrom(u, n) /\ c <= b
  <2>1. u <= n /\ 1 <= n
    BY <1>3, <1>4, <1>7
  <2>2. QueueFrom(u, n) = IF u = 0 THEN 1 ELSE u
    BY <2>1 DEF QueueFrom
  <2>3. QueueFrom(z, n) = IF z = n + 1 THEN n ELSE z
    BY <1>7 DEF QueueFrom
  <2>4. PICK c \in Nat : c = QueueFrom(u, n) /\ c = IF u = 0 THEN 1 ELSE u
    BY <2>2
  <2>5. c <= b /\ c <= n
    BY <1>7, <1>11, <2>1, <2>3, <2>4
  <2>6. PICK h \in Nat : h = SeqMod \div 2
    BY Windows
  <2>7. n <= h - 1
    BY <1>3, <2>6
  <2>8. c <= h - 1
    BY <2>5, <2>6, <2>7
  <2>9. c \in 0 .. h - 1
    BY <2>6, <2>8
  <2> QED
    BY <2>4, <2>5, <2>6, <2>9
<1>14. seqLE(Plus(i, c), Plus(i, b)) /\ seqLE(Plus(i, b), Plus(i, n))
  BY <1>3, <1>11, <1>13, Compare
<1>15. r.failed = s.failed
  BY <1>4, <1>12, <1>13, <1>14 DEF Acks
<1>16. /\ r.iss = i /\ r.snd_max = s.snd_max /\ r.qEnd = s.qEnd
       /\ r.send_fin = s.send_fin /\ r.snd_fin_seq = s.snd_fin_seq /\ r.snd_una = a
  BY <1>2 DEF Acks
<1>17. Offsets(r, z, m, n)
  BY <1>4, <1>6, <1>7, <1>11, <1>12, <1>16 DEF Offsets
<1> QED
  BY <1>7, <1>15, <1>17 DEF Order

LEMMA FitsHalf ==
  ASSUME Fits, NEW e \in End
  PROVE  MaxBytes[e] \in Nat /\ MaxBytes[e] + 2 < SeqMod \div 2 /\ 2 < SeqMod \div 2
<1>1. MaxBytes[e] \in Nat
  BY ParamAssumption
<1>2. MaxBytes[e] + 2 < SeqMod \div 2
  BY DEF Fits
<1> QED
  BY <1>1, <1>2, Windows

\* Connections begin in order.
LEMMA BeginsOrder ==
  ASSUME Fits, NEW s, NEW n \in SeqNo, NEW t, Begins(s, n, t), ~ t.send_fin
  PROVE  Order(t) /\ Written(t) = 0
<1>1. 2 < SeqMod \div 2 /\ SeqMod \div 2 \in Nat
  <2>1. PICK e \in End : TRUE
    BY ParamAssumption
  <2> QED
    BY <2>1, FitsHalf, Windows
<1>2. /\ t.iss = n /\ t.snd_una = n
      /\ t.snd_max = Plus(n, 1) /\ t.qBegin = Plus(n, 1) /\ t.qEnd = Plus(n, 1)
  BY DEF Begins
<1>3. Plus(n, 0) = n
  BY Mod, Windows DEF Plus, SeqNo
<1>4. QueueFrom(0, 1) = 1
  BY DEF QueueFrom
<1>5. Offsets(t, 0, 1, 1)
  BY <1>1, <1>2, <1>3, <1>4 DEF Offsets
<1>6. Order(t)
  BY <1>5 DEF Order
<1>7. PICK a \in SeqNo : a = Plus(n, 1)
  BY PlusType
<1>8. PICK d : d = Dist(a, a)
  OBVIOUS
<1>9. d = 0
  <2>1. a <= a => d = a - a
    BY <1>8, DistIs, Zenon
  <2> QED
    BY <2>1, Windows DEF SeqNo
<1>10. Written(t) = d
  BY <1>2, <1>7, <1>8 DEF Written
<1> QED
  BY <1>6, <1>9, <1>10

\* The SYN is acknowledged in SYN_SENT.
LEMMA ConnectsOrder ==
  ASSUME NEW s \in Block, Order(s), OnlySyn(s), s.failed = "no",
         NEW r, Connects(s, Plus(s.iss, 1), r)
  PROVE  Order(r) /\ r.failed = "no"
<1>1. PICK u \in Nat, m \in Nat, n \in Nat : Offsets(s, u, m, n)
  BY DEF Order
<1>2. PICK i \in SeqNo : i = s.iss
  BY NumbersIn
<1>3. /\ u \in 0 .. SeqMod \div 2 - 1 /\ m \in 0 .. SeqMod \div 2 - 1
      /\ n \in 0 .. SeqMod \div 2 - 1 /\ 1 \in 0 .. SeqMod \div 2 - 1
      /\ 0 \in 0 .. SeqMod \div 2 - 1
  BY <1>1, OffsetsSmall, Windows
<1>4. /\ s.snd_una = Plus(i, u) /\ s.qEnd = Plus(i, n)
      /\ s.qBegin = Plus(i, QueueFrom(u, n)) /\ 1 <= n /\ n + 1 < SeqMod \div 2
  BY <1>1, <1>2 DEF Offsets
<1>5. Plus(i, 0) = i
  BY Mod, Windows DEF Plus, SeqNo
<1>6. u = 0
  <2>1. Plus(i, u) = Plus(i, 0)
    BY <1>2, <1>4, <1>5 DEF OnlySyn
  <2> QED
    BY <1>3, <2>1, Compare
<1>7. s.qBegin = Plus(i, 1)
  BY <1>4, <1>6 DEF QueueFrom
<1>8. PICK a : a = Plus(i, 1)
  OBVIOUS
<1>9. seqLE(a, a) /\ seqLE(a, s.qEnd)
  BY <1>3, <1>4, <1>8, Compare
<1>10. /\ r.iss = i /\ r.snd_max = a /\ r.qEnd = s.qEnd /\ ~ r.send_fin
       /\ r.snd_una = a /\ r.qBegin = a /\ r.failed = "no"
  BY <1>2, <1>7, <1>8, <1>9 DEF Connects, OnlySyn
<1>11. QueueFrom(1, n) = 1
  BY <1>4 DEF QueueFrom
<1>12. Offsets(r, 1, 1, n)
  BY <1>4, <1>8, <1>10, <1>11 DEF Offsets
<1> QED
  BY <1>10, <1>12 DEF Order

\* The application closes.
LEMMA EndsOrder ==
  ASSUME NEW s \in Block, Order(s), ~ s.send_fin, NEW t, Ends(s, t)
  PROVE  Order(t)
<1>1. PICK u \in Nat, m \in Nat, n \in Nat : Offsets(s, u, m, n)
  BY DEF Order
<1>2. PICK i \in SeqNo : i = s.iss
  BY NumbersIn
<1>3. /\ m \in 0 .. SeqMod \div 2 - 1 /\ n \in 0 .. SeqMod \div 2 - 1
      /\ m \in 0 .. SeqMod /\ 1 \in 0 .. SeqMod
  BY <1>1, OffsetsSmall
<1>4. /\ u <= m /\ 1 <= m /\ 1 <= n /\ n + 1 < SeqMod \div 2 /\ m <= n
      /\ s.snd_una = Plus(i, u) /\ s.snd_max = Plus(i, m) /\ s.qEnd = Plus(i, n)
      /\ s.qBegin = Plus(i, QueueFrom(u, n))
  BY <1>1, <1>2 DEF Offsets
<1>5. Plus(Plus(i, m), 1) = Plus(i, m + 1)
  BY <1>3, PlusPlus
<1>6. /\ t.iss = i /\ t.snd_una = s.snd_una /\ t.qBegin = s.qBegin /\ t.qEnd = s.qEnd
      /\ t.send_fin /\ t.snd_fin_seq = s.qEnd
      /\ t.snd_max = IF s.snd_max = s.qEnd THEN Plus(s.snd_max, 1) ELSE s.snd_max
  BY <1>2 DEF Ends
<1>7. CASE s.snd_max = s.qEnd
  <2>1. m = n
    <3>1. Plus(i, m) = Plus(i, n)
      BY <1>4, <1>7
    <3> QED
      BY <1>3, <3>1, Compare
  <2>2. t.snd_max = Plus(i, m + 1)
    BY <1>4, <1>5, <1>6, <1>7
  <2>3. m + 1 \in Nat /\ u <= m + 1 /\ 1 <= m + 1 /\ m + 1 <= n + 1
    BY <1>4, <2>1
  <2>4. Offsets(t, u, m + 1, n)
    BY <1>4, <1>6, <2>2, <2>3 DEF Offsets
  <2> QED
    BY <2>3, <2>4 DEF Order
<1>8. CASE s.snd_max # s.qEnd
  <2>1. t.snd_max = Plus(i, m) /\ m <= n + 1
    BY <1>4, <1>6, <1>8
  <2>2. Offsets(t, u, m, n)
    BY <1>4, <1>6, <2>1 DEF Offsets
  <2> QED
    BY <2>2 DEF Order
<1> QED
  BY <1>7, <1>8

\* The application writes.
LEMMA EnqueuesOrder ==
  ASSUME NEW s \in Block, Order(s), ~ s.send_fin, NEW k \in Nat, NEW t, Enqueues(s, k, t),
         Written(s) + k + 2 < SeqMod \div 2
  PROVE  Order(t)
<1>1. PICK u \in Nat, m \in Nat, n \in Nat : Offsets(s, u, m, n)
  BY DEF Order
<1>2. PICK i \in SeqNo : i = s.iss
  BY NumbersIn
<1>3. n \in SeqNo /\ 1 \in SeqNo /\ n \in 0 .. SeqMod
  BY <1>1, OffsetsSmall
<1>4. /\ u <= m /\ 1 <= m /\ 1 <= n /\ n + 1 < SeqMod \div 2 /\ m <= n
      /\ s.snd_una = Plus(i, u) /\ s.snd_max = Plus(i, m) /\ s.qEnd = Plus(i, n)
      /\ s.qBegin = Plus(i, QueueFrom(u, n))
  BY <1>1, <1>2 DEF Offsets
<1>5. PICK d : d = Dist(Plus(i, 1), Plus(i, n))
  OBVIOUS
<1>6. d = n - 1
  BY <1>3, <1>4, <1>5, DistFrom
<1>7. Written(s) = d
  BY <1>2, <1>4, <1>5 DEF Written
<1>8. PICK h \in Nat : h = SeqMod \div 2 /\ SeqMod = 2 * h
  BY Windows
<1>9. d + k + 2 < h
  BY <1>7, <1>8
<1>10. n + k + 1 < h
  BY <1>6, <1>9
<1>11. PICK z \in Nat : z = n + k
  OBVIOUS
<1>12. k \in 0 .. SeqMod /\ n <= z /\ z + 1 < SeqMod \div 2
  <2>1. k \in Nat /\ k <= SeqMod /\ SeqMod \in Nat
    BY <1>8, <1>10
  <2> QED
    BY <1>8, <1>10, <1>11, <2>1
<1>13. Plus(Plus(i, n), k) = Plus(i, z)
  BY <1>3, <1>11, <1>12, PlusPlus
<1>14. /\ t.iss = i /\ t.snd_una = s.snd_una /\ t.snd_max = s.snd_max /\ t.qBegin = s.qBegin
       /\ t.qEnd = Plus(i, z) /\ ~ t.send_fin
  BY <1>2, <1>4, <1>13 DEF Enqueues
<1>15. QueueFrom(u, z) = QueueFrom(u, n)
  BY <1>4, <1>12 DEF QueueFrom
<1>16. m <= z /\ 1 <= z
  BY <1>4, <1>12
<1>17. Offsets(t, u, m, z)
  BY <1>4, <1>12, <1>14, <1>15, <1>16 DEF Offsets
<1> QED
  BY <1>17 DEF Order

\* An acknowledgement is processed.
LEMMA AcknowledgesOrder ==
  ASSUME NEW s \in Block, Order(s), s.failed = "no", NEW seg \in TCPSegment, NEW t,
         Acknowledges(s, seg, t)
  PROVE  Order(t) /\ t.failed # "discardUpTo"
<1>1. PICK a \in SeqNo : a = seg.ackNo
  BY Segments
<1>2. CASE Sends(s, t) /\ t.snd_max = s.snd_max
  <2>1. SameNumbers(s, t) /\ t.failed \in {s.failed, "createSegmentWithBytes"}
    BY <1>2 DEF Sends, SameNumbers
  <2> QED
    BY <2>1, SameOrder
<1>3. ASSUME seqLess(s.snd_una, a), seqLE(a, s.snd_max), NEW r, Acks(s, a, r), Answers(r, t)
      PROVE  Order(t) /\ t.failed # "discardUpTo"
  <2>1. Order(r) /\ r.failed = "no"
    BY <1>3, AcksOrder
  <2>2. r \in Block
    BY <1>3 DEF Acks
  <2>3. Sends(r, t) /\ (t.snd_max = r.snd_max \/ SentMore(r, t))
    BY <1>3 DEF Answers
  <2>4. t.failed \in {r.failed, "createSegmentWithBytes"}
    BY <2>3 DEF Sends
  <2>5. CASE t.snd_max = r.snd_max
    <3>1. SameNumbers(r, t)
      BY <2>3, <2>5 DEF Sends, SameNumbers
    <3> QED
      BY <2>1, <2>4, <3>1, SameOrder
  <2>6. CASE SentMore(r, t)
    BY <2>1, <2>2, <2>3, <2>4, <2>6, SentMoreOrder
  <2> QED
    BY <2>3, <2>5, <2>6
<1> QED
  BY <1>1, <1>2, <1>3 DEF Acknowledges

LEMMA SameInOrder ==
  ASSUME NEW s, NEW t, NEW x, SameNumbers(s, t), InOrder(s, x)
  PROVE  InOrder(t, x)
BY SameOrder DEF InOrder


-----------------------------------------------------------------------------
(* What holds of each connection between two steps. *)

LEMMA MovesSteps ==
  ASSUME NEW s, NEW t, NEW x, NEW ends, NEW p, Moves(s, t, x, ends), Enters(t, x, p)
  PROVE  Steps(s, p, ends)
<1>1. p \in Block /\ p.st = x
  BY DEF Enters
<1>2. FinsSent(p)
  BY DEF Moves, Enters, FinsSent, EndsStream
<1>3. s.send_fin => p.send_fin /\ p.snd_fin_seq = s.snd_fin_seq
  BY DEF Moves, Enters
<1>4. p.failed \in {"already scheduled", "internal error"} => p.fin_rcvd
  BY DEF Moves, Enters
<1>5. p.st = "CLOSING" /\ ~ p.fin_rcvd =>
        (s.st = "CLOSING" /\ ~ s.fin_rcvd /\ p.rcv_nxt = s.rcv_nxt) \/ p.rcv_nxt \in ends
  BY DEF Moves, Enters
<1>6. Fits => p.failed # "discardUpTo"
  BY DEF Moves, Enters
<1>7. CASE x = "CLOSED"
  <2>1. p.timers = {}
    BY <1>7 DEF Moves, Enters
  <2>2. p.send_fin => p.snd_fin_seq = p.qEnd
    BY DEF Moves, Enters
  <2>3. Sound(p)
    BY <1>1, <1>7, <2>1, <2>2 DEF Sound, InOrder, Live, Handshake, Synchronized
  <2> QED
    BY <1>1, <1>2, <1>3, <1>4, <1>5, <1>6, <2>3 DEF Steps
<1>8. CASE x # "CLOSED"
  <2>1. /\ p.iss = t.iss /\ p.snd_una = t.snd_una /\ p.snd_nxt = t.snd_nxt
        /\ p.snd_max = t.snd_max /\ p.send_fin = t.send_fin /\ p.snd_fin_seq = t.snd_fin_seq
        /\ p.qBegin = t.qBegin /\ p.qEnd = t.qEnd /\ p.fin_rcvd = t.fin_rcvd /\ p.timers \subseteq t.timers
        /\ p.timers \ {"CONN_ESTAB", "SYN_REXMIT"} = t.timers \ {"CONN_ESTAB", "SYN_REXMIT"}
    BY <1>8 DEF Enters
  <2>2. "REXMIT" \in t.timers <=> "REXMIT" \in p.timers
    BY <2>1
  <2>3. x \in Handshake => OnlySyn(p)
    BY <2>1 DEF Moves, OnlySyn
  <2>4. x \in Synchronized => Timed(p)
    BY <2>1, <2>2 DEF Moves, Timed
  <2>5. "CONN_ESTAB" \in p.timers \/ "SYN_REXMIT" \in p.timers => x \in Handshake
    <3>1. x \notin {t.st, "SYN_RCVD", "SYN_SENT"} =>
            "CONN_ESTAB" \notin p.timers /\ "SYN_REXMIT" \notin p.timers
      BY DEF Enters
    <3>2. t.st = s.st
      BY DEF Moves
    <3>3. "CONN_ESTAB" \in t.timers \/ "SYN_REXMIT" \in t.timers => x \in Handshake \/ x # s.st
      BY DEF Moves
    <3> QED
      BY <2>1, <3>1, <3>2, <3>3 DEF Handshake
  <2>6. "REXMIT" \in p.timers => x \in Synchronized
    BY <1>8, <2>1 DEF Moves
  <2>7. "2MSL" \in p.timers => x = "TIME_WAIT" \/ (x = "CLOSING" /\ p.fin_rcvd)
    BY <1>8, <2>1 DEF Moves
  <2>8. /\ x \in {"INIT", "LISTEN"} => ~ p.send_fin
        /\ p.send_fin => p.snd_fin_seq = p.qEnd
    BY <2>1 DEF Moves
  <2>9. InOrder(p, x)
    <3>1. SameNumbers(t, p)
      BY <2>1 DEF SameNumbers
    <3>2. InOrder(t, x)
      BY DEF Moves
    <3> QED
      BY <3>1, <3>2, SameInOrder
  <2>10. Sound(p)
    BY <1>1, <2>3, <2>4, <2>5, <2>6, <2>7, <2>8, <2>9 DEF Sound
  <2> QED
    BY <1>1, <1>2, <1>3, <1>4, <1>5, <1>6, <2>10 DEF Steps
<1> QED
  BY <1>7, <1>8

LEMMA Started ==
  ASSUME NEW c, c \in ConnectionBlock, c.ssthresh > 0
  PROVE  AtRest(c)
<1>1. c.ssthresh \in 1 .. RcvWnd
  <2>1. c.ssthresh \in 0 .. RcvWnd
    BY DEF ConnectionBlock
  <2> QED
    BY <2>1, Windows
<1>2. c.ev = "IGNORE" /\ c.failed = "no" /\ c.out = {}
  BY DEF ConnectionBlock
<1>3. c.ev \in EventName /\ c.failed \in Failure /\ c.out \in SUBSET TCPSegment
  BY <1>2 DEF EventName, Failure
<1>4. c.timers \in SUBSET TimerName /\ c.told \in Seq(Indication)
  BY DEF ConnectionBlock, TimerName, Indication
<1>5. c \in Block
  BY <1>1, <1>3, <1>4 DEF ConnectionBlock, Block
<1> QED
  BY <1>2, <1>5 DEF AtRest

LEMMA StoredType ==
  ASSUME NEW p \in Block
  PROVE  Stored(p) \in ConnectionBlock /\ Stored(p).ssthresh > 0
<1>1. PICK c : c = Stored(p)
  OBVIOUS
<1>2. p.ssthresh \in 0 .. RcvWnd /\ p.ssthresh > 0
  <2>1. p.ssthresh \in 1 .. RcvWnd
    BY DEF Block
  <2> QED
    BY <2>1, Windows
<1>3. p.timers \in SUBSET {"CONN_ESTAB", "SYN_REXMIT", "REXMIT", "2MSL"}
  BY DEF Block, TimerName
<1>4. p.told \in Seq({"ESTABLISHED", "PEER_CLOSED", "CLOSED", "CONNECTION_RESET",
               "CONNECTION_REFUSED", "TIMED_OUT"})
  BY DEF Block, Indication
<1>5. c \in ConnectionBlock
  BY <1>1, <1>2, <1>3, <1>4, ZenonT(60) DEF Stored, Block, ConnectionBlock
<1>6. c.ssthresh = p.ssthresh
  BY <1>1 DEF Stored, Block
<1> QED
  BY <1>1, <1>2, <1>5, <1>6


-----------------------------------------------------------------------------
(* Moves, put together. *)

\* Nothing happens but a change of state.
LEMMA RestMoves ==
  ASSUME NEW s, AtRest(s), Sound(s), s.st # "CLOSED", NEW x,
         x \in {s.st, "CLOSED"} \/ (x = "LISTEN" /\ s.st \in Handshake \cup {"INIT"})
  PROVE  Moves(s, s, x, {})
<1>1. s \in Block /\ s.failed = "no" /\ FinsSent(s)
  BY DEF AtRest, FinsSent
<1>2. /\ s.send_fin => s.snd_fin_seq = s.qEnd
      /\ "CONN_ESTAB" \in s.timers \/ "SYN_REXMIT" \in s.timers => s.st \in Handshake
      /\ "REXMIT" \in s.timers => s.st \in Synchronized
      /\ "2MSL" \in s.timers => s.st = "TIME_WAIT" \/ (s.st = "CLOSING" /\ s.fin_rcvd)
  BY DEF Sound
<1>3. x \in {"INIT", "LISTEN"} => ~ s.send_fin
  BY DEF Sound, OnlySyn
<1>4. CASE x = s.st
  BY <1>1, <1>2, <1>3, <1>4 DEF Moves, Sound
<1>5. CASE x = "CLOSED"
  BY <1>1, <1>2, <1>5 DEF Moves, InOrder, Live, Handshake, Synchronized
<1>6. CASE x = "LISTEN" /\ s.st \in Handshake \cup {"INIT"}
  BY <1>1, <1>2, <1>3, <1>6 DEF Moves, InOrder, Live, Handshake, Synchronized
<1> QED
  BY <1>4, <1>5, <1>6

LEMMA MovesThenIgnores ==
  ASSUME NEW s, NEW a, NEW t, NEW x, NEW ends, Moves(s, a, x, ends), Ignores(a, t)
  PROVE  Moves(s, t, x, ends)
<1>1. /\ t \in Block /\ t.st = a.st /\ t.iss = a.iss /\ t.snd_una = a.snd_una
      /\ t.snd_nxt = a.snd_nxt /\ t.snd_max = a.snd_max /\ t.qEnd = a.qEnd
      /\ t.send_fin = a.send_fin /\ t.snd_fin_seq = a.snd_fin_seq
      /\ t.timers = a.timers /\ t.failed = a.failed
      /\ t.rcv_nxt = a.rcv_nxt /\ t.fin_rcvd = a.fin_rcvd
      /\ FinsSent(a) => FinsSent(t)
  BY DEF Ignores, Keeps
<1>2. OnlySyn(a) => OnlySyn(t)
  BY <1>1 DEF OnlySyn
<1>3. Timed(a) => Timed(t)
  BY <1>1 DEF Timed
<1>4. InOrder(t, x)
  <2>1. SameNumbers(a, t)
    BY DEF Ignores, Keeps, SameNumbers
  <2>2. InOrder(a, x)
    BY DEF Moves
  <2> QED
    BY <2>1, <2>2, SameInOrder
<1> QED
  BY <1>1, <1>2, <1>3, <1>4, ZenonT(60) DEF Moves

LEMMA MovesThenEnqueues ==
  ASSUME NEW s, NEW a, NEW n \in Nat, NEW t, NEW x, NEW ends, Moves(s, a, x, ends), Enqueues(a, n, t),
         ~ a.send_fin, Fits => Written(a) + n + 2 < SeqMod \div 2
  PROVE  Moves(s, t, x, ends)
<1>1. /\ t \in Block /\ t.st = a.st /\ t.iss = a.iss /\ t.snd_una = a.snd_una
      /\ t.snd_nxt = a.snd_nxt /\ t.snd_max = a.snd_max
      /\ t.send_fin = a.send_fin /\ t.snd_fin_seq = a.snd_fin_seq
      /\ t.timers = a.timers /\ t.failed = a.failed
      /\ t.rcv_nxt = a.rcv_nxt /\ t.fin_rcvd = a.fin_rcvd
      /\ FinsSent(a) => FinsSent(t)
  BY DEF Enqueues
<1>2. OnlySyn(a) => OnlySyn(t)
  BY <1>1 DEF OnlySyn
<1>3. Timed(a) => Timed(t)
  BY <1>1 DEF Timed
<1>4. InOrder(t, x)
  <2>1. SUFFICES ASSUME Fits, x \in Live
                 PROVE  Order(t)
    BY DEF InOrder
  <2>2. a \in Block /\ Order(a)
    BY <2>1 DEF Moves, InOrder
  <2> QED
    BY <2>1, <2>2, EnqueuesOrder
<1> QED
  BY <1>1, <1>2, <1>3, <1>4 DEF Moves

\* Segments are sent; if new ones, with the timer.
LEMMA MovesThenSends ==
  ASSUME NEW s, NEW a, NEW t, NEW x, NEW ends, Moves(s, a, x, ends), Sends(a, t),
         x \in Synchronized, t.snd_max = a.snd_max \/ SentMore(a, t),
         (t.snd_max = a.snd_max /\ a.timers \subseteq t.timers) \/ "REXMIT" \in t.timers
  PROVE  Moves(s, t, x, ends)
<1>1. /\ t \in Block /\ t.st = a.st /\ t.iss = a.iss /\ t.snd_una = a.snd_una
      /\ t.qEnd = a.qEnd /\ t.send_fin = a.send_fin /\ t.snd_fin_seq = a.snd_fin_seq
      /\ t.timers \ {"REXMIT"} = a.timers \ {"REXMIT"}
      /\ t.failed \in {a.failed, "createSegmentWithBytes"}
      /\ t.rcv_nxt = a.rcv_nxt /\ t.fin_rcvd = a.fin_rcvd
      /\ FinsSent(a) => FinsSent(t)
  BY DEF Sends
<1>2. x \notin Handshake /\ x \notin {"INIT", "LISTEN", "CLOSED"}
  BY DEF Synchronized, Handshake
<1>3. Timed(a) => Timed(t)
  BY <1>1 DEF Timed
<1>4. /\ "CONN_ESTAB" \in t.timers <=> "CONN_ESTAB" \in a.timers
      /\ "SYN_REXMIT" \in t.timers <=> "SYN_REXMIT" \in a.timers
      /\ "2MSL" \in t.timers <=> "2MSL" \in a.timers
  BY <1>1
<1>5. InOrder(t, x)
  <2>1. SUFFICES ASSUME Fits, x \in Live
                 PROVE  Order(t)
    BY DEF InOrder
  <2>2. a \in Block /\ Order(a)
    BY <2>1 DEF Moves, InOrder
  <2>3. CASE t.snd_max = a.snd_max
    <3>1. SameNumbers(a, t)
      BY <2>3 DEF Sends, SameNumbers
    <3> QED
      BY <2>2, <3>1, SameOrder
  <2>4. CASE SentMore(a, t)
    BY <2>2, <2>4, SentMoreOrder
  <2> QED
    BY <2>3, <2>4
<1> QED
  BY <1>1, <1>2, <1>3, <1>4, <1>5 DEF Moves

LEMMA MovesThenPushes ==
  ASSUME NEW s, NEW a, NEW t, NEW x, NEW ends, Moves(s, a, x, ends), Pushes(a, t),
         x \in Synchronized
  PROVE  Moves(s, t, x, ends)
<1>1. /\ Sends(a, t)
      /\ (t.snd_max = a.snd_max /\ a.timers \subseteq t.timers) \/ "REXMIT" \in t.timers
      /\ t.snd_max = a.snd_max \/ SentMore(a, t)
  BY DEF Pushes
<1> QED
  BY <1>1, MovesThenSends

\* A timer that expired is no longer scheduled.
LEMMA MovesThenCancels ==
  ASSUME NEW s, NEW a, NEW ts, NEW t, NEW x, NEW ends, Moves(s, a, x, ends), Cancels(a, ts, t),
         "REXMIT" \notin ts
  PROVE  Moves(s, t, x, ends)
<1>1. /\ t \in Block /\ t.st = a.st /\ t.iss = a.iss /\ t.snd_una = a.snd_una
      /\ t.snd_nxt = a.snd_nxt /\ t.snd_max = a.snd_max /\ t.qEnd = a.qEnd
      /\ t.send_fin = a.send_fin /\ t.snd_fin_seq = a.snd_fin_seq
      /\ t.timers = a.timers \ ts /\ t.failed = a.failed
      /\ t.rcv_nxt = a.rcv_nxt /\ t.fin_rcvd = a.fin_rcvd /\ t.out = a.out
  BY DEF Cancels
<1>2. OnlySyn(a) => OnlySyn(t)
  BY <1>1 DEF OnlySyn
<1>3. Timed(a) => Timed(t)
  BY <1>1 DEF Timed
<1>4. FinsSent(a) => FinsSent(t)
  BY <1>1 DEF FinsSent, EndsStream
<1>5. InOrder(t, x)
  <2>1. SameNumbers(a, t)
    BY DEF Cancels, SameNumbers
  <2>2. InOrder(a, x)
    BY DEF Moves
  <2> QED
    BY <2>1, <2>2, SameInOrder
<1> QED
  BY <1>1, <1>2, <1>3, <1>4, <1>5, ZenonT(60) DEF Moves


-----------------------------------------------------------------------------
(* What each handler moves. *)

LEMMA DiscardsMoves ==
  ASSUME NEW s, AtRest(s), Sound(s), s.st = "SYN_RCVD", NEW t, Discards(s, t),
         NEW x \in {"LISTEN", "CLOSED"}
  PROVE  Moves(s, t, x, {})
<1>1. s \in Block /\ s.failed = "no" /\ FinsSent(s)
  BY DEF AtRest, FinsSent
<1>2. /\ "REXMIT" \notin s.timers /\ "2MSL" \notin s.timers /\ ~ s.send_fin
  BY DEF Sound, OnlySyn, Handshake, Synchronized
<1>3. /\ t \in Block /\ t.st = s.st /\ t.timers = s.timers
      /\ t.send_fin = s.send_fin /\ t.failed \in {s.failed, "discardUpTo"}
      /\ FinsSent(t)
      /\ seqLE(s.qBegin, s.qEnd) /\ seqLE(s.qEnd, s.qEnd) => t.failed = s.failed
  BY <1>1 DEF Discards
<1>4. x \notin Handshake /\ x \notin Synchronized /\ x # "CLOSING"
  BY DEF Handshake, Synchronized
<1>5. Fits => t.failed # "discardUpTo"
  <2>1. Fits => Order(s)
    BY DEF Sound, InOrder, Live, Handshake
  <2> QED
    BY <1>1, <1>3, <2>1, OrderQueue
<1>6. InOrder(t, x)
  BY <1>4 DEF InOrder, Live
<1> QED
  BY <1>1, <1>2, <1>3, <1>4, <1>5, <1>6 DEF Moves

LEMMA BeginsMoves ==
  ASSUME NEW s, AtRest(s), Sound(s), s.st \in {"INIT", "LISTEN"}, NEW n \in SeqNo, NEW t,
         Begins(s, n, t), NEW x \in Handshake
  PROVE  Moves(s, t, x, {}) /\ ~ t.send_fin /\ (Fits => Written(t) = 0)
<1>1. s \in Block /\ s.failed = "no" /\ FinsSent(s)
  BY DEF AtRest, FinsSent
<1>2. s.st \notin Handshake /\ s.st \notin Synchronized /\ s.st # "TIME_WAIT" /\ s.st # "CLOSING"
  BY DEF Handshake, Synchronized
<1>3. "CONN_ESTAB" \notin s.timers /\ "REXMIT" \notin s.timers /\ "2MSL" \notin s.timers
      /\ ~ s.send_fin
  BY <1>2 DEF Sound
<1>4. /\ t \in Block /\ t.st = s.st /\ t.timers = s.timers \cup {"CONN_ESTAB", "SYN_REXMIT"}
      /\ t.send_fin = s.send_fin /\ t.failed = "no" /\ FinsSent(t)
      /\ t.iss = n /\ t.snd_una = n /\ t.snd_nxt = Plus(n, 1) /\ t.snd_max = Plus(n, 1)
  BY <1>1, <1>3 DEF Begins
<1>5. OnlySyn(t)
  BY <1>3, <1>4 DEF OnlySyn
<1>6. "REXMIT" \notin t.timers /\ "2MSL" \notin t.timers
  BY <1>3, <1>4
<1>7. x \notin Synchronized /\ x \notin {"INIT", "LISTEN", "CLOSED", "CLOSING"}
  BY DEF Handshake, Synchronized
<1>8. Fits => Order(t) /\ Written(t) = 0
  BY <1>3, <1>4, BeginsOrder
<1>9. InOrder(t, x) /\ (Fits => Written(t) = 0)
  BY <1>8 DEF InOrder
<1> QED
  BY <1>1, <1>2, <1>3, <1>4, <1>5, <1>6, <1>7, <1>9 DEF Moves

LEMMA RepeatsMoves ==
  ASSUME NEW s, Moves(s, s, s.st, {}), s.st \in Handshake, OnlySyn(s), s.failed = "no",
         NEW t, Repeats(s, t), NEW x \in Handshake
  PROVE  Moves(s, t, x, {})
<1>1. s.st \notin Synchronized /\ s.st \notin {"INIT", "LISTEN", "CLOSED", "CLOSING", "TIME_WAIT"}
      /\ x \notin Synchronized /\ x \notin {"INIT", "LISTEN", "CLOSED", "CLOSING", "TIME_WAIT"}
  BY DEF Handshake, Synchronized
<1>2. /\ t \in Block /\ t.st = s.st /\ t.iss = s.iss /\ t.snd_una = s.snd_una
      /\ t.snd_nxt = Plus(s.iss, 1) /\ t.snd_max = Plus(s.iss, 1)
      /\ t.send_fin = s.send_fin /\ t.timers = s.timers \cup {"SYN_REXMIT"} /\ t.failed = s.failed
      /\ FinsSent(s) => FinsSent(t)
  BY DEF Repeats
<1>3. OnlySyn(t)
  BY <1>2 DEF OnlySyn
<1>4. ~ s.send_fin
  BY DEF OnlySyn
<1>5. "REXMIT" \notin s.timers /\ "2MSL" \notin s.timers /\ FinsSent(s)
  BY <1>1 DEF Moves
<1>6. "REXMIT" \notin t.timers /\ "2MSL" \notin t.timers
  BY <1>2, <1>5
<1>7. InOrder(t, x)
  <2>1. SameNumbers(s, t)
    BY DEF Repeats, OnlySyn, SameNumbers
  <2>2. InOrder(s, x)
    BY DEF Moves, InOrder, Live
  <2> QED
    BY <2>1, <2>2, SameInOrder
<1> QED
  BY <1>1, <1>2, <1>3, <1>4, <1>5, <1>6, <1>7 DEF Moves

\* What a SYN_SENT connection accepts acknowledges its SYN.
LEMMA OnlySynAcked ==
  ASSUME NEW s \in Block, OnlySyn(s), NEW seg \in TCPSegment, seg.ack, ~ BadAck(s, seg)
  PROVE  seg.ackNo = Plus(s.iss, 1)
<1>1. PICK i \in SeqNo : i = s.iss
  BY NumbersIn
<1>2. PICK a \in SeqNo : a = seg.ackNo
  BY Segments
<1>3. PICK d \in SeqNo : d = Dist(i, a)
  BY DistType
<1>4. Plus(i, d) = a
  BY <1>3, PlusDist
<1>5. /\ ~ seqLE(a, i)
      /\ ~ seqLess(Plus(i, 1), a)
  BY <1>1, <1>2 DEF BadAck, OnlySyn
<1>6. 0 \in SeqNo /\ 1 \in SeqNo
  BY Windows DEF SeqNo
<1>7. Plus(i, 0) = i
  BY Mod, Windows DEF Plus, SeqNo
<1>8. PICK e : e = Dist(a, i)
  OBVIOUS
<1>9. (0 <= d => Dist(Plus(i, 0), Plus(i, d)) = d - 0) /\ (d <= 0 => e = 0 - d)
      /\ (0 < d => e = 0 - d + SeqMod)
  BY <1>4, <1>6, <1>7, <1>8, DistFrom
<1>10. ~ e < SeqMod \div 2
  BY <1>5, <1>8 DEF seqLE
<1>11. d # 0 /\ d <= SeqMod \div 2
  BY <1>9, <1>10, Windows DEF SeqNo
<1>12. PICK f : f = Dist(Plus(i, 1), a)
  OBVIOUS
<1>13. 1 <= d => f = d - 1
  BY <1>4, <1>6, <1>12, DistFrom
<1>14. Plus(i, 1) = a \/ ~ f < SeqMod \div 2
  BY <1>5, <1>12 DEF seqLess, seqLE
<1>15. CASE Plus(i, 1) = a
  BY <1>1, <1>2, <1>15
<1>16. CASE ~ f < SeqMod \div 2
  BY <1>11, <1>13, <1>16, Windows DEF SeqNo
<1> QED
  BY <1>14, <1>15, <1>16

LEMMA ConnectsMoves ==
  ASSUME NEW s, AtRest(s), Sound(s), s.st = "SYN_SENT", NEW r, Connects(s, Plus(s.iss, 1), r)
  PROVE  Moves(s, r, "ESTABLISHED", {})
<1>1. s \in Block /\ s.failed = "no" /\ FinsSent(s)
  BY DEF AtRest, FinsSent
<1>2. "REXMIT" \notin s.timers /\ "2MSL" \notin s.timers /\ ~ s.send_fin /\ OnlySyn(s)
  BY DEF Sound, OnlySyn, Handshake, Synchronized
<1>3. /\ r \in Block /\ r.st = s.st /\ r.timers = s.timers /\ r.send_fin = s.send_fin
      /\ r.failed \in {"no", "discardUpTo"} /\ FinsSent(r)
      /\ r.snd_una = Plus(s.iss, 1) /\ r.snd_max = s.snd_max
  BY <1>1 DEF Connects
<1>4. Timed(r)
  BY <1>2, <1>3 DEF Timed, OnlySyn
<1>5. "ESTABLISHED" \in Synchronized
  BY DEF Synchronized
<1>6. InOrder(r, "ESTABLISHED") /\ (Fits => r.failed # "discardUpTo")
  <2>1. Fits => Order(s)
    BY DEF Sound, InOrder, Live, Handshake
  <2>2. Fits => Order(r) /\ r.failed = "no"
    BY <1>1, <1>2, <2>1, ConnectsOrder
  <2> QED
    BY <2>2 DEF InOrder
<1> QED
  BY <1>1, <1>2, <1>3, <1>4, <1>5, <1>6 DEF Moves, Handshake

LEMMA EndsMoves ==
  ASSUME NEW s, AtRest(s), Sound(s), ~ s.send_fin,
         s.st \in {"SYN_RCVD", "ESTABLISHED", "CLOSE_WAIT"}, NEW t, Ends(s, t),
         NEW x \in {"FIN_WAIT_1", "LAST_ACK", s.st}, x \in Synchronized
  PROVE  Moves(s, t, x, {})
<1>1. s \in Block /\ s.failed = "no" /\ FinsSent(s)
  BY DEF AtRest, FinsSent
<1>2. "2MSL" \notin s.timers
  BY DEF Sound
<1>3. /\ t \in Block /\ t.st = s.st /\ t.timers = s.timers /\ t.send_fin
      /\ t.snd_fin_seq = s.qEnd /\ t.qEnd = s.qEnd /\ t.iss = s.iss /\ t.snd_una = s.snd_una
      /\ t.snd_max = IF s.snd_max = s.qEnd THEN Plus(s.snd_max, 1) ELSE s.snd_max
      /\ t.failed = "no" /\ FinsSent(t)
  BY <1>1 DEF Ends
<1>4. s.snd_una = s.iss \/ Timed(s)
  BY DEF Sound, OnlySyn, Handshake, Synchronized
<1>5. Timed(t)
  BY <1>3, <1>4 DEF Timed
<1>6. "CONN_ESTAB" \in s.timers \/ "SYN_REXMIT" \in s.timers => s.st \notin Synchronized
  BY DEF Sound, Handshake, Synchronized
<1>7. x \notin Handshake /\ x \notin {"INIT", "LISTEN", "CLOSED"} /\ x # "CLOSING"
  BY DEF Handshake, Synchronized
<1>8. s.st # "CLOSED"
  OBVIOUS
<1>9. InOrder(t, x)
  <2>1. Fits => Order(s)
    BY DEF Sound, InOrder, Live, Handshake, Synchronized
  <2> QED
    BY <1>1, <2>1, EndsOrder DEF InOrder
<1> QED
  BY <1>1, <1>2, <1>3, <1>5, <1>6, <1>7, <1>8, <1>9 DEF Moves

\* The retransmission timer expired.
LEMMA RetransmitsMoves ==
  ASSUME NEW s, Moves(s, s, s.st, {}), s.st \in Synchronized, Timed(s), s.failed = "no",
         "REXMIT" \in s.timers, NEW f, Cancels(s, {"REXMIT"}, f), NEW t,
         NEW x, \/ Ignores(f, t) /\ x = "CLOSED"
                \/ Sends(f, t) /\ t.snd_max = f.snd_max /\ t.timers = f.timers \cup {"REXMIT"} /\ x = s.st
  PROVE  Moves(s, t, x, {})
<1>1. /\ f \in Block /\ f.st = s.st /\ f.iss = s.iss /\ f.snd_una = s.snd_una
      /\ f.snd_max = s.snd_max /\ f.qEnd = s.qEnd
      /\ f.send_fin = s.send_fin /\ f.snd_fin_seq = s.snd_fin_seq
      /\ f.timers = s.timers \ {"REXMIT"} /\ f.failed = s.failed
      /\ f.rcv_nxt = s.rcv_nxt /\ f.fin_rcvd = s.fin_rcvd /\ f.out = s.out
  BY DEF Cancels
<1>2. FinsSent(s)
  BY DEF Moves
<1>3. FinsSent(f)
  BY <1>1, <1>2 DEF FinsSent, EndsStream
<1>4. CASE Ignores(f, t) /\ x = "CLOSED"
  <2>1. /\ t \in Block /\ t.st = f.st /\ t.send_fin = f.send_fin /\ t.snd_fin_seq = f.snd_fin_seq
        /\ t.qEnd = f.qEnd /\ t.failed = f.failed /\ FinsSent(t)
    BY <1>3, <1>4 DEF Ignores, Keeps
  <2>2. s.st # "CLOSED" /\ (s.send_fin => s.snd_fin_seq = s.qEnd)
    BY DEF Moves
  <2>3. InOrder(t, x)
    BY <1>4 DEF InOrder, Live, Handshake, Synchronized
  <2> QED
    BY <1>1, <1>4, <2>1, <2>2, <2>3 DEF Moves, Handshake, Synchronized
<1>5. CASE Sends(f, t) /\ t.snd_max = f.snd_max /\ t.timers = f.timers \cup {"REXMIT"} /\ x = s.st
  <2>1. /\ t \in Block /\ t.st = f.st /\ t.iss = f.iss /\ t.snd_una = f.snd_una
        /\ t.qEnd = f.qEnd /\ t.send_fin = f.send_fin /\ t.snd_fin_seq = f.snd_fin_seq
        /\ t.failed \in {f.failed, "createSegmentWithBytes"}
        /\ t.rcv_nxt = f.rcv_nxt /\ t.fin_rcvd = f.fin_rcvd
        /\ FinsSent(f) => FinsSent(t)
    BY <1>5 DEF Sends
  <2>2. t.timers = s.timers
    BY <1>1, <1>5
  <2>3. Timed(t)
    BY <1>1, <1>5, <2>1, <2>2 DEF Timed
  <2>4. x \notin Handshake
    BY <1>5 DEF Handshake, Synchronized
  <2>5. InOrder(t, x)
    <3>1. SameNumbers(s, t)
      BY <1>5 DEF Cancels, Sends, SameNumbers
    <3>2. InOrder(s, x)
      BY <1>5 DEF Moves
    <3> QED
      BY <3>1, <3>2, SameInOrder
  <2> QED
    BY <1>1, <1>3, <1>5, <2>1, <2>2, <2>3, <2>4, <2>5, ZenonT(60) DEF Moves
<1> QED
  BY <1>4, <1>5


\* Where a segment that is processed takes the state machine
LEMMA ProcessedNext ==
  ASSUME NEW s, s.ev \in {"IGNORE", "RCV_ACK", "RCV_FIN", "RCV_FIN_ACK", "CLOSE"}
  PROVE  /\ s.st = "TIME_WAIT" => nextState(s) = "TIME_WAIT"
         /\ s.st = "CLOSING" => nextState(s) \in {"CLOSING", "TIME_WAIT"}
         /\ s.st = "CLOSING" /\ s.ev = "RCV_ACK" => nextState(s) = "TIME_WAIT"
         /\ s.st = "FIN_WAIT_1" /\ s.ev = "RCV_FIN_ACK" => nextState(s) = "TIME_WAIT"
         /\ s.st = "FIN_WAIT_2" /\ s.ev = "RCV_FIN" => nextState(s) = "TIME_WAIT"
         /\ s.st = "SYN_RCVD" /\ s.ev \in {"RCV_ACK", "RCV_FIN"}
              => nextState(s) \in {"ESTABLISHED", "CLOSE_WAIT"}
<1>1. ~ Resets(s)
  BY DEF Resets
<1>2. \/ nextState(s) = s.st /\ \A t \in Transition : ~ (t[1] = s.st /\ t[2] = s.ev)
      \/ \E t \in Transition : t[1] = s.st /\ t[2] = s.ev /\ nextState(s) = t[3]
  BY <1>1, nextStateIs
<1>3. s.st = "TIME_WAIT" => nextState(s) = "TIME_WAIT"
  BY <1>2, SMTT(60) DEF Transition
<1>4. s.st = "CLOSING" => nextState(s) \in {"CLOSING", "TIME_WAIT"}
  BY <1>2, SMTT(60) DEF Transition
<1>5. s.st = "CLOSING" /\ s.ev = "RCV_ACK" => nextState(s) = "TIME_WAIT"
  <2>1. <<"CLOSING", "RCV_ACK", "TIME_WAIT">> \in Transition
    BY DEF Transition
  <2> QED
    BY <1>2, <2>1, SMTT(60) DEF Transition
<1>6. s.st = "FIN_WAIT_1" /\ s.ev = "RCV_FIN_ACK" => nextState(s) = "TIME_WAIT"
  <2>1. <<"FIN_WAIT_1", "RCV_FIN_ACK", "TIME_WAIT">> \in Transition
    BY DEF Transition
  <2> QED
    BY <1>2, <2>1, SMTT(60) DEF Transition
<1>7. s.st = "FIN_WAIT_2" /\ s.ev = "RCV_FIN" => nextState(s) = "TIME_WAIT"
  <2>1. <<"FIN_WAIT_2", "RCV_FIN", "TIME_WAIT">> \in Transition
    BY DEF Transition
  <2> QED
    BY <1>2, <2>1, SMTT(60) DEF Transition
<1>8. s.st = "SYN_RCVD" /\ s.ev \in {"RCV_ACK", "RCV_FIN"}
        => nextState(s) \in {"ESTABLISHED", "CLOSE_WAIT"}
  <2>1. /\ <<"SYN_RCVD", "RCV_ACK", "ESTABLISHED">> \in Transition
        /\ <<"SYN_RCVD", "RCV_FIN", "CLOSE_WAIT">> \in Transition
    BY DEF Transition
  <2> QED
    BY <1>2, <2>1, SMTT(60) DEF Transition
<1> QED
  BY <1>3, <1>4, <1>5, <1>6, <1>7, <1>8

LEMMA AcknowledgesTimed ==
  ASSUME NEW s \in Block, NEW seg, NEW t, Acknowledges(s, seg, t), Timed(s)
  PROVE  Timed(t)
<1>1. CASE Sends(s, t) /\ t.snd_max = s.snd_max /\ s.timers \subseteq t.timers
  BY <1>1 DEF Sends, Timed
<1>2. ASSUME NEW r, Acks(s, seg.ackNo, r), Answers(r, t)
      PROVE  Timed(t)
  <2>1. Sends(r, t)
    BY <1>2 DEF Answers
  <2>2. t.snd_una = r.snd_una
    BY <2>1 DEF Sends
  <2>3. (t.snd_max = r.snd_max /\ (r.snd_una # r.snd_max => "REXMIT" \in t.timers))
           \/ "REXMIT" \in t.timers
    BY <1>2 DEF Answers
  <2> QED
    BY <2>2, <2>3 DEF Timed
<1> QED
  BY <1>1, <1>2 DEF Acknowledges

LEMMA ProcessesMoves ==
  ASSUME NEW s, AtRest(s), Sound(s), s.st \in Synchronized \cup {"SYN_RCVD"},
         NEW seg \in TCPSegment, NEW t, Processes(s, seg, t), Closes(s, seg, t),
         s.st = "SYN_RCVD" => t.ev \in {"RCV_ACK", "RCV_FIN"},
         s.st = "CLOSING" /\ seg.fin => s.fin_rcvd
  PROVE  Moves(s, t, nextState(t), FinOf(seg))
<1>1. s \in Block /\ s.failed = "no" /\ FinsSent(s)
  BY DEF AtRest, FinsSent
<1>2. PICK g, h : Keeps(s, g) /\ g.timers = s.timers /\ g.failed = s.failed
                  /\ Acknowledges(g, seg, h) /\ Keeps(h, t)
  BY DEF Processes
<1>3. /\ g \in Block /\ g.st = s.st /\ g.iss = s.iss /\ g.snd_una = s.snd_una
      /\ g.snd_max = s.snd_max /\ g.send_fin = s.send_fin /\ g.snd_fin_seq = s.snd_fin_seq
      /\ g.qEnd = s.qEnd /\ (s.fin_rcvd => g.fin_rcvd) /\ FinsSent(g)
  BY <1>1, <1>2 DEF Keeps
<1>4. /\ h \in Block /\ h.st = g.st /\ h.send_fin = g.send_fin /\ h.snd_fin_seq = g.snd_fin_seq
      /\ h.timers \ {"REXMIT"} = g.timers \ {"REXMIT"}
      /\ h.failed \in {g.failed, "createSegmentWithBytes", "discardUpTo"}
      /\ FinsSent(g) => FinsSent(h)
  BY <1>2, <1>3, AcknowledgesKeeps
<1>5. h.qEnd = g.qEnd
  <2>1. CASE Sends(g, h)
    BY <2>1 DEF Sends
  <2>2. ASSUME NEW r, Acks(g, seg.ackNo, r), Answers(r, h)
        PROVE  h.qEnd = g.qEnd
    BY <2>2 DEF Acks, Answers, Sends
  <2> QED
    BY <1>2, <2>1, <2>2 DEF Acknowledges
<1>6. /\ t \in Block /\ t.st = h.st /\ t.iss = h.iss /\ t.snd_una = h.snd_una
      /\ t.snd_max = h.snd_max /\ t.send_fin = h.send_fin /\ t.snd_fin_seq = h.snd_fin_seq
      /\ t.qEnd = h.qEnd /\ (h.fin_rcvd => t.fin_rcvd)
      /\ t.timers \ {"2MSL"} = h.timers \ {"2MSL"}
      /\ t.failed \in {h.failed, "extractTo", "already scheduled"}
      /\ FinsSent(h) => FinsSent(t)
  BY <1>2 DEF Keeps
<1>7. PICK x : x = nextState(t)
  OBVIOUS
<1>8. t.ev \in {"IGNORE", "RCV_ACK", "RCV_FIN", "RCV_FIN_ACK", "CLOSE"}
  BY DEF Closes
<1>9. /\ t.st = "TIME_WAIT" => x = "TIME_WAIT"
      /\ t.st = "CLOSING" => x \in {"CLOSING", "TIME_WAIT"}
      /\ t.st = "CLOSING" /\ t.ev = "RCV_ACK" => x = "TIME_WAIT"
      /\ t.st = "FIN_WAIT_1" /\ t.ev = "RCV_FIN_ACK" => x = "TIME_WAIT"
      /\ t.st = "FIN_WAIT_2" /\ t.ev = "RCV_FIN" => x = "TIME_WAIT"
      /\ t.st = "SYN_RCVD" /\ t.ev \in {"RCV_ACK", "RCV_FIN"} => x \in {"ESTABLISHED", "CLOSE_WAIT"}
  BY <1>7, <1>8, ProcessedNext
<1>10. t.st = s.st
  BY <1>3, <1>4, <1>6
<1>11. x \in Synchronized \cup {"CLOSED"}
  <2>1. t.st \in Synchronized => x \in Synchronized \cup {"CLOSED"}
    BY <1>7, SynchronizedNext
  <2> QED
    BY <1>9, <1>10, <2>1 DEF Synchronized
<1>12. Timed(s)
  BY DEF Sound, Timed, OnlySyn, Handshake
<1>13. Timed(t)
  <2>1. Timed(g)
    BY <1>2, <1>3, <1>12 DEF Timed
  <2>2. Timed(h)
    BY <1>2, <1>3, <2>1, AcknowledgesTimed
  <2>3. "REXMIT" \in t.timers <=> "REXMIT" \in h.timers
    BY <1>6
  <2> QED
    BY <1>6, <2>2, <2>3 DEF Timed
<1>14. "CONN_ESTAB" \in t.timers \/ "SYN_REXMIT" \in t.timers => x # s.st
  <2>1. /\ "CONN_ESTAB" \in t.timers <=> "CONN_ESTAB" \in s.timers
        /\ "SYN_REXMIT" \in t.timers <=> "SYN_REXMIT" \in s.timers
    BY <1>2, <1>4, <1>6
  <2>2. "CONN_ESTAB" \in t.timers \/ "SYN_REXMIT" \in t.timers => s.st \in Handshake
    BY <2>1 DEF Sound
  <2> QED
    BY <1>11, <2>2 DEF Handshake, Synchronized
<1>15. s.fin_rcvd => t.fin_rcvd
  BY DEF Closes
<1>16. "2MSL" \in t.timers => x = "TIME_WAIT" \/ (x = "CLOSING" /\ t.fin_rcvd)
  <2>1. SUFFICES ASSUME "2MSL" \in t.timers
                 PROVE  x = "TIME_WAIT" \/ (x = "CLOSING" /\ t.fin_rcvd)
    OBVIOUS
  <2>2. \/ "2MSL" \in s.timers
        \/ s.st = "FIN_WAIT_1" /\ t.ev = "RCV_FIN_ACK"
        \/ s.st = "FIN_WAIT_2" /\ t.ev = "RCV_FIN"
        \/ s.st = "CLOSING" /\ (t.ev = "RCV_ACK" \/ seg.fin)
        \/ s.st = "TIME_WAIT"
    BY <2>1 DEF Closes
  <2>3. "2MSL" \in s.timers => s.st = "TIME_WAIT" \/ (s.st = "CLOSING" /\ s.fin_rcvd)
    BY DEF Sound
  <2> QED
    BY <1>9, <1>10, <1>15, <2>2, <2>3
<1>17. t.failed \in {"already scheduled", "internal error"} => t.fin_rcvd /\ x # "CLOSED"
  <2>1. SUFFICES ASSUME t.failed \in {"already scheduled", "internal error"}
                 PROVE  t.fin_rcvd /\ x # "CLOSED"
    OBVIOUS
  <2>2. t.failed = "already scheduled"
    BY <1>1, <1>2, <1>4, <1>6, <2>1
  <2>3. "2MSL" \in s.timers /\ s.st \in {"FIN_WAIT_1", "FIN_WAIT_2", "CLOSING"}
    BY <2>2 DEF Closes
  <2>4. s.st = "CLOSING" /\ s.fin_rcvd
    BY <2>3 DEF Sound
  <2> QED
    BY <1>9, <1>10, <1>15, <2>4
<1>18. x = "CLOSING" /\ ~ t.fin_rcvd =>
         (s.st = "CLOSING" /\ ~ s.fin_rcvd /\ t.rcv_nxt = s.rcv_nxt) \/ t.rcv_nxt \in FinOf(seg)
  <2>1. SUFFICES ASSUME x = "CLOSING", ~ t.fin_rcvd
                 PROVE  (s.st = "CLOSING" /\ ~ s.fin_rcvd /\ t.rcv_nxt = s.rcv_nxt)
                          \/ t.rcv_nxt \in FinOf(seg)
    OBVIOUS
  <2>2. s.st = "CLOSING" \/ (s.st = "FIN_WAIT_1" /\ t.ev = "RCV_FIN")
    BY <1>7, <1>10, <2>1, ClosingNext
  <2>3. CASE s.st = "CLOSING"
    <3>1. ~ seg.fin
      BY <1>15, <2>1, <2>3
    <3> QED
      BY <1>15, <2>1, <2>3, <3>1 DEF Closes
  <2>4. CASE s.st = "FIN_WAIT_1" /\ t.ev = "RCV_FIN"
    BY <2>1, <2>4 DEF Closes, FinOf
  <2> QED
    BY <2>2, <2>3, <2>4
<1>19. FinsSent(t)
  BY <1>3, <1>4, <1>6
<1>20. t.send_fin = s.send_fin /\ t.snd_fin_seq = s.snd_fin_seq /\ t.qEnd = s.qEnd
  BY <1>3, <1>4, <1>5, <1>6
<1>21. x \notin Handshake /\ x \notin {"INIT", "LISTEN"}
  BY <1>11 DEF Handshake, Synchronized
<1>22. s.st # "CLOSED" /\ (s.send_fin => s.snd_fin_seq = s.qEnd)
  BY DEF Sound, Synchronized
<1>23. InOrder(t, x) /\ (Fits => t.failed # "discardUpTo")
  <2>1. SUFFICES ASSUME Fits
                 PROVE  Order(t) /\ t.failed # "discardUpTo"
    BY DEF InOrder
  <2>2. Order(s)
    BY <2>1 DEF Sound, InOrder, Live, Handshake
  <2>3. SameNumbers(s, g)
    BY <1>2 DEF Keeps, SameNumbers
  <2>4. Order(h) /\ h.failed # "discardUpTo"
    BY <1>1, <1>2, <1>3, <2>2, <2>3, SameOrder, AcknowledgesOrder
  <2>5. SameNumbers(h, t)
    BY <1>2 DEF Keeps, SameNumbers
  <2> QED
    BY <1>6, <2>4, <2>5, SameOrder
<1>24. Moves(s, t, x, FinOf(seg))
  BY <1>6, <1>10, <1>11, <1>13, <1>14, <1>16, <1>17, <1>18, <1>19, <1>20, <1>21, <1>22, <1>23 DEF Moves
<1> QED
  BY <1>7, <1>24


LEMMA MovesMore ==
  ASSUME NEW s, NEW t, NEW x, Moves(s, t, x, {}), NEW ends
  PROVE  Moves(s, t, x, ends)
BY DEF Moves

LEMMA MovesEnters ==
  ASSUME NEW s, NEW t, NEW ends, Moves(s, t, nextState(t), ends)
  PROVE  Steps(s, stateEntered(t, nextState(t)), ends)
<1>1. PICK x : x = nextState(t)
  OBVIOUS
<1>2. Moves(s, t, x, ends)
  BY <1>1
<1>3. t \in Block
  BY <1>2 DEF Moves
<1>4. x \in State
  BY <1>1, <1>3, nextStateType
<1>5. PICK p : p = stateEntered(t, x)
  OBVIOUS
<1>6. Enters(t, x, p)
  BY <1>3, <1>4, <1>5, stateEnteredEnters
<1>7. Steps(s, p, ends)
  BY <1>2, <1>6, MovesSteps
<1> QED
  BY <1>1, <1>5, <1>7

\* Without an event the state is kept; a reset closes the connection, or takes a passive one
\* back to LISTEN.
LEMMA IgnoredNext ==
  ASSUME NEW s
  PROVE  /\ s.ev = "IGNORE" => nextState(s) = s.st
         /\ s.ev = "RCV_RST" => nextState(s) \in {s.st, "CLOSED"}
                                  \/ (nextState(s) = "LISTEN" /\ s.st = "SYN_RCVD")
         /\ s.ev = "RCV_UNEXP_SYN" => nextState(s) \in {s.st, "CLOSED"}
         /\ s.ev = "ABORT" => nextState(s) = "CLOSED"
<1>1. CASE Resets(s)
  BY <1>1, nextStateResets DEF Resets
<1>2. CASE ~ Resets(s)
  <2>1. \/ nextState(s) = s.st /\ \A t \in Transition : ~ (t[1] = s.st /\ t[2] = s.ev)
        \/ \E t \in Transition : t[1] = s.st /\ t[2] = s.ev /\ nextState(s) = t[3]
    BY <1>2, nextStateIs
  <2>2. \A t \in Transition : t[2] \notin {"IGNORE", "RCV_UNEXP_SYN", "ABORT"}
                              /\ (t[2] = "RCV_RST" => t[3] = "CLOSED")
    BY SMTT(60) DEF Transition
  <2>3. s.ev # "ABORT"
    BY <1>2 DEF Resets
  <2> QED
    BY <2>1, <2>2, <2>3
<1> QED
  BY <1>1, <1>2

LEMMA HandlesMoves ==
  ASSUME NEW s, AtRest(s), Sound(s), s.st \in Synchronized \cup {"SYN_RCVD"},
         NEW seg \in TCPSegment, NEW t, Handles(s, seg, t),
         s.st = "CLOSING" /\ seg.fin /\ isSegmentAcceptable(s, seg) => s.fin_rcvd
  PROVE  Moves(s, t, nextState(t), FinOf(seg))
<1>1. PICK x : x = nextState(t)
  OBVIOUS
<1>2. s \in Block /\ s.st # "CLOSED"
  BY DEF AtRest, Synchronized
<1>3. CASE Ignores(s, t) /\ t.ev \in {"IGNORE", "RCV_RST", "RCV_UNEXP_SYN"}
  <2>1. t.st = s.st
    BY <1>3 DEF Ignores, Keeps
  <2>2. x \in {s.st, "CLOSED"} \/ (x = "LISTEN" /\ s.st = "SYN_RCVD")
    BY <1>1, <1>3, <2>1, IgnoredNext
  <2>3. Moves(s, s, x, {})
    BY <1>2, <2>2, RestMoves DEF Handshake
  <2>4. Moves(s, t, x, {})
    BY <1>3, <2>3, MovesThenIgnores
  <2>5. Moves(s, t, x, FinOf(seg))
    BY <2>4, MovesMore
  <2> QED
    BY <1>1, <2>5
<1>4. CASE Discards(s, t) /\ s.st = "SYN_RCVD" /\ t.ev = "RCV_RST"
  <2>1. t.st = s.st
    BY <1>4 DEF Discards
  <2>2. Resets(t)
    BY <1>4, <2>1 DEF Resets
  <2>3. x \in {"LISTEN", "CLOSED"}
    BY <1>1, <2>2, nextStateResets
  <2>4. Moves(s, t, x, {})
    BY <1>4, <2>3, DiscardsMoves
  <2>5. Moves(s, t, x, FinOf(seg))
    BY <2>4, MovesMore
  <2> QED
    BY <1>1, <2>5
<1>5. CASE /\ isSegmentAcceptable(s, seg) /\ Processes(s, seg, t) /\ Closes(s, seg, t)
           /\ s.st = "SYN_RCVD" => /\ seqLE(s.snd_una, seg.ackNo) /\ seqLE(seg.ackNo, s.snd_nxt)
                                   /\ ~ seqLess(s.snd_max, seg.ackNo) =>
                                        t.ev \in {"RCV_ACK", "RCV_FIN"}
  <2>1. s.st = "SYN_RCVD" => t.ev \in {"RCV_ACK", "RCV_FIN"}
    <3>1. SUFFICES ASSUME s.st = "SYN_RCVD"
                   PROVE  ~ seqLess(s.snd_max, seg.ackNo)
      BY <1>5
    <3>2. s.snd_nxt = s.snd_max
      BY <3>1 DEF Sound, OnlySyn, Handshake
    <3>3. seqLE(seg.ackNo, s.snd_max)
      BY <1>5, <3>1, <3>2
    <3>4. seg.ackNo \in SeqNo /\ s.snd_max \in SeqNo
      BY <1>2, NumbersIn, Segments
    <3> QED
      BY <3>3, <3>4, OneOrder
  <2> QED
    BY <1>5, <2>1, ProcessesMoves
<1> QED
  BY <1>3, <1>4, <1>5 DEF Handles

\* Segments in LISTEN
LEMMA ListenMoves ==
  ASSUME NEW s, AtRest(s), Sound(s), s.st = "LISTEN", NEW n \in SeqNo, NEW t,
         \/ Ignores(s, t) /\ t.ev = "IGNORE"
         \/ Begins(s, n, t) /\ t.ev = "RCV_SYN"
  PROVE  Moves(s, t, nextState(t), {})
<1>1. PICK x : x = nextState(t)
  OBVIOUS
<1>2. CASE Ignores(s, t) /\ t.ev = "IGNORE"
  <2>1. t.st = s.st
    BY <1>2 DEF Ignores, Keeps
  <2>2. x = s.st
    BY <1>1, <1>2, <2>1, IgnoredNext
  <2>3. Moves(s, s, x, {})
    BY <2>2, RestMoves
  <2>4. Moves(s, t, x, {})
    BY <1>2, <2>3, MovesThenIgnores
  <2> QED
    BY <1>1, <2>4
<1>3. CASE Begins(s, n, t) /\ t.ev = "RCV_SYN"
  <2>1. t.st = "LISTEN"
    BY <1>3 DEF Begins
  <2>2. x = "SYN_RCVD"
    <3>1. ~ Resets(t)
      BY <1>3 DEF Resets
    <3>2. <<"LISTEN", "RCV_SYN", "SYN_RCVD">> \in Transition
      BY DEF Transition
    <3> QED
      BY <1>1, <1>3, <2>1, <3>1, <3>2, nextStateIs, SMTT(60) DEF Transition
  <2>3. Moves(s, t, x, {})
    BY <1>3, <2>2, BeginsMoves DEF Handshake
  <2> QED
    BY <1>1, <2>3
<1> QED
  BY <1>2, <1>3

\* Segments in SYN_SENT
LEMMA SynSentMoves ==
  ASSUME NEW s, AtRest(s), Sound(s), s.st = "SYN_SENT", NEW seg \in TCPSegment, NEW t,
         t = processSegmentInSynSent(s, seg)
  PROVE  Moves(s, t, nextState(t), {})
<1>1. PICK x : x = nextState(t)
  OBVIOUS
<1>2. s \in Block /\ s.ev = "IGNORE" /\ s.failed = "no" /\ OnlySyn(s)
  BY DEF AtRest, Sound, Handshake
<1>3. \/ Ignores(s, t) /\ t.ev \in {"IGNORE", "RCV_RST"}
      \/ \E g : Ignores(g, t) /\ Repeats(s, g) /\ t.ev = "RCV_SYN"
      \/ \E r, u : /\ Connects(s, seg.ackNo, r) /\ Pushes(r, u) /\ Ignores(u, t)
                   /\ t.ev = "RCV_SYN_ACK" /\ seg.ack /\ ~ BadAck(s, seg)
  BY <1>2, processSegmentInSynSentIs
<1>4. CASE Ignores(s, t) /\ t.ev \in {"IGNORE", "RCV_RST"}
  <2>1. t.st = s.st
    BY <1>4 DEF Ignores, Keeps
  <2>2. x \in {s.st, "CLOSED"}
    BY <1>1, <1>4, <2>1, IgnoredNext
  <2>3. Moves(s, s, x, {})
    BY <2>2, RestMoves
  <2>4. Moves(s, t, x, {})
    BY <1>4, <2>3, MovesThenIgnores
  <2> QED
    BY <1>1, <2>4
<1>5. ASSUME NEW g, Ignores(g, t), Repeats(s, g), t.ev = "RCV_SYN"
      PROVE  Moves(s, t, x, {})
  <2>1. t.st = "SYN_SENT"
    BY <1>5 DEF Ignores, Keeps, Repeats
  <2>2. x = "SYN_RCVD"
    <3>1. ~ Resets(t)
      BY <1>5 DEF Resets
    <3>2. <<"SYN_SENT", "RCV_SYN", "SYN_RCVD">> \in Transition
      BY DEF Transition
    <3> QED
      BY <1>1, <1>5, <2>1, <3>1, <3>2, nextStateIs, SMTT(60) DEF Transition
  <2>3. Moves(s, s, s.st, {})
    BY RestMoves
  <2>4. Moves(s, g, x, {})
    BY <1>2, <1>5, <2>2, <2>3, RepeatsMoves DEF Handshake
  <2> QED
    BY <1>5, <2>4, MovesThenIgnores
<1>6. ASSUME NEW r, NEW u, Connects(s, seg.ackNo, r), Pushes(r, u), Ignores(u, t),
             t.ev = "RCV_SYN_ACK", seg.ack, ~ BadAck(s, seg)
      PROVE  Moves(s, t, x, {})
  <2>1. t.st = "SYN_SENT"
    BY <1>6 DEF Ignores, Keeps, Pushes, Sends, Connects
  <2>2. x = "ESTABLISHED"
    <3>1. ~ Resets(t)
      BY <1>6, <2>1 DEF Resets
    <3>2. <<"SYN_SENT", "RCV_SYN_ACK", "ESTABLISHED">> \in Transition
      BY DEF Transition
    <3> QED
      BY <1>1, <1>6, <2>1, <3>1, <3>2, nextStateIs, SMTT(60) DEF Transition
  <2>3. seg.ackNo = Plus(s.iss, 1)
    BY <1>2, <1>6, OnlySynAcked
  <2>4. Connects(s, Plus(s.iss, 1), r)
    BY <1>6, <2>3
  <2>5. Moves(s, r, x, {})
    BY <2>2, <2>4, ConnectsMoves
  <2>6. x \in Synchronized
    BY <2>2 DEF Synchronized
  <2>7. Moves(s, u, x, {})
    BY <1>6, <2>5, <2>6, MovesThenPushes
  <2> QED
    BY <1>6, <2>7, MovesThenIgnores
<1> QED
  BY <1>1, <1>3, <1>4, <1>5, <1>6


-----------------------------------------------------------------------------
(* The inductive invariant. *)

LEMMA Peers ==
  ASSUME NEW e \in End
  PROVE  /\ Peer(e) \in End /\ Peer(e) # e /\ Peer(Peer(e)) = e
         /\ \A f \in End : f = e \/ f = Peer(e)
<1>1. PICK a \in End, b \in End : a # b /\ End = {a, b}
  BY ParamAssumption
<1>2. \A f \in End : Peer(f) \in End /\ Peer(f) # f
  BY <1>1 DEF Peer
<1> QED
  BY <1>1, <1>2

LEMMA AtRestConn ==
  ASSUME TypeInv, NEW e \in End
  PROVE  AtRest(conn[e])
<1>1. conn[e] \in ConnectionBlock /\ conn[e].ssthresh > 0
  BY DEF TypeInv
<1> QED
  BY <1>1, Started

LEMMA SoundStored ==
  ASSUME NEW p \in Block, Sound(p)
  PROVE  Sound(Stored(p))
<1>1. PICK c : c = Stored(p)
  OBVIOUS
<1>2. /\ c.st = p.st /\ c.iss = p.iss /\ c.snd_una = p.snd_una /\ c.snd_nxt = p.snd_nxt
      /\ c.snd_max = p.snd_max /\ c.qBegin = p.qBegin /\ c.qEnd = p.qEnd /\ c.send_fin = p.send_fin
      /\ c.snd_fin_seq = p.snd_fin_seq /\ c.timers = p.timers /\ c.fin_rcvd = p.fin_rcvd
  BY <1>1 DEF Stored, Block
<1>3. InOrder(c, c.st)
  <2>1. SameNumbers(p, c)
    BY <1>2 DEF SameNumbers
  <2>2. InOrder(p, p.st)
    BY DEF Sound
  <2> QED
    BY <1>2, <2>1, <2>2, SameInOrder
<1>4. Sound(c)
  BY <1>2, <1>3 DEF Sound, OnlySyn, Timed
<1> QED
  BY <1>1, <1>4

\* Segments are lost or on their way.
LEMMA SendNet ==
  ASSUME TypeInv, NEW e \in End, NEW segs, segs \subseteq TCPSegment, NEW rest, rest \subseteq net[e],
         Send(e, segs, rest)
  PROVE  /\ net' \in [End -> SUBSET TCPSegment]
         /\ net'[e] \subseteq net[e] /\ net'[Peer(e)] \subseteq net[Peer(e)] \cup segs
<1>1. PICK kept \in SUBSET segs : net' = [net EXCEPT ![e] = rest, ![Peer(e)] = @ \cup kept]
  BY DEF Send
<1>2. net \in [End -> SUBSET TCPSegment]
  BY DEF TypeInv
<1>3. Peer(e) \in End /\ Peer(e) # e
  BY Peers
<1>4. PICK f \in End : f = Peer(e)
  BY <1>3
<1>5. net' = [net EXCEPT ![e] = rest, ![f] = net[f] \cup kept] /\ e # f
  BY <1>1, <1>2, <1>3, <1>4
<1>6. net'[e] = rest /\ net'[f] = net[f] \cup kept
  BY <1>2, <1>5
<1>7. rest \in SUBSET TCPSegment /\ net[f] \cup kept \in SUBSET TCPSegment
  BY <1>2
<1>8. net' \in [End -> SUBSET TCPSegment]
  BY <1>2, <1>5, <1>7
<1> QED
  BY <1>4, <1>6, <1>8

LEMMA FinishInv ==
  ASSUME IInv, NEW e \in End, NEW t, NEW rest, rest \subseteq net[e], Finish(e, t, rest),
         NEW ends, Moves(conn[e], t, nextState(t), ends), PeerFin(e, ends)
  PROVE  IInv'
<1>1. PICK p : p = stateEntered(t, nextState(t))
  OBVIOUS
<1>2. PICK c : c = conn[e]
  OBVIOUS
<1>3. PICK f \in End : f = Peer(e)
  BY Peers
<1>4. f # e /\ Peer(f) = e /\ \A g \in End : g = e \/ g = f
  BY <1>3, Peers
<1>5. Steps(c, p, ends)
  BY <1>1, <1>2, MovesEnters
<1>6. p \in Block
  BY <1>5 DEF Steps
<1>7. /\ aborted' = p.failed /\ conn' = [conn EXCEPT ![e] = Stored(p)] /\ Send(e, p.out, rest)
  BY <1>1 DEF Finish, Stored
<1>8. PICK d : d = Stored(p)
  OBVIOUS
<1>9. d \in ConnectionBlock /\ d.ssthresh > 0
  BY <1>6, <1>8, StoredType
<1>10. conn \in [End -> ConnectionBlock] /\ \A g \in End : conn[g].ssthresh > 0
  BY DEF IInv, TypeInv
<1>11. conn' = [conn EXCEPT ![e] = d]
  BY <1>7, <1>8
<1>12. conn' \in [End -> ConnectionBlock]
  BY <1>9, <1>10, <1>11
<1>13. conn'[e] = d /\ conn'[f] = conn[f]
  BY <1>4, <1>10, <1>11
<1>14. TypeInv /\ p.out \subseteq TCPSegment /\ p.failed \in Failure
  BY <1>6 DEF IInv, Block
<1>15. /\ net' \in [End -> SUBSET TCPSegment]
       /\ net'[e] \subseteq net[e] /\ net'[f] \subseteq net[f] \cup p.out
  BY <1>3, <1>7, <1>14, SendNet
<1>16. TypeInv'
  <2>1. \A g \in End : conn'[g].ssthresh > 0
    BY <1>4, <1>9, <1>10, <1>13
  <2> QED
    BY <1>7, <1>12, <1>14, <1>15, <2>1 DEF TypeInv
<1>17. /\ d.st = p.st /\ d.send_fin = p.send_fin /\ d.snd_fin_seq = p.snd_fin_seq
       /\ d.fin_rcvd = p.fin_rcvd /\ d.rcv_nxt = p.rcv_nxt
  BY <1>6, <1>8 DEF Stored, Block
<1>18. c.send_fin => d.send_fin /\ d.snd_fin_seq = c.snd_fin_seq
  BY <1>5, <1>17 DEF Steps
<1>19. (\A g \in End : Sound(conn[g]))'
  <2>1. Sound(p)
    BY <1>5 DEF Steps
  <2>2. Sound(d)
    BY <1>6, <1>8, <2>1, SoundStored
  <2>3. Sound(conn[f])
    BY DEF IInv
  <2>4. Sound(conn'[e]) /\ Sound(conn'[f])
    BY <1>13, <2>2, <2>3
  <2>5. \A g \in End : Sound(conn'[g])
    BY <1>4, <2>4
  <2> QED
    BY <2>5 DEF Sound, Timed, OnlySyn, InOrder, Order, Offsets
<1>20. \A seg \in net[e] : EndsStream(seg, conn[f])
  BY <1>3 DEF IInv, FinsInNet
<1>21. \A seg \in net[f] : EndsStream(seg, c)
  BY <1>2, <1>4 DEF IInv, FinsInNet
<1>22. FinsInNet'
  <2>1. \A seg \in net'[e] : EndsStream(seg, conn'[f])
    BY <1>13, <1>15, <1>20
  <2>2. \A seg \in net'[f] : EndsStream(seg, d)
    <3>1. TAKE seg \in net'[f]
    <3>2. CASE seg \in net[f]
      BY <1>18, <1>21, <3>2 DEF EndsStream
    <3>3. CASE seg \in p.out
      <4>1. EndsStream(seg, p)
        BY <1>5, <3>3 DEF Steps, FinsSent
      <4> QED
        BY <1>17, <4>1 DEF EndsStream
    <3> QED
      BY <1>15, <3>2, <3>3
  <2>3. \A g \in End : \A seg \in net'[g] : EndsStream(seg, conn'[Peer(g)])
    BY <1>3, <1>4, <1>13, <2>1, <2>2
  <2> QED
    BY <2>3 DEF FinsInNet, EndsStream
<1>23. FinReceived'
  <2>1. d.st = "CLOSING" /\ ~ d.fin_rcvd =>
          conn[f].send_fin /\ d.rcv_nxt = Plus(conn[f].snd_fin_seq, 1)
    <3>1. SUFFICES ASSUME p.st = "CLOSING", ~ p.fin_rcvd
                   PROVE  conn[f].send_fin /\ p.rcv_nxt = Plus(conn[f].snd_fin_seq, 1)
      BY <1>17
    <3>2. (c.st = "CLOSING" /\ ~ c.fin_rcvd /\ p.rcv_nxt = c.rcv_nxt) \/ p.rcv_nxt \in ends
      BY <1>5, <3>1 DEF Steps
    <3>3. c.st = "CLOSING" /\ ~ c.fin_rcvd =>
            conn[f].send_fin /\ c.rcv_nxt = Plus(conn[f].snd_fin_seq, 1)
      BY <1>2, <1>3 DEF IInv, FinReceived
    <3>4. p.rcv_nxt \in ends =>
            conn[f].send_fin /\ p.rcv_nxt = Plus(conn[f].snd_fin_seq, 1)
      BY <1>3 DEF PeerFin
    <3> QED
      BY <3>2, <3>3, <3>4
  <2>2. conn[f].st = "CLOSING" /\ ~ conn[f].fin_rcvd =>
          d.send_fin /\ conn[f].rcv_nxt = Plus(d.snd_fin_seq, 1)
    <3>1. conn[f].st = "CLOSING" /\ ~ conn[f].fin_rcvd =>
            c.send_fin /\ conn[f].rcv_nxt = Plus(c.snd_fin_seq, 1)
      BY <1>2, <1>4 DEF IInv, FinReceived
    <3> QED
      BY <1>18, <3>1
  <2>3. \A g \in End :
          conn'[g].st = "CLOSING" /\ ~ conn'[g].fin_rcvd =>
            conn'[Peer(g)].send_fin /\ conn'[g].rcv_nxt = Plus(conn'[Peer(g)].snd_fin_seq, 1)
    BY <1>3, <1>4, <1>13, <2>1, <2>2
  <2> QED
    BY <2>3 DEF FinReceived
<1>24. TimerErrors'
  <2>1. p.failed \in {"already scheduled", "internal error"} => d.fin_rcvd
    BY <1>5, <1>17 DEF Steps
  <2> QED
    BY <1>7, <1>13, <2>1 DEF TimerErrors, EarlyFin
<1>25. QueueErrors'
  BY <1>5, <1>7 DEF Steps, QueueErrors
<1> QED
  BY <1>16, <1>19, <1>22, <1>23, <1>24, <1>25 DEF IInv


-----------------------------------------------------------------------------
(* The actions keep it. *)

\* A step that brings nothing about the peer's FIN.
LEMMA CommandInv ==
  ASSUME IInv, NEW e \in End, NEW t, NEW rest, rest \subseteq net[e], Finish(e, t, rest),
         Moves(conn[e], t, nextState(t), {})
  PROVE  IInv'
<1>1. PeerFin(e, {})
  BY DEF PeerFin
<1> QED
  BY <1>1, FinishInv

LEMMA Rest ==
  ASSUME IInv, NEW e \in End
  PROVE  AtRest(conn[e]) /\ Sound(conn[e]) /\ conn[e] \in Block /\ FinsSent(conn[e])
<1>1. TypeInv /\ Sound(conn[e])
  BY DEF IInv
<1>2. AtRest(conn[e])
  BY <1>1, AtRestConn
<1> QED
  BY <1>1, <1>2 DEF AtRest, FinsSent

\* The event takes the state machine along a row of its table.
LEMMA Row ==
  ASSUME NEW s, NEW t, t = Event(s, "OPEN_ACTIVE") \/ t = Event(s, "SEND") \/ t = Event(s, "CLOSE")
                       \/ t = Event(s, "OPEN_PASSIVE"),
         s \in Block
  PROVE  /\ t.st = s.st
         /\ s.st \in {"INIT", "LISTEN"} /\ t = Event(s, "OPEN_ACTIVE") => nextState(t) = "SYN_SENT"
         /\ s.st \in {"INIT", "LISTEN"} /\ t = Event(s, "OPEN_PASSIVE") => nextState(t) = "LISTEN"
         /\ s.st = "LISTEN" /\ t = Event(s, "SEND") => nextState(t) = "SYN_SENT"
         /\ s.st # "LISTEN" /\ t = Event(s, "SEND") => nextState(t) = s.st
         /\ s.st \in {"LISTEN", "SYN_SENT"} /\ t = Event(s, "CLOSE") => nextState(t) = "CLOSED"
         /\ s.st \in {"SYN_RCVD", "ESTABLISHED"} /\ t = Event(s, "CLOSE")
              => nextState(t) = "FIN_WAIT_1"
         /\ s.st = "CLOSE_WAIT" /\ t = Event(s, "CLOSE") => nextState(t) = "LAST_ACK"
<1>1. t.st = s.st
  BY DEF Event, Block
<1>2. /\ t = Event(s, "OPEN_ACTIVE") => t.ev = "OPEN_ACTIVE"
      /\ t = Event(s, "OPEN_PASSIVE") => t.ev = "OPEN_PASSIVE"
      /\ t = Event(s, "SEND") => t.ev = "SEND"
      /\ t = Event(s, "CLOSE") => t.ev = "CLOSE"
  BY DEF Event, Block
<1>3. ~ Resets(t)
  BY <1>2 DEF Resets
<1>4. PICK x : x = nextState(t)
  OBVIOUS
<1>5. \/ x = t.st /\ \A r \in Transition : ~ (r[1] = t.st /\ r[2] = t.ev)
      \/ \E r \in Transition : r[1] = t.st /\ r[2] = t.ev /\ x = r[3]
  BY <1>3, <1>4, nextStateIs
<1>6. t.ev = "OPEN_ACTIVE" /\ t.st \in {"INIT", "LISTEN"} => x = "SYN_SENT"
  <2>1. /\ <<"INIT", "OPEN_ACTIVE", "SYN_SENT">> \in Transition
        /\ <<"LISTEN", "OPEN_ACTIVE", "SYN_SENT">> \in Transition
    BY DEF Transition
  <2> QED
    BY <1>5, <2>1, SMTT(60) DEF Transition
<1>7. t.ev = "OPEN_PASSIVE" /\ t.st \in {"INIT", "LISTEN"} => x = "LISTEN"
  <2>1. <<"INIT", "OPEN_PASSIVE", "LISTEN">> \in Transition
    BY DEF Transition
  <2> QED
    BY <1>5, <2>1, SMTT(60) DEF Transition
<1>8. t.ev = "SEND" => x = IF t.st = "LISTEN" THEN "SYN_SENT" ELSE t.st
  <2>1. <<"LISTEN", "SEND", "SYN_SENT">> \in Transition
    BY DEF Transition
  <2> QED
    BY <1>5, <2>1, SMTT(60) DEF Transition
<1>9. t.ev = "CLOSE" /\ t.st \in {"LISTEN", "SYN_SENT"} => x = "CLOSED"
  <2>1. /\ <<"LISTEN", "CLOSE", "CLOSED">> \in Transition
        /\ <<"SYN_SENT", "CLOSE", "CLOSED">> \in Transition
    BY DEF Transition
  <2> QED
    BY <1>5, <2>1, SMTT(60) DEF Transition
<1>10. t.ev = "CLOSE" /\ t.st \in {"SYN_RCVD", "ESTABLISHED"} => x = "FIN_WAIT_1"
  <2>1. /\ <<"SYN_RCVD", "CLOSE", "FIN_WAIT_1">> \in Transition
        /\ <<"ESTABLISHED", "CLOSE", "FIN_WAIT_1">> \in Transition
    BY DEF Transition
  <2> QED
    BY <1>5, <2>1, SMTT(60) DEF Transition
<1>11. t.ev = "CLOSE" /\ t.st = "CLOSE_WAIT" => x = "LAST_ACK"
  <2>1. <<"CLOSE_WAIT", "CLOSE", "LAST_ACK">> \in Transition
    BY DEF Transition
  <2> QED
    BY <1>5, <2>1, SMTT(60) DEF Transition
<1> QED
  BY <1>1, <1>2, <1>4, <1>6, <1>7, <1>8, <1>9, <1>10, <1>11

\* What is set aside has no part in it.
LEMMA RemoteIs ==
  ASSUME NEW s \in Block, NEW a \in BOOLEAN, NEW r \in BOOLEAN, NEW t,
         t = [s EXCEPT !.active = a, !.remote = r] \/ t = [s EXCEPT !.remote = r]
  PROVE  /\ t \in Block /\ t.st = s.st /\ t.timers = s.timers /\ t.failed = s.failed
         /\ t.iss = s.iss /\ t.snd_una = s.snd_una /\ t.snd_nxt = s.snd_nxt
         /\ t.snd_max = s.snd_max /\ t.qEnd = s.qEnd /\ t.qBegin = s.qBegin
         /\ t.send_fin = s.send_fin /\ t.snd_fin_seq = s.snd_fin_seq
         /\ t.fin_rcvd = s.fin_rcvd /\ t.rcv_nxt = s.rcv_nxt /\ t.out = s.out /\ t.ev = s.ev
<1>1. CASE t = [s EXCEPT !.active = a, !.remote = r]
  <2>1. t \in Block
    BY <1>1, ZenonT(60) DEF Block
  <2> QED
    BY <1>1, <2>1 DEF Block
<1>2. CASE t = [s EXCEPT !.remote = r]
  <2>1. t \in Block
    BY <1>2, ZenonT(40) DEF Block
  <2> QED
    BY <1>2, <2>1, ZenonT(60) DEF Block
<1> QED
  BY <1>1, <1>2

LEMMA OpenActiveInv ==
  ASSUME IInv, NEW e \in End, OpenActive(e)
  PROVE  IInv'
<1>1. PICK n \in ISS[e] :
        Finish(e, Event(Active([conn[e] EXCEPT !.remote = TRUE], n), "OPEN_ACTIVE"), net[e])
  BY DEF OpenActive
<1>2. PICK c : c = conn[e]
  OBVIOUS
<1>3. c.st \in {"INIT", "LISTEN"} /\ AtRest(c) /\ Sound(c) /\ c \in Block
  BY <1>2, Rest DEF OpenActive
<1>4. n \in SeqNo
  BY ParamAssumption DEF SeqNo
<1>5. PICK r : r = [c EXCEPT !.remote = TRUE]
  OBVIOUS
<1>6. /\ r \in Block /\ r.st = c.st /\ r.timers = c.timers /\ r.failed = c.failed
      /\ r.send_fin = c.send_fin /\ r.snd_fin_seq = c.snd_fin_seq
      /\ r.fin_rcvd = c.fin_rcvd /\ r.out = c.out
  BY <1>3, <1>5, RemoteIs, ZenonT(60)
<1>7. PICK a : a = Active(r, n)
  OBVIOUS
<1>8. Begins(r, n, a)
  BY <1>4, <1>6, <1>7, ActiveBegins
<1>9. FinsSent(c) => FinsSent(r)
  BY <1>6 DEF FinsSent, EndsStream
<1>10. Begins(c, n, a)
  BY <1>6, <1>8, <1>9 DEF Begins
<1>11. Moves(c, a, "SYN_SENT", {})
  BY <1>3, <1>4, <1>10, BeginsMoves DEF Handshake
<1>12. a \in Block /\ a.st = c.st
  BY <1>10 DEF Begins
<1>13. PICK t : t = Event(a, "OPEN_ACTIVE")
  OBVIOUS
<1>14. Ignores(a, t)
  BY <1>12, <1>13, EventKeeps DEF Ignores, EventName
<1>15. nextState(t) = "SYN_SENT"
  BY <1>3, <1>12, <1>13, Row
<1>16. Moves(c, t, nextState(t), {})
  BY <1>11, <1>14, <1>15, MovesThenIgnores
<1>17. Finish(e, t, net[e])
  BY <1>1, <1>2, <1>5, <1>7, <1>13
<1> QED
  BY <1>2, <1>16, <1>17, CommandInv

LEMMA OpenPassiveInv ==
  ASSUME IInv, NEW e \in End, OpenPassive(e)
  PROVE  IInv'
<1>1. PICK c : c = conn[e]
  OBVIOUS
<1>2. c.st \in {"INIT", "LISTEN"} /\ AtRest(c) /\ Sound(c) /\ c \in Block
  BY <1>1, Rest DEF OpenPassive
<1>3. PICK a : a = [c EXCEPT !.active = FALSE, !.remote = FALSE]
  OBVIOUS
<1>4. /\ a \in Block /\ a.st = c.st /\ a.timers = c.timers /\ a.failed = c.failed
      /\ a.iss = c.iss /\ a.snd_una = c.snd_una /\ a.snd_nxt = c.snd_nxt
      /\ a.snd_max = c.snd_max /\ a.qEnd = c.qEnd /\ a.qBegin = c.qBegin
      /\ a.send_fin = c.send_fin /\ a.snd_fin_seq = c.snd_fin_seq
      /\ a.fin_rcvd = c.fin_rcvd /\ a.rcv_nxt = c.rcv_nxt /\ a.out = c.out /\ a.ev = c.ev
  BY <1>2, <1>3, RemoteIs, ZenonT(60)
<1>5. Moves(c, c, "LISTEN", {})
  BY <1>2, RestMoves
<1>6. Moves(c, a, "LISTEN", {})
  <2>1. FinsSent(a)
    BY <1>4, <1>5 DEF Moves, FinsSent, EndsStream
  <2>2. "LISTEN" \notin Synchronized /\ "LISTEN" \notin Handshake
    BY DEF Synchronized, Handshake
  <2> QED
    BY <1>4, <1>5, <2>1, <2>2 DEF Moves, InOrder, Live
<1>7. PICK t : t = Event(a, "OPEN_PASSIVE")
  OBVIOUS
<1>8. Ignores(a, t)
  BY <1>4, <1>7, EventKeeps DEF Ignores, EventName
<1>9. nextState(t) = "LISTEN"
  BY <1>2, <1>4, <1>7, Row
<1>10. Moves(c, t, nextState(t), {})
  BY <1>6, <1>8, <1>9, MovesThenIgnores
<1>11. Finish(e, t, net[e])
  BY <1>1, <1>3, <1>7 DEF OpenPassive
<1> QED
  BY <1>1, <1>10, <1>11, CommandInv


LEMMA MessageLength ==
  ASSUME NEW e \in End, NEW n \in Message[e]
  PROVE  n \in Nat \ {0}
BY ParamAssumption

LEMMA SendCommandInv ==
  ASSUME IInv, NEW e \in End, NEW n \in Message[e], SendCommand(e, n)
  PROVE  IInv'
<1>1. PICK c : c = conn[e]
  OBVIOUS
<1>2. AtRest(c) /\ Sound(c) /\ c \in Block /\ ~ c.send_fin
  BY <1>1, Rest DEF SendCommand
<1>3. n \in Nat
  BY MessageLength
<1>4. CASE c.st = "LISTEN" /\ n <= MaxBytes[e] /\ \E i \in ISS[e] :
             Finish(e, Event(enqueueAppData(Active(c, i), n), "SEND"), net[e])
  <2>1. PICK i \in ISS[e] : Finish(e, Event(enqueueAppData(Active(c, i), n), "SEND"), net[e])
    BY <1>4
  <2>2. i \in SeqNo
    BY ParamAssumption DEF SeqNo
  <2>3. PICK a : a = Active(c, i)
    OBVIOUS
  <2>4. Begins(c, i, a)
    BY <1>2, <2>2, <2>3, ActiveBegins
  <2>5. a \in Block /\ a.st = c.st
    BY <2>4 DEF Begins
  <2>6. Moves(c, a, "SYN_SENT", {}) /\ ~ a.send_fin /\ (Fits => Written(a) = 0)
    BY <1>2, <1>4, <2>2, <2>4, BeginsMoves DEF Handshake
  <2>7. PICK b : b = enqueueAppData(a, n)
    OBVIOUS
  <2>8. Enqueues(a, n, b)
    BY <1>3, <2>5, <2>7, enqueueAppDataEnqueues
  <2>9. Moves(c, b, "SYN_SENT", {})
    <3>1. Fits => Written(a) + n + 2 < SeqMod \div 2
      BY <1>3, <1>4, <2>6, FitsHalf, Windows
    <3> QED
      BY <1>3, <2>6, <2>8, <3>1, MovesThenEnqueues
  <2>10. b \in Block /\ b.st = c.st
    BY <2>5, <2>8 DEF Enqueues
  <2>11. PICK t : t = Event(b, "SEND")
    OBVIOUS
  <2>12. Ignores(b, t)
    BY <2>10, <2>11, EventKeeps DEF Ignores, EventName
  <2>13. nextState(t) = "SYN_SENT"
    BY <1>4, <2>10, <2>11, Row
  <2>14. Moves(c, t, nextState(t), {})
    BY <2>9, <2>12, <2>13, MovesThenIgnores
  <2>15. Finish(e, t, net[e])
    BY <2>1, <2>3, <2>7, <2>11
  <2> QED
    BY <1>1, <2>14, <2>15, CommandInv
<1>5. PICK b : b = enqueueAppData(c, n)
  OBVIOUS
<1>6. Enqueues(c, n, b)
  BY <1>2, <1>3, <1>5, enqueueAppDataEnqueues
<1>7. b \in Block /\ b.st = c.st
  BY <1>6 DEF Enqueues
<1>8. c.st # "CLOSED" /\ Written(c) + n <= MaxBytes[e] => Moves(c, b, c.st, {})
  <2>1. c.st # "CLOSED" => Moves(c, c, c.st, {})
    BY <1>2, RestMoves
  <2>2. PICK w \in Nat : w = Written(c)
    <3>1. PICK a : a = Plus(c.iss, 1)
      OBVIOUS
    <3>2. PICK q \in SeqNo : q = c.qEnd
      BY <1>2, NumbersIn
    <3>3. c.iss \in SeqNo
      BY <1>2, NumbersIn
    <3>4. a \in SeqNo
      BY <3>1, <3>3, PlusType
    <3>5. PICK d \in SeqNo : d = Dist(a, q)
      BY <3>4, DistType
    <3>6. Written(c) = d
      BY <3>1, <3>2, <3>5 DEF Written
    <3> QED
      BY <3>5, <3>6 DEF SeqNo
  <2>3. Fits /\ w + n <= MaxBytes[e] => w + n + 2 < SeqMod \div 2
    BY <1>3, FitsHalf, Windows
  <2>4. Written(c) + n <= MaxBytes[e] => (Fits => Written(c) + n + 2 < SeqMod \div 2)
    BY <2>2, <2>3
  <2> QED
    BY <1>2, <1>3, <1>6, <2>1, <2>4, MovesThenEnqueues
<1>9. CASE c.st \in Handshake /\ Written(c) + n <= MaxBytes[e]
           /\ Finish(e, Event(b, "SEND"), net[e])
  <2>1. PICK t : t = Event(b, "SEND")
    OBVIOUS
  <2>2. Ignores(b, t)
    BY <1>7, <2>1, EventKeeps DEF Ignores, EventName
  <2>3. nextState(t) = c.st
    BY <1>7, <1>9, <2>1, Row DEF Handshake
  <2>4. Moves(c, t, nextState(t), {})
    BY <1>8, <1>9, <2>2, <2>3, MovesThenIgnores DEF Handshake
  <2> QED
    BY <1>1, <1>9, <2>1, <2>4, CommandInv
<1>10. CASE c.st \in {"ESTABLISHED", "CLOSE_WAIT"} /\ Written(c) + n <= MaxBytes[e]
            /\ Finish(e, Event(sendData(b), "SEND"), net[e])
  <2>1. PICK d : d = sendData(b)
    OBVIOUS
  <2>2. Pushes(b, d)
    BY <1>7, <2>1, sendDataPushes
  <2>3. c.st \in Synchronized
    BY <1>10 DEF Synchronized
  <2>4. Moves(c, d, c.st, {})
    BY <1>8, <1>10, <2>2, <2>3, MovesThenPushes
  <2>5. d \in Block /\ d.st = c.st
    BY <1>7, <2>2 DEF Pushes, Sends
  <2>6. PICK t : t = Event(d, "SEND")
    OBVIOUS
  <2>7. Ignores(d, t)
    BY <2>5, <2>6, EventKeeps DEF Ignores, EventName
  <2>8. nextState(t) = c.st
    BY <1>10, <2>5, <2>6, Row
  <2>9. Moves(c, t, nextState(t), {})
    BY <2>4, <2>7, <2>8, MovesThenIgnores
  <2> QED
    BY <1>1, <1>10, <2>1, <2>6, <2>9, CommandInv
<1> QED
  BY <1>1, <1>4, <1>5, <1>9, <1>10 DEF SendCommand, Handshake

LEMMA CloseCommandInv ==
  ASSUME IInv, NEW e \in End, CloseCommand(e)
  PROVE  IInv'
<1>1. PICK c : c = conn[e]
  OBVIOUS
<1>2. AtRest(c) /\ Sound(c) /\ c \in Block /\ ~ c.send_fin
  BY <1>1, Rest DEF CloseCommand
<1>3. CASE c.st \in {"LISTEN", "SYN_SENT"} /\ Finish(e, Event(c, "CLOSE"), net[e])
  <2>1. PICK t : t = Event(c, "CLOSE")
    OBVIOUS
  <2>2. Ignores(c, t)
    BY <1>2, <2>1, EventKeeps DEF Ignores, EventName
  <2>3. nextState(t) = "CLOSED"
    BY <1>2, <1>3, <2>1, Row
  <2>4. Moves(c, c, "CLOSED", {})
    BY <1>2, <1>3, RestMoves
  <2>5. Moves(c, t, nextState(t), {})
    BY <2>2, <2>3, <2>4, MovesThenIgnores
  <2> QED
    BY <1>1, <1>3, <2>1, <2>5, CommandInv
<1>4. CASE c.st \in {"SYN_RCVD", "ESTABLISHED", "CLOSE_WAIT"} /\ Finish(e, process_CLOSE(c), net[e])
  <2>1. PICK t : t = process_CLOSE(c)
    OBVIOUS
  <2>2. Ends(c, t)
    BY <1>2, <2>1, processCloseEnds
  <2>3. t.ev = "CLOSE" \/ (t.ev = "IGNORE" /\ c.st = "CLOSE_WAIT")
    BY <1>2, <2>2 DEF Ends, AtRest
  <2>4. nextState(t) \in {"FIN_WAIT_1", "LAST_ACK", c.st} /\ nextState(t) \in Synchronized
    <3>1. t.st = c.st
      BY <2>2 DEF Ends
    <3>2. CASE t.ev = "IGNORE" /\ c.st = "CLOSE_WAIT"
      BY <3>1, <3>2, IgnoredNext DEF Synchronized
    <3>3. CASE t.ev = "CLOSE"
      <4>1. ~ Resets(t)
        BY <3>3 DEF Resets
      <4>2. /\ <<"SYN_RCVD", "CLOSE", "FIN_WAIT_1">> \in Transition
            /\ <<"ESTABLISHED", "CLOSE", "FIN_WAIT_1">> \in Transition
            /\ <<"CLOSE_WAIT", "CLOSE", "LAST_ACK">> \in Transition
        BY DEF Transition
      <4>3. nextState(t) \in {"FIN_WAIT_1", "LAST_ACK"}
        BY <1>4, <3>1, <3>3, <4>1, <4>2, nextStateIs, SMTT(60) DEF Transition
      <4> QED
        BY <4>3 DEF Synchronized
    <3> QED
      BY <2>3, <3>2, <3>3
  <2>5. PICK x : x = nextState(t)
    OBVIOUS
  <2>6. Moves(c, t, x, {})
    BY <1>2, <1>4, <2>2, <2>4, <2>5, EndsMoves
  <2> QED
    BY <1>1, <1>4, <2>1, <2>5, <2>6, CommandInv
<1> QED
  BY <1>1, <1>3, <1>4 DEF CloseCommand

LEMMA AbortCommandInv ==
  ASSUME IInv, NEW e \in End, AbortCommand(e)
  PROVE  IInv'
<1>1. PICK c : c = conn[e]
  OBVIOUS
<1>2. AtRest(c) /\ Sound(c) /\ c \in Block /\ c.st # "CLOSED"
  BY <1>1, Rest DEF AbortCommand
<1>3. PICK a : a = sendRst(c, c.snd_nxt)
  OBVIOUS
<1>4. PICK n \in SeqNo : n = c.snd_nxt
  BY <1>2, NumbersIn
<1>5. Emits(c, a)
  BY <1>2, <1>3, <1>4, sendRstEmits
<1>6. Ignores(c, a) /\ Ignores(c, c)
  BY <1>2, <1>5, EmitsIgnores, KeepsItself DEF Ignores
<1>7. PICK b \in {a, c} : Finish(e, Event(b, "ABORT"), net[e])
  BY <1>1, <1>3 DEF AbortCommand
<1>8. b \in Block /\ Ignores(c, b)
  BY <1>6, <1>7 DEF Ignores, Keeps
<1>9. PICK t : t = Event(b, "ABORT")
  OBVIOUS
<1>10. Ignores(b, t) /\ t.ev = "ABORT"
  BY <1>8, <1>9, EventKeeps DEF Ignores, EventName
<1>11. nextState(t) = "CLOSED"
  BY <1>10, IgnoredNext
<1>12. Moves(c, c, "CLOSED", {})
  BY <1>2, RestMoves
<1>13. Moves(c, b, "CLOSED", {})
  BY <1>8, <1>12, MovesThenIgnores
<1>14. Moves(c, t, nextState(t), {})
  BY <1>10, <1>11, <1>13, MovesThenIgnores
<1> QED
  BY <1>1, <1>7, <1>9, <1>14, CommandInv


\* A FIN that was received is not acceptable again.
LEMMA OldFin ==
  ASSUME NEW s \in Block, NEW seg \in TCPSegment,
         s.rcv_nxt = Plus(Plus(seg.seq, seg.len), 1)
  PROVE  ~ isSegmentAcceptable(s, seg)
<1>1. PICK q \in SeqNo : q = seg.seq
  BY Segments
<1>2. PICK l \in 0 .. MSS : l = seg.len
  BY Segments
<1>3. l \in SeqNo /\ l \in 0 .. SeqMod /\ 1 \in 0 .. SeqMod /\ 0 \in SeqNo /\ l + 1 \in SeqNo
      /\ l + 1 <= SeqMod \div 2 /\ 0 < l + 1
  BY Windows DEF SeqNo
<1>4. PICK k \in SeqNo : k = l + 1 /\ 0 < k /\ k <= SeqMod \div 2
  BY <1>3
<1>5. Plus(Plus(q, l), 1) = Plus(q, k)
  BY <1>1, <1>3, <1>4, PlusPlus
<1>6. Plus(q, 0) = q
  BY Mod, Windows DEF Plus, SeqNo
<1>7. Dist(Plus(q, k), Plus(q, 0)) = 0 - k + SeqMod
  BY <1>3, <1>4, DistFrom
<1>8. PICK d : d = Dist(s.rcv_nxt, seg.seq)
  OBVIOUS
<1>9. d = 0 - k + SeqMod
  BY <1>1, <1>2, <1>5, <1>6, <1>7, <1>8
<1>10. ~ d < SeqMod \div 2
  BY <1>4, <1>9, Windows DEF SeqNo
<1> QED
  BY <1>8, <1>10 DEF isSegmentAcceptable, seqLE

LEMMA ClosedAnswers ==
  ASSUME NEW seg \in TCPSegment
  PROVE  /\ segmentArrivalWhileClosed(seg) \subseteq TCPSegment
         /\ \A r \in segmentArrivalWhileClosed(seg) : ~ r.fin
<1>1. PICK a \in SeqNo : a = seg.ackNo
  BY Segments
<1>2. PICK n \in SeqNo : n = Plus(seg.seq, seg.len)
  <2>1. seg.seq \in SeqNo /\ seg.len \in Nat
    BY Segments
  <2> QED
    BY <2>1, PlusType
<1>3. PICK r : r = [NoFlags EXCEPT !.rst = TRUE, !.seq = a]
  OBVIOUS
<1>4. PICK q : q = [NoFlags EXCEPT !.rst = TRUE, !.ack = TRUE, !.ackNo = n]
  OBVIOUS
<1>5. r \in TCPSegment /\ ~ r.fin
  BY <1>3, Segments DEF NoFlags, TCPSegment
<1>6. q \in TCPSegment /\ ~ q.fin
  BY <1>4, Segments DEF NoFlags, TCPSegment
<1>7. segmentArrivalWhileClosed(seg) \in {{}, {r}, {q}}
  BY <1>1, <1>2, <1>3, <1>4 DEF segmentArrivalWhileClosed
<1> QED
  BY <1>5, <1>6, <1>7

\* A host without a connection answers.
LEMMA ArriveClosedInv ==
  ASSUME IInv, NEW e \in End, NEW seg \in net[e],
         UNCHANGED <<conn, aborted>>, Send(e, segmentArrivalWhileClosed(seg), net[e] \ {seg})
  PROVE  IInv'
<1>1. PICK f \in End : f = Peer(e)
  BY Peers
<1>2. f # e /\ Peer(f) = e /\ \A g \in End : g = e \/ g = f
  BY <1>1, Peers
<1>3. TypeInv
  BY DEF IInv
<1>4. seg \in TCPSegment
  BY <1>3 DEF TypeInv
<1>5. PICK out \in SUBSET TCPSegment :
        out = segmentArrivalWhileClosed(seg) /\ \A r \in out : ~ r.fin
  BY <1>4, ClosedAnswers
<1>6. Send(e, out, net[e] \ {seg}) /\ net[e] \ {seg} \subseteq net[e]
  BY <1>5
<1>7. /\ net' \in [End -> SUBSET TCPSegment]
      /\ net'[e] \subseteq net[e] /\ net'[f] \subseteq net[f] \cup out
  BY <1>1, <1>3, <1>5, <1>6, SendNet
<1>8. conn' = conn /\ aborted' = aborted
  OBVIOUS
<1>9. TypeInv'
  BY <1>3, <1>7, <1>8 DEF TypeInv
<1>10. (\A g \in End : Sound(conn[g]))'
  BY <1>8 DEF IInv, Sound, Timed, OnlySyn
<1>11. FinsInNet'
  <2>1. \A s \in net[e] : EndsStream(s, conn[f])
    BY <1>1 DEF IInv, FinsInNet
  <2>2. \A s \in net[f] \cup out : EndsStream(s, conn[e])
    BY <1>2, <1>5 DEF IInv, FinsInNet, EndsStream
  <2>3. \A g \in End : \A s \in net'[g] : EndsStream(s, conn[Peer(g)])
    BY <1>1, <1>2, <1>7, <2>1, <2>2
  <2> QED
    BY <1>8, <2>3 DEF FinsInNet, EndsStream
<1>12. FinReceived'
  BY <1>8 DEF IInv, FinReceived
<1>13. TimerErrors' /\ QueueErrors'
  BY <1>8 DEF IInv, TimerErrors, QueueErrors, EarlyFin
<1> QED
  BY <1>9, <1>10, <1>11, <1>12, <1>13 DEF IInv

LEMMA ArriveInv ==
  ASSUME IInv, NEW e \in End, NEW seg \in net[e], Arrive(e, seg)
  PROVE  IInv'
<1>1. PICK c : c = conn[e]
  OBVIOUS
<1>2. AtRest(c) /\ Sound(c) /\ c \in Block /\ c.ev = "IGNORE" /\ c.failed = "no"
  BY <1>1, Rest DEF AtRest
<1>3. seg \in TCPSegment
  BY DEF IInv, TypeInv
<1>4. PICK rest : rest = net[e] \ {seg}
  OBVIOUS
<1>5. rest \subseteq net[e]
  BY <1>4
<1>6. CASE c.st \in {"INIT", "CLOSED"}
  <2>1. UNCHANGED <<conn, aborted>> /\ Send(e, segmentArrivalWhileClosed(seg), net[e] \ {seg})
    BY <1>1, <1>6 DEF Arrive
  <2> QED
    BY <2>1, ArriveClosedInv
<1>7. CASE c.st = "LISTEN"
  <2>1. PICK n \in ISS[e] : Finish(e, processSegmentInListen(c, seg, n), rest)
    BY <1>1, <1>4, <1>7 DEF Arrive
  <2>2. n \in SeqNo
    BY ParamAssumption DEF SeqNo
  <2>3. PICK t : t = processSegmentInListen(c, seg, n)
    OBVIOUS
  <2>4. \/ Ignores(c, t) /\ t.ev = "IGNORE"
        \/ Begins(c, n, t) /\ t.failed = c.failed /\ t.ev = "RCV_SYN"
    BY <1>2, <1>3, <2>2, <2>3, processSegmentInListenBegins
  <2>5. Moves(c, t, nextState(t), {})
    BY <1>2, <1>7, <2>2, <2>4, ListenMoves
  <2> QED
    BY <1>1, <1>5, <2>1, <2>3, <2>5, CommandInv
<1>8. CASE c.st = "SYN_SENT"
  <2>1. PICK t : t = processSegmentInSynSent(c, seg)
    OBVIOUS
  <2>2. Finish(e, t, rest)
    BY <1>1, <1>4, <1>8, <2>1 DEF Arrive
  <2>3. Moves(c, t, nextState(t), {})
    BY <1>2, <1>3, <1>8, <2>1, SynSentMoves
  <2> QED
    BY <1>1, <1>5, <2>2, <2>3, CommandInv
<1>9. CASE c.st \notin {"INIT", "CLOSED", "LISTEN", "SYN_SENT"}
  <2>1. c.st \in Synchronized \cup {"SYN_RCVD"}
    <3>1. c.st \in State
      BY <1>2 DEF Block
    <3> QED
      BY <1>9, <3>1 DEF State, Synchronized
  <2>2. PICK t : t = processSegment1stThru8th(c, seg)
    OBVIOUS
  <2>3. Finish(e, t, rest)
    BY <1>1, <1>4, <1>9, <2>2 DEF Arrive
  <2>4. Handles(c, seg, t)
    BY <1>2, <1>3, <2>2, processSegmentHandles
  <2>5. seg.fin => conn[Peer(e)].send_fin /\ Plus(seg.seq, seg.len) = conn[Peer(e)].snd_fin_seq
    BY DEF IInv, FinsInNet, EndsStream
  <2>6. c.st = "CLOSING" /\ seg.fin /\ isSegmentAcceptable(c, seg) => c.fin_rcvd
    <3>1. c.st = "CLOSING" /\ ~ c.fin_rcvd => c.rcv_nxt = Plus(conn[Peer(e)].snd_fin_seq, 1)
      BY <1>1 DEF IInv, FinReceived
    <3>2. c.st = "CLOSING" /\ ~ c.fin_rcvd /\ seg.fin =>
            c.rcv_nxt = Plus(Plus(seg.seq, seg.len), 1)
      BY <2>5, <3>1
    <3> QED
      BY <1>2, <1>3, <3>2, OldFin
  <2>7. Moves(c, t, nextState(t), FinOf(seg))
    BY <1>2, <1>3, <2>1, <2>4, <2>6, HandlesMoves
  <2>8. PeerFin(e, FinOf(seg))
    BY <2>5 DEF PeerFin, FinOf
  <2>9. PICK ends : ends = FinOf(seg)
    OBVIOUS
  <2>10. Moves(conn[e], t, nextState(t), ends) /\ PeerFin(e, ends)
    BY <1>1, <2>7, <2>8, <2>9
  <2> QED
    BY <1>5, <2>3, <2>10, FinishInv
<1> QED
  BY <1>6, <1>7, <1>8, <1>9


LEMMA FiredIs ==
  ASSUME IInv, NEW e \in End, NEW n
  PROVE  Cancels(conn[e], {n}, Fired(e, n)) /\ Fired(e, n) \in Block
<1>1. conn[e] \in Block
  BY Rest
<1>2. PICK f : f = Fired(e, n)
  OBVIOUS
<1>3. Cancels(conn[e], {n}, f)
  BY <1>1, <1>2, cancelEventCancels DEF Fired
<1> QED
  BY <1>2, <1>3 DEF Cancels

LEMMA TimeoutConnEstabInv ==
  ASSUME IInv, NEW e \in End, TimeoutConnEstab(e)
  PROVE  IInv'
<1>1. PICK c : c = conn[e]
  OBVIOUS
<1>2. AtRest(c) /\ Sound(c) /\ c \in Block /\ "CONN_ESTAB" \in c.timers
  BY <1>1, Rest DEF TimeoutConnEstab
<1>3. c.st \in {"SYN_RCVD", "SYN_SENT"}
  BY <1>2 DEF Sound, Handshake
<1>4. PICK f : f = Fired(e, "CONN_ESTAB")
  OBVIOUS
<1>5. Cancels(c, {"CONN_ESTAB"}, f) /\ f \in Block
  BY <1>1, <1>4, FiredIs
<1>6. PICK a : a = Tell(f, "TIMED_OUT")
  OBVIOUS
<1>7. Ignores(f, a) /\ Ignores(f, f)
  <2>1. "TIMED_OUT" \in Indication
    BY DEF Indication
  <2> QED
    BY <1>5, <1>6, <2>1, TellKeeps, KeepsItself DEF Ignores
<1>8. Require(c.st \in {"SYN_RCVD", "SYN_SENT"}, f, "internal error") = f
  BY <1>3 DEF Require
<1>9. PICK b \in {a, f} : Finish(e, Event(b, "CONN_ESTAB"), net[e])
  BY <1>1, <1>4, <1>6, <1>8 DEF TimeoutConnEstab
<1>10. Ignores(f, b) /\ b \in Block /\ b.st = c.st
  BY <1>5, <1>7, <1>9 DEF Ignores, Keeps, Cancels
<1>11. PICK t : t = Event(b, "CONN_ESTAB")
  OBVIOUS
<1>12. Ignores(b, t) /\ t.ev = "CONN_ESTAB"
  BY <1>10, <1>11, EventKeeps DEF Ignores, EventName
<1>13. t.st = c.st
  BY <1>10, <1>12 DEF Ignores, Keeps
<1>14. PICK x : x = nextState(t)
  OBVIOUS
<1>15. x \in {"CLOSED", "LISTEN"}
  <2>1. CASE c.st = "SYN_RCVD"
    <3>1. Resets(t)
      BY <1>12, <1>13, <2>1 DEF Resets
    <3> QED
      BY <1>14, <3>1, nextStateResets
  <2>2. CASE c.st = "SYN_SENT"
    <3>1. ~ Resets(t)
      BY <1>12, <1>13, <2>2 DEF Resets
    <3>2. <<"SYN_SENT", "CONN_ESTAB", "CLOSED">> \in Transition
      BY DEF Transition
    <3> QED
      BY <1>12, <1>13, <1>14, <2>2, <3>1, <3>2, nextStateIs, SMTT(60) DEF Transition
  <2> QED
    BY <1>3, <2>1, <2>2
<1>16. Moves(c, c, x, {})
  BY <1>2, <1>3, <1>15, RestMoves DEF Handshake
<1>17. Moves(c, f, x, {})
  BY <1>5, <1>16, MovesThenCancels
<1>18. Moves(c, b, x, {})
  BY <1>10, <1>17, MovesThenIgnores
<1>19. Moves(c, t, x, {})
  BY <1>12, <1>18, MovesThenIgnores
<1> QED
  BY <1>1, <1>9, <1>11, <1>14, <1>19, CommandInv

LEMMA Timeout2MSLInv ==
  ASSUME IInv, NEW e \in End, Timeout2MSL(e)
  PROVE  IInv'
<1>1. PICK c : c = conn[e]
  OBVIOUS
<1>2. AtRest(c) /\ Sound(c) /\ c \in Block /\ "2MSL" \in c.timers /\ c.failed = "no"
      /\ FinsSent(c)
  BY <1>1, Rest DEF Timeout2MSL, AtRest
<1>3. c.st = "TIME_WAIT" \/ (c.st = "CLOSING" /\ c.fin_rcvd)
  BY <1>2 DEF Sound
<1>4. PICK f : f = Fired(e, "2MSL")
  OBVIOUS
<1>5. Cancels(c, {"2MSL"}, f) /\ f \in Block
  BY <1>1, <1>4, FiredIs
<1>6. "CLOSED" \in Indication /\ "2MSL" \in EventName
  BY DEF Indication, EventName
<1>7. CASE c.st = "TIME_WAIT"
  <2>1. PICK t : t = Event(Tell(f, "CLOSED"), "2MSL")
    OBVIOUS
  <2>2. Finish(e, t, net[e])
    <3>1. Require(c.st = "TIME_WAIT", f, "internal error") = f
      BY <1>7 DEF Require
    <3> QED
      BY <1>1, <1>4, <2>1, <3>1 DEF Timeout2MSL
  <2>3. Ignores(f, t) /\ t.ev = "2MSL"
    BY <1>5, <1>6, <2>1, TellEventIgnores
  <2>4. t.st = "TIME_WAIT"
    BY <1>5, <1>7, <2>3 DEF Ignores, Keeps, Cancels
  <2>5. nextState(t) = "CLOSED"
    <3>1. ~ Resets(t)
      BY <2>3 DEF Resets
    <3>2. <<"TIME_WAIT", "2MSL", "CLOSED">> \in Transition
      BY DEF Transition
    <3> QED
      BY <2>3, <2>4, <3>1, <3>2, nextStateIs, SMTT(60) DEF Transition
  <2>6. Moves(c, c, "CLOSED", {})
    BY <1>2, <1>7, RestMoves
  <2>7. Moves(c, f, "CLOSED", {})
    BY <1>5, <2>6, MovesThenCancels
  <2>8. Moves(c, t, nextState(t), {})
    BY <2>3, <2>5, <2>7, MovesThenIgnores
  <2> QED
    BY <1>1, <2>2, <2>8, CommandInv
<1>8. CASE c.st = "CLOSING" /\ c.fin_rcvd
  <2>1. PICK b : b = [f EXCEPT !.failed = "internal error"]
    OBVIOUS
  <2>2. b \in Block
    BY <1>5, <2>1, ZenonT(60) DEF Block, Failure
  <2>3. f.failed = "no"
    BY <1>2, <1>5 DEF Cancels
  <2>4. Require(c.st = "TIME_WAIT", f, "internal error") = b
    BY <1>8, <2>1, <2>3 DEF Require
  <2>5. PICK t : t = Event(Tell(b, "CLOSED"), "2MSL")
    OBVIOUS
  <2>6. Finish(e, t, net[e])
    BY <1>1, <1>4, <2>4, <2>5 DEF Timeout2MSL
  <2>7. Ignores(b, t) /\ t.ev = "2MSL"
    BY <1>6, <2>2, <2>5, TellEventIgnores
  <2>8. /\ b.st = f.st /\ b.iss = f.iss /\ b.snd_una = f.snd_una /\ b.snd_max = f.snd_max
        /\ b.qBegin = f.qBegin /\ b.qEnd = f.qEnd /\ b.send_fin = f.send_fin /\ b.snd_fin_seq = f.snd_fin_seq
        /\ b.timers = f.timers /\ b.fin_rcvd = f.fin_rcvd /\ b.out = f.out
    BY <1>5, <2>1 DEF Block
  <2>9. nextState(t) = "CLOSING"
    <3>1. t.st = "CLOSING"
      BY <1>5, <1>8, <2>7, <2>8 DEF Ignores, Keeps, Cancels
    <3>2. ~ Resets(t)
      BY <2>7 DEF Resets
    <3> QED
      BY <2>7, <3>1, <3>2, nextStateIs, SMTT(60) DEF Transition
  <2>10. Moves(c, c, "CLOSING", {})
    BY <1>2, <1>8, RestMoves
  <2>11. Moves(c, f, "CLOSING", {})
    BY <1>5, <2>10, MovesThenCancels
  <2>12. f.fin_rcvd
    BY <1>5, <1>8 DEF Cancels
  <2>13. Moves(c, b, "CLOSING", {})
    <3>1. FinsSent(b)
      BY <2>8, <2>11 DEF Moves, FinsSent, EndsStream
    <3>2. "CLOSING" \in Synchronized
      BY DEF Synchronized
    <3>3. Timed(b)
      <4>1. Timed(f)
        BY <2>11, <3>2 DEF Moves
      <4> QED
        BY <2>8, <4>1 DEF Timed
    <3>4. "CLOSING" \notin Handshake
      BY DEF Handshake
    <3>5. InOrder(b, "CLOSING")
      <4>1. SameNumbers(f, b)
        BY <2>8 DEF SameNumbers
      <4>2. InOrder(f, "CLOSING")
        BY <2>11 DEF Moves
      <4> QED
        BY <4>1, <4>2, SameInOrder
    <3>6. b.failed = "internal error"
      BY <1>5, <2>1 DEF Block
    <3> QED
      BY <2>2, <2>8, <2>11, <2>12, <3>1, <3>2, <3>3, <3>4, <3>5, <3>6 DEF Moves
  <2>14. Moves(c, t, nextState(t), {})
    BY <2>7, <2>9, <2>13, MovesThenIgnores
  <2> QED
    BY <1>1, <2>6, <2>14, CommandInv
<1> QED
  BY <1>3, <1>7, <1>8

LEMMA TimeoutSynRexmitInv ==
  ASSUME IInv, NEW e \in End, TimeoutSynRexmit(e)
  PROVE  IInv'
<1>1. PICK c : c = conn[e]
  OBVIOUS
<1>2. AtRest(c) /\ Sound(c) /\ c \in Block /\ "SYN_REXMIT" \in c.timers /\ c.failed = "no"
  BY <1>1, Rest DEF TimeoutSynRexmit, AtRest
<1>3. c.st \in {"SYN_RCVD", "SYN_SENT"} /\ OnlySyn(c)
  BY <1>2 DEF Sound, Handshake
<1>4. PICK f : f = Fired(e, "SYN_REXMIT")
  OBVIOUS
<1>5. Cancels(c, {"SYN_REXMIT"}, f) /\ f \in Block
  BY <1>1, <1>4, FiredIs
<1>6. Require(c.st \in {"SYN_RCVD", "SYN_SENT"}, f, "internal error") = f
  BY <1>3 DEF Require
<1>7. PICK t : t = SynAgain(f)
  OBVIOUS
<1>8. Finish(e, t, net[e])
  BY <1>1, <1>4, <1>6, <1>7 DEF TimeoutSynRexmit, SynAgain
<1>9. "SYN_REXMIT" \notin f.timers
  BY <1>5 DEF Cancels
<1>10. (Ignores(f, t) /\ t.ev = "ABORT") \/ (Repeats(f, t) /\ t.ev = f.ev)
  BY <1>5, <1>7, <1>9, SynAgainRepeats
<1>11. CASE Ignores(f, t) /\ t.ev = "ABORT"
  <2>1. nextState(t) = "CLOSED"
    BY <1>11, IgnoredNext
  <2>2. Moves(c, c, "CLOSED", {})
    BY <1>2, <1>3, RestMoves
  <2>3. Moves(c, f, "CLOSED", {})
    BY <1>5, <2>2, MovesThenCancels
  <2>4. Moves(c, t, nextState(t), {})
    BY <1>11, <2>1, <2>3, MovesThenIgnores
  <2> QED
    BY <1>1, <1>8, <2>4, CommandInv
<1>12. CASE Repeats(f, t) /\ t.ev = f.ev
  <2>1. /\ f.st = c.st /\ f.iss = c.iss /\ f.snd_una = c.snd_una /\ f.snd_nxt = c.snd_nxt
        /\ f.snd_max = c.snd_max /\ f.send_fin = c.send_fin
        /\ f.failed = c.failed /\ f.ev = c.ev /\ f.out = c.out
        /\ f.timers = c.timers \ {"SYN_REXMIT"} /\ f.qBegin = c.qBegin /\ f.qEnd = c.qEnd
        /\ f.fin_rcvd = c.fin_rcvd /\ f.snd_fin_seq = c.snd_fin_seq
    BY <1>5 DEF Cancels
  <2>2. FinsSent(c) => FinsSent(f)
    BY <2>1 DEF FinsSent, EndsStream
  <2>3. /\ t \in Block /\ t.st = f.st /\ t.iss = f.iss /\ t.snd_una = f.snd_una
        /\ t.qBegin = f.qBegin /\ t.qEnd = f.qEnd
        /\ t.snd_nxt = Plus(f.iss, 1) /\ t.snd_max = Plus(f.iss, 1)
        /\ t.send_fin = f.send_fin /\ t.snd_fin_seq = f.snd_fin_seq /\ t.fin_rcvd = f.fin_rcvd
        /\ t.timers = f.timers \cup {"SYN_REXMIT"} /\ t.failed = f.failed
        /\ FinsSent(f) => FinsSent(t)
    BY <1>12 DEF Repeats
  <2>4. t.timers = c.timers \cup {"SYN_REXMIT"} /\ (FinsSent(c) => FinsSent(t))
    BY <2>1, <2>2, <2>3
  <2>5. Repeats(c, t)
    BY <2>1, <2>3, <2>4 DEF Repeats
  <2>6. nextState(t) = c.st
    <3>1. t.ev = "IGNORE" /\ t.st = c.st
      BY <1>2, <1>12, <2>1, <2>3 DEF AtRest
    <3> QED
      BY <3>1, IgnoredNext
  <2>7. Moves(c, c, c.st, {})
    BY <1>2, <1>3, RestMoves
  <2>8. Moves(c, t, c.st, {})
    BY <1>2, <1>3, <2>5, <2>7, RepeatsMoves DEF Handshake
  <2>9. Moves(c, t, nextState(t), {})
    BY <2>6, <2>8
  <2> QED
    BY <1>1, <1>8, <2>9, CommandInv
<1> QED
  BY <1>10, <1>11, <1>12

LEMMA TimeoutRexmitInv ==
  ASSUME IInv, NEW e \in End, TimeoutRexmit(e)
  PROVE  IInv'
<1>1. PICK c : c = conn[e]
  OBVIOUS
<1>2. AtRest(c) /\ Sound(c) /\ c \in Block /\ "REXMIT" \in c.timers /\ c.failed = "no"
  BY <1>1, Rest DEF TimeoutRexmit, AtRest
<1>3. c.st \in Synchronized /\ Timed(c) /\ c.st # "CLOSED"
  BY <1>2 DEF Sound, Synchronized
<1>4. PICK f : f = Fired(e, "REXMIT")
  OBVIOUS
<1>5. Cancels(c, {"REXMIT"}, f) /\ f \in Block
  BY <1>1, <1>4, FiredIs
<1>6. PICK t : t = processRexmitTimer(f)
  OBVIOUS
<1>7. Finish(e, t, net[e])
  BY <1>4, <1>6 DEF TimeoutRexmit
<1>8. "REXMIT" \notin f.timers /\ f.st = c.st /\ f.ev = "IGNORE"
  BY <1>2, <1>5 DEF Cancels, AtRest
<1>9. Retransmits(f, t)
  BY <1>5, <1>6, <1>8, processRexmitTimerRetransmits
<1>10. Moves(c, c, c.st, {})
  BY <1>2, <1>3, RestMoves
<1>11. PICK x : x = nextState(t)
  OBVIOUS
<1>12. \/ Ignores(f, t) /\ x = "CLOSED"
       \/ Sends(f, t) /\ t.snd_max = f.snd_max /\ t.timers = f.timers \cup {"REXMIT"} /\ x = c.st
  <2>1. CASE Ignores(f, t) /\ t.ev = "ABORT"
    BY <1>11, <2>1, IgnoredNext
  <2>2. CASE Sends(f, t) /\ t.snd_max = f.snd_max /\ t.timers = f.timers \cup {"REXMIT"}
    <3>1. t.ev = "IGNORE" /\ t.st = c.st
      BY <1>8, <2>2 DEF Sends
    <3> QED
      BY <1>11, <2>2, <3>1, IgnoredNext
  <2> QED
    BY <1>9, <2>1, <2>2 DEF Retransmits
<1>13. Moves(c, t, x, {})
  BY <1>2, <1>3, <1>5, <1>10, <1>12, RetransmitsMoves
<1> QED
  BY <1>1, <1>7, <1>11, <1>13, CommandInv


-----------------------------------------------------------------------------
(* Theorems. *)

LEMMA InitIInv == Init => IInv
<1> SUFFICES ASSUME Init PROVE IInv
  OBVIOUS
<1>1. NewConnection \in Block /\ NewConnection.out = {} /\ NewConnection.ev = "IGNORE"
      /\ NewConnection.failed = "no"
  BY NewConnectionType DEF NewConnection
<1>2. NewConnection = Stored(NewConnection)
  <2>1. PICK c : c = NewConnection
    OBVIOUS
  <2>2. c \in Block /\ c.out = {} /\ c.ev = "IGNORE" /\ c.failed = "no"
    BY <1>1, <2>1
  <2>3. c = [c EXCEPT !.out = {}, !.ev = "IGNORE", !.failed = "no"]
    BY <2>2 DEF Block
  <2> QED
    BY <2>1, <2>3 DEF Stored
<1>3. NewConnection \in ConnectionBlock /\ NewConnection.ssthresh > 0
  BY <1>1, <1>2, StoredType, Zenon
<1>4. Sound(NewConnection)
  BY DEF NewConnection, Sound, InOrder, Live, Handshake, Synchronized
<1>5. NewConnection.st # "CLOSING"
  BY DEF NewConnection
<1>6. TypeInv
  BY <1>3 DEF Init, TypeInv, Failure
<1>7. \A e \in End : conn[e] = NewConnection
  BY DEF Init
<1>8. FinsInNet /\ FinReceived /\ TimerErrors /\ QueueErrors
  BY <1>5, <1>7 DEF Init, FinsInNet, FinReceived, TimerErrors, QueueErrors
<1> QED
  BY <1>4, <1>6, <1>7, <1>8 DEF IInv

LEMMA NextIInv == IInv /\ [Next]_vars => IInv'
<1> SUFFICES ASSUME IInv, [Next]_vars PROVE IInv'
  OBVIOUS
<1>1. CASE UNCHANGED vars
  <2>1. conn' = conn /\ net' = net /\ aborted' = aborted
    BY <1>1 DEF vars
  <2>2. TypeInv'
    BY <2>1 DEF IInv, TypeInv
  <2>3. (\A e \in End : Sound(conn[e]))'
    BY <2>1 DEF IInv, Sound, Timed, OnlySyn, InOrder, Order, Offsets
  <2>4. FinsInNet' /\ FinReceived'
    BY <2>1 DEF IInv, FinsInNet, FinReceived, EndsStream
  <2>5. TimerErrors' /\ QueueErrors'
    BY <2>1 DEF IInv, TimerErrors, QueueErrors, EarlyFin
  <2> QED
    BY <2>2, <2>3, <2>4, <2>5 DEF IInv
<1>2. ASSUME NEW e \in End, OpenActive(e)
      PROVE  IInv'
  BY <1>2, OpenActiveInv
<1>3. ASSUME NEW e \in End, OpenPassive(e)
      PROVE  IInv'
  BY <1>3, OpenPassiveInv
<1>4. ASSUME NEW e \in End, CloseCommand(e)
      PROVE  IInv'
  BY <1>4, CloseCommandInv
<1>5. ASSUME NEW e \in End, AbortCommand(e)
      PROVE  IInv'
  BY <1>5, AbortCommandInv
<1>6. ASSUME NEW e \in End, NEW n \in Message[e], SendCommand(e, n)
      PROVE  IInv'
  BY <1>6, SendCommandInv
<1>7. ASSUME NEW e \in End, NEW seg \in net[e], Arrive(e, seg)
      PROVE  IInv'
  BY <1>7, ArriveInv
<1>8. ASSUME NEW e \in End, Timeout(e)
      PROVE  IInv'
  BY <1>8, TimeoutConnEstabInv, Timeout2MSLInv, TimeoutSynRexmitInv, TimeoutRexmitInv DEF Timeout
<1> QED
  BY <1>1, <1>2, <1>3, <1>4, <1>5, <1>6, <1>7, <1>8 DEF Next

\* The inductive invariant holds in every state of a run.
THEOREM Inductive == Spec => []IInv
BY InitIInv, NextIInv, PTL DEF Spec

\* The connection blocks, the segments on their way and the error keep their types, for
\* every size of the sequence number space and whatever is sent: no number leaves the space,
\* no window its limit, and neither retransmission counter (process_TIMEOUT_REXMT,
\* process_TIMEOUT_SYN_REXMT) its maximum.
THEOREM TypeCorrect == Spec => []TypeOK
<1>1. IInv => TypeOK
  BY DEF IInv, TypeInv, TypeOK, Failure
<1> QED
  BY <1>1, Inductive, PTL

\* sendData, receivedDataAck and the retransmissions never leave bytes unacknowledged
\* without the retransmission timer.
THEOREM TimedAlways == Spec => []DataIsTimed
<1>1. IInv => DataIsTimed
  <2>1. SUFFICES ASSUME IInv, NEW e \in End, conn[e].st \in Synchronized,
                        conn[e].snd_una # conn[e].iss, seqLess(conn[e].snd_una, conn[e].qEnd),
                        seqLess(conn[e].snd_una, conn[e].snd_max)
                 PROVE  "REXMIT" \in conn[e].timers
    BY DEF DataIsTimed
  <2>2. Sound(conn[e])
    BY <2>1 DEF IInv
  <2>3. Timed(conn[e]) /\ (conn[e].send_fin => conn[e].snd_fin_seq = conn[e].qEnd)
    BY <2>1, <2>2 DEF Sound
  <2>4. conn[e].snd_una # conn[e].qEnd /\ conn[e].snd_una # conn[e].snd_max
    BY <2>1 DEF seqLess
  <2> QED
    BY <2>1, <2>3, <2>4 DEF Timed
<1> QED
  BY <1>1, Inductive, PTL

\* A timer that expires in a state that does not expect it, or is scheduled twice, is the
\* work of a FIN that overtook data, whatever is sent (process_TIMEOUT_2MSL, processSegment1stThru8th).
THEOREM TimerErrorsAlways == Spec => []TimerErrors
<1>1. IInv => TimerErrors
  BY DEF IInv
<1> QED
  BY <1>1, Inductive, PTL

\* As long as what an application writes on a connection fits in half of the sequence number
\* space, no acknowledgement makes discardUpTo fail, and the errors of timers follow an early FIN.
THEOREM ErrorsFollowEarlyFin ==
  ASSUME Fits
  PROVE  Spec => []ErrorsOnlyAfterEarlyFin
<1>1. IInv => ErrorsOnlyAfterEarlyFin
  BY DEF IInv, TimerErrors, QueueErrors, ErrorsOnlyAfterEarlyFin
<1> QED
  BY <1>1, Inductive, PTL

-----------------------------------------------------------------------------
(* What the segments say: text from the send queue, the initial sequence number, and how *)
(* far the sender has received.                                                          *)

LEMMA SpeaksTransitive ==
  ASSUME NEW s, NEW t, NEW u, Speaks(s, t), Speaks(t, u)
  PROVE  Speaks(s, u)
<1>1. SameEars(s, u) /\ SameNotes(s, u) /\ (u.failed = "no" => s.failed = "no")
  BY DEF Speaks, SameEars, SameNotes
<1>2. ASSUME u.failed = "no", NEW seg \in u.out, seg \notin s.out
      PROVE  Said(s, seg)
  <2>1. CASE seg \in t.out
    BY <1>2, <2>1 DEF Speaks
  <2>2. CASE seg \notin t.out
    <3>1. Said(t, seg) /\ t.iss = s.iss /\ t.qEnd = s.qEnd /\ t.rcv_nxt = s.rcv_nxt
      BY <1>2, <2>2 DEF Speaks, SameEars, SameNotes
    <3> QED
      BY <3>1 DEF Said, InQueue
  <2> QED
    BY <2>1, <2>2
<1> QED
  BY <1>1, <1>2 DEF Speaks

LEMMA HushedTransitive ==
  ASSUME NEW s, NEW t, NEW u, Hushed(s, t), Hushed(t, u)
  PROVE  Hushed(s, u)
<1>1. Speaks(s, u)
  BY SpeaksTransitive, Zenon DEF Hushed
<1> QED
  BY <1>1, Zenon DEF Hushed

\* Nothing is said.
LEMMA QuietHushed ==
  ASSUME NEW s, NEW t, SameEars(s, t), SameNotes(s, t), t.out = s.out,
         t.failed = "no" => s.failed = "no"
  PROVE  Hushed(s, t)
BY Zenon DEF Hushed, Speaks

LEMMA SpeaksItself ==
  ASSUME NEW s
  PROVE  Hushed(s, s) /\ Speaks(s, s)
BY Zenon DEF Hushed, Speaks, SameEars, SameNotes

\* A segment without text leaves.
LEMMA EmittedHushed ==
  ASSUME NEW s \in Block, NEW seg \in TCPSegment, seg.len = 0, Said(s, seg)
  PROVE  Hushed(s, Emit(s, seg))
<1>1. PICK t : t = Emit(s, seg)
  OBVIOUS
<1>2. /\ t.out = s.out \cup {seg} /\ t.failed = s.failed
      /\ t.irs = s.irs /\ t.rcv_nxt = s.rcv_nxt /\ t.rcvd = s.rcvd /\ t.buf = s.buf
      /\ t.fin_rcvd = s.fin_rcvd /\ t.rcv_fin_seq = s.rcv_fin_seq /\ t.told = s.told
      /\ t.iss = s.iss /\ t.qEnd = s.qEnd /\ t.snd_una = s.snd_una
      /\ t.fin_ack_rcvd = s.fin_ack_rcvd
      /\ t.send_fin = s.send_fin /\ t.snd_fin_seq = s.snd_fin_seq
  BY <1>1 DEF Emit, Block
<1>3. SameEars(s, t) /\ SameNotes(s, t)
  BY <1>2 DEF SameEars, SameNotes, Closings
<1>4. Hushed(s, t)
  BY <1>2, <1>3 DEF Hushed, Speaks
<1> QED
  BY <1>1, <1>4

LEMMA sendAckHushed ==
  ASSUME NEW s \in Block
  PROVE  Hushed(s, sendAck(s))
<1> DEFINE seg == [NoFlags EXCEPT !.ack = TRUE, !.seq = s.snd_nxt, !.ackNo = s.rcv_nxt]
<1>1. seg \in TCPSegment /\ seg.len = 0 /\ ~ seg.syn /\ seg.ackNo = s.rcv_nxt
  BY NumbersIn, Segments DEF NoFlags, TCPSegment
<1> HIDE DEF seg
<1>2. sendAck(s) = Emit(s, seg)
  BY DEF sendAck, seg
<1>3. Said(s, seg)
  BY <1>1 DEF Said
<1> QED
  BY <1>1, <1>2, <1>3, EmittedHushed, Zenon

LEMMA sendRstHushed ==
  ASSUME NEW s \in Block, NEW n \in SeqNo
  PROVE  Hushed(s, sendRst(s, n))
<1> DEFINE seg == [NoFlags EXCEPT !.rst = TRUE, !.seq = n]
<1>1. seg \in TCPSegment /\ seg.len = 0 /\ seg.rst
  BY Segments DEF NoFlags, TCPSegment
<1> HIDE DEF seg
<1>2. sendRst(s, n) = Emit(s, seg)
  BY DEF sendRst, seg
<1>3. Said(s, seg)
  BY <1>1 DEF Said
<1> QED
  BY <1>1, <1>2, <1>3, EmittedHushed, Zenon

\* A SYN, with or without an acknowledgement.
LEMMA sendSynHushed ==
  ASSUME NEW s \in Block
  PROVE  Hushed(s, sendSyn(s)) /\ Hushed(s, sendSynAck(s))
<1>1. PICK m \in SeqNo : m = Plus(s.iss, 1)
  BY NumbersIn, PlusType, Windows
<1>2. PICK g : g = [s EXCEPT !.snd_nxt = m, !.snd_max = m]
  OBVIOUS
<1>3. g \in Block
  BY <1>2, ZenonT(60) DEF Block
<1>4. /\ g.out = s.out /\ g.failed = s.failed
      /\ g.irs = s.irs /\ g.rcv_nxt = s.rcv_nxt /\ g.rcvd = s.rcvd /\ g.buf = s.buf
      /\ g.fin_rcvd = s.fin_rcvd /\ g.rcv_fin_seq = s.rcv_fin_seq /\ g.told = s.told
      /\ g.iss = s.iss /\ g.qEnd = s.qEnd /\ g.snd_una = s.snd_una
      /\ g.fin_ack_rcvd = s.fin_ack_rcvd
      /\ g.send_fin = s.send_fin /\ g.snd_fin_seq = s.snd_fin_seq
  BY <1>2 DEF Block
<1>5. Hushed(s, g)
  <2>1. SameEars(s, g) /\ SameNotes(s, g)
    BY <1>4 DEF SameEars, SameNotes, Closings
  <2> QED
    BY <1>4, <2>1, QuietHushed
<1>6. PICK p : p = [NoFlags EXCEPT !.syn = TRUE, !.seq = s.iss]
  OBVIOUS
<1>7. p \in TCPSegment /\ p.len = 0 /\ ~ p.ack /\ p.seq = s.iss
  BY <1>6, NumbersIn, Segments DEF NoFlags, TCPSegment
<1>8. PICK q : q = [NoFlags EXCEPT !.syn = TRUE, !.ack = TRUE, !.seq = s.iss, !.ackNo = s.rcv_nxt]
  OBVIOUS
<1>9. q \in TCPSegment /\ q.len = 0 /\ q.seq = s.iss /\ q.ackNo = s.rcv_nxt
  BY <1>8, NumbersIn, Segments DEF NoFlags, TCPSegment
<1>10. sendSyn(s) = Emit(g, p) /\ sendSynAck(s) = Emit(g, q)
  BY <1>1, <1>2, <1>6, <1>8 DEF sendSyn, sendSynAck
<1>11. Said(g, p) /\ Said(g, q)
  BY <1>4, <1>7, <1>9 DEF Said
<1>12. Hushed(g, Emit(g, p)) /\ Hushed(g, Emit(g, q))
  BY <1>3, <1>7, <1>9, <1>11, EmittedHushed
<1> QED
  BY <1>5, <1>10, <1>12, HushedTransitive

LEMMA MuteHushed ==
  ASSUME NEW s, NEW t, Mute(s, t)
  PROVE  Hushed(s, t) /\ Speaks(s, t)
<1>1. SameEars(s, t) /\ SameNotes(s, t)
  BY DEF Mute, SameEars, SameNotes, Closings
<1>2. Hushed(s, t)
  BY <1>1, QuietHushed DEF Mute
<1> QED
  BY <1>2 DEF Hushed

\* Fields that do not matter to what is said.
LEMMA AdjustedMute ==
  ASSUME NEW s \in Block, NEW v
  PROVE  /\ Mute(s, [s EXCEPT !.cwnd = v]) /\ Mute(s, [s EXCEPT !.ssthresh = v])
         /\ Mute(s, [s EXCEPT !.dupacks = v]) /\ Mute(s, [s EXCEPT !.rexmit_count = v])
         /\ Mute(s, [s EXCEPT !.snd_nxt = v]) /\ Mute(s, [s EXCEPT !.snd_max = v])
         /\ Mute(s, [s EXCEPT !.ev = v]) /\ Mute(s, [s EXCEPT !.timers = v])
         /\ Mute(s, [s EXCEPT !.syn_rexmit_count = v]) /\ Mute(s, [s EXCEPT !.active = v])
         /\ Mute(s, [s EXCEPT !.qBegin = v]) /\ Mute(s, [s EXCEPT !.remote = v])
<1>1. /\ Mute(s, [s EXCEPT !.cwnd = v]) /\ Mute(s, [s EXCEPT !.ssthresh = v])
      /\ Mute(s, [s EXCEPT !.dupacks = v]) /\ Mute(s, [s EXCEPT !.rexmit_count = v])
  BY SMTT(40) DEF Mute, Block
<1>2. /\ Mute(s, [s EXCEPT !.snd_nxt = v]) /\ Mute(s, [s EXCEPT !.snd_max = v])
      /\ Mute(s, [s EXCEPT !.ev = v]) /\ Mute(s, [s EXCEPT !.timers = v])
  BY SMTT(40) DEF Mute, Block
<1>3. /\ Mute(s, [s EXCEPT !.syn_rexmit_count = v]) /\ Mute(s, [s EXCEPT !.active = v])
      /\ Mute(s, [s EXCEPT !.qBegin = v]) /\ Mute(s, [s EXCEPT !.remote = v])
  BY SMTT(40) DEF Mute, Block
<1> QED
  BY <1>1, <1>2, <1>3

LEMMA RequireMute ==
  ASSUME NEW s \in Block, NEW cond, NEW what \in Failure, what # "no"
  PROVE  /\ Mute(s, Require(cond, s, what)) /\ Require(cond, s, what) \in Block
         /\ Require(cond, s, what).failed = "no" => cond
<1>1. CASE cond \/ s.failed # "no"
  <2>1. Require(cond, s, what) = s
    BY <1>1 DEF Require
  <2> QED
    BY <1>1, <2>1 DEF Mute
<1>2. CASE ~ (cond \/ s.failed # "no")
  <2>1. PICK t : t = [s EXCEPT !.failed = what]
    OBVIOUS
  <2>2. Require(cond, s, what) = t
    BY <1>2, <2>1 DEF Require
  <2>3. Mute(s, t) /\ t.failed = what
    BY <1>2, <2>1, SMTT(40) DEF Mute, Block
  <2>4. t \in Block
    BY <2>1, ZenonT(60) DEF Block
  <2> QED
    BY <2>2, <2>3, <2>4
<1> QED
  BY <1>1, <1>2

LEMMA scheduleTimeoutMute ==
  ASSUME NEW s \in Block, NEW n \in TimerName
  PROVE  Mute(s, scheduleTimeout(s, n)) /\ scheduleTimeout(s, n) \in Block
<1>1. PICK g : g = Require(n \notin s.timers, s, "already scheduled")
  OBVIOUS
<1>2. Mute(s, g) /\ g \in Block
  BY <1>1, RequireMute DEF Failure
<1>3. Mute(g, [g EXCEPT !.timers = g.timers \cup {n}])
  BY <1>2, AdjustedMute
<1>4. scheduleTimeout(s, n) = [g EXCEPT !.timers = g.timers \cup {n}]
  BY <1>1 DEF scheduleTimeout
<1>5. scheduleTimeout(s, n) \in Block
  BY Scheduled
<1> QED
  BY <1>2, <1>3, <1>4, <1>5 DEF Mute

LEMMA cancelEventMute ==
  ASSUME NEW s \in Block, NEW ts
  PROVE  Mute(s, cancelEvent(s, ts)) /\ cancelEvent(s, ts) \in Block
<1>1. PICK t : t = [s EXCEPT !.timers = s.timers \ ts]
  OBVIOUS
<1>2. cancelEvent(s, ts) = t
  BY <1>1 DEF cancelEvent
<1>3. t \in Block
  BY <1>1, SMTT(40) DEF Block
<1>4. Mute(s, t)
  BY <1>1, AdjustedMute
<1> QED
  BY <1>2, <1>3, <1>4

\* An indication other than that the peer has closed.
LEMMA TellHushed ==
  ASSUME NEW s \in Block, NEW code \in Indication, code # "PEER_CLOSED"
  PROVE  Hushed(s, Tell(s, code))
<1>1. PICK t : t = Tell(s, code)
  OBVIOUS
<1>2. /\ t.irs = s.irs /\ t.rcv_nxt = s.rcv_nxt /\ t.rcvd = s.rcvd /\ t.buf = s.buf
      /\ t.fin_rcvd = s.fin_rcvd /\ t.rcv_fin_seq = s.rcv_fin_seq
      /\ t.told = Append(s.told, code)
      /\ t.iss = s.iss /\ t.qEnd = s.qEnd /\ t.snd_una = s.snd_una
      /\ t.fin_ack_rcvd = s.fin_ack_rcvd
      /\ t.send_fin = s.send_fin /\ t.snd_fin_seq = s.snd_fin_seq
      /\ t.out = s.out /\ t.failed = s.failed
  BY <1>1, SMTT(40) DEF Tell, Block
<1>3. Closings(t) = Closings(s)
  <2>1. PICK q \in Seq(Indication) : q = s.told
    BY DEF Block
  <2>2. PICK r : r = Append(q, code)
    OBVIOUS
  <2>3. /\ DOMAIN r = 1 .. Len(q) + 1 /\ DOMAIN q = 1 .. Len(q) /\ Len(q) \in Nat
        /\ r[Len(q) + 1] = code /\ \A i \in 1 .. Len(q) : r[i] = q[i]
    BY <2>2
  <2>4. {i \in DOMAIN r : r[i] = "PEER_CLOSED"} = {i \in DOMAIN q : q[i] = "PEER_CLOSED"}
    BY <2>3
  <2> QED
    BY <1>2, <2>1, <2>2, <2>4 DEF Closings
<1>4. SameEars(s, t) /\ SameNotes(s, t)
  BY <1>2, <1>3 DEF SameEars, SameNotes
<1>5. Hushed(s, t)
  BY <1>2, <1>4, QuietHushed
<1> QED
  BY <1>1, <1>5

LEMMA startRexmitTimerHushed ==
  ASSUME NEW s \in Block
  PROVE  Hushed(s, startRexmitTimer(s))
<1>1. PICK t : t = scheduleTimeout(s, "REXMIT")
  OBVIOUS
<1>2. Mute(s, t) /\ t \in Block
  BY <1>1, scheduleTimeoutMute DEF TimerName
<1>3. Mute(t, [t EXCEPT !.rexmit_count = 0])
  BY <1>2, AdjustedMute
<1>4. startRexmitTimer(s) = [t EXCEPT !.rexmit_count = 0]
  BY <1>1 DEF startRexmitTimer
<1> QED
  BY <1>2, <1>3, <1>4, MuteHushed, HushedTransitive

LEMMA dataSentHushed ==
  ASSUME NEW s \in Block
  PROVE  Hushed(s, dataSent(s))
BY startRexmitTimerHushed, SpeaksItself DEF dataSent

LEMMA updateWindowMute ==
  ASSUME NEW s \in Block, NEW a, NEW b
  PROVE  Mute(s, updateWindow(s, a, b))
BY SMTT(40) DEF updateWindow, Mute, Block

LEMMA discardUpToMute ==
  ASSUME NEW s \in Block, NEW n \in SeqNo
  PROVE  Mute(s, discardUpTo(s, n)) /\ discardUpTo(s, n) \in Block
<1>1. PICK ok : ok = (seqLE(s.qBegin, n) /\ seqLE(n, s.qEnd))
  OBVIOUS
<1>2. PICK t : t = Require(ok, s, "discardUpTo")
  OBVIOUS
<1>3. Mute(s, t) /\ t \in Block
  BY <1>2, RequireMute DEF Failure
<1>4. PICK u : u = [t EXCEPT !.qBegin = n]
  OBVIOUS
<1>5. Mute(t, u)
  BY <1>3, <1>4, AdjustedMute
<1>6. u \in Block
  BY <1>3, <1>4, ZenonT(60) DEF Block
<1>7. discardUpTo(s, n) = u
  BY <1>1, <1>2, <1>4 DEF discardUpTo
<1> QED
  BY <1>3, <1>5, <1>6, <1>7 DEF Mute

LEMMA startSynRexmitTimerMute ==
  ASSUME NEW s \in Block
  PROVE  Mute(s, startSynRexmitTimer(s)) /\ startSynRexmitTimer(s) \in Block
<1>1. PICK g : g = [s EXCEPT !.syn_rexmit_count = 0]
  OBVIOUS
<1>2. 0 \in 0 .. MaxSynRexmit
  BY ParamAssumption
<1>3. g \in Block
  BY <1>1, <1>2, ZenonT(60) DEF Block
<1>4. Mute(s, g)
  BY <1>1, AdjustedMute
<1>5. PICK c : c = cancelEvent(g, {"SYN_REXMIT"})
  OBVIOUS
<1>6. c \in Block /\ Mute(g, c)
  BY <1>3, <1>5, cancelEventMute
<1>7. Mute(c, scheduleTimeout(c, "SYN_REXMIT")) /\ scheduleTimeout(c, "SYN_REXMIT") \in Block
  BY <1>6, scheduleTimeoutMute DEF TimerName
<1>8. startSynRexmitTimer(s) = scheduleTimeout(c, "SYN_REXMIT")
  BY <1>1, <1>5 DEF startSynRexmitTimer
<1> QED
  BY <1>4, <1>6, <1>7, <1>8 DEF Mute

\* A segment that sendSegments makes from the queue.
LEMMA SegmentSaid ==
  ASSUME NEW s \in Block, NEW j \in Nat, NEW n \in Nat, NEW k \in 0 .. SeqMod - 1,
         1 <= j, j + k <= n, n + 1 < SeqMod \div 2,
         s.snd_nxt = Plus(s.iss, j), s.qEnd = Plus(s.iss, n),
         NEW i \in 0 .. k - 1, NEW f,
         NEW seg, seg = [NoFlags EXCEPT !.ack = TRUE, !.ackNo = s.rcv_nxt,
                           !.seq = Plus(s.snd_nxt, i), !.len = Least(MSS, k - i), !.fin = f]
  PROVE  Said(s, seg)
<1>1. /\ n \in Nat /\ i \in Nat /\ k \in Nat /\ i < k /\ SeqMod \in Nat
      /\ j + i \in 0 .. SeqMod /\ j \in 0 .. SeqMod /\ i \in 0 .. SeqMod
  BY Windows
<1>2. PICK l : l = Least(MSS, k - i)
  OBVIOUS
<1>3. l \in Nat /\ l <= k - i
  BY <1>1, <1>2, Windows DEF Least
<1>4. PICK q : q = Plus(s.snd_nxt, i)
  OBVIOUS
<1>5. q = Plus(s.iss, j + i)
  BY <1>1, <1>4, PlusPlus, NumbersIn
<1>6. /\ seg.seq = q /\ seg.len = l /\ ~ seg.syn /\ seg.ackNo = s.rcv_nxt
  BY <1>2, <1>4 DEF NoFlags
<1>7. j + i \in Nat /\ 1 <= j + i /\ (j + i) + l <= n
  BY <1>1, <1>3
<1>8. InQueue(s, seg)
  BY <1>5, <1>6, <1>7 DEF InQueue
<1> QED
  BY <1>6, <1>8 DEF Said

LEMMA sendSegmentsQueue ==
  ASSUME NEW s \in Block, NEW k \in 0 .. SeqMod - 1, sendSegments(s, k).failed = "no"
  PROVE  seqLE(s.qBegin, s.snd_nxt) /\ seqLE(Plus(s.snd_nxt, k), s.qEnd)
<1> DEFINE end == Plus(s.snd_nxt, k)
           fin == s.send_fin /\ end = s.snd_fin_seq
           starts == {i \in 0 .. k - 1 : i % MSS = 0}
           segment(i) == [NoFlags EXCEPT !.ack = TRUE, !.ackNo = s.rcv_nxt,
                            !.seq = Plus(s.snd_nxt, i), !.len = Least(MSS, k - i),
                            !.fin = fin /\ i + MSS >= k]
           sent == {segment(i) : i \in starts}
           last == IF fin THEN Plus(end, 1) ELSE end
<1>1. PICK c \in BOOLEAN : c = (seqLE(s.qBegin, s.snd_nxt) /\ seqLE(end, s.qEnd))
  OBVIOUS
<1>2. PICK o : o = Require(c, s, "createSegmentWithBytes")
  OBVIOUS
<1>3. sendSegments(s, k) = [o EXCEPT !.out = @ \cup sent, !.snd_nxt = last]
  BY <1>1, <1>2 DEF sendSegments
<1> HIDE DEF sent, last
<1>4. o \in Block /\ (o.failed = "no" => c)
  BY <1>2, RequireMute DEF Failure
<1>5. [o EXCEPT !.out = @ \cup sent, !.snd_nxt = last].failed = o.failed
  BY <1>4 DEF Block
<1> QED
  BY <1>1, <1>3, <1>4, <1>5

LEMMA sendSegmentsSpeaks ==
  ASSUME NEW s \in Block, NEW j \in Nat, NEW n \in Nat, NEW k \in 0 .. SeqMod - 1,
         n + 1 < SeqMod \div 2, s.snd_nxt = Plus(s.iss, j), s.qEnd = Plus(s.iss, n),
         sendSegments(s, k).failed = "no" => 1 <= j /\ j + k <= n
  PROVE  Speaks(s, sendSegments(s, k))
<1> DEFINE end == Plus(s.snd_nxt, k)
           fin == s.send_fin /\ end = s.snd_fin_seq
           starts == {i \in 0 .. k - 1 : i % MSS = 0}
           segment(i) == [NoFlags EXCEPT !.ack = TRUE, !.ackNo = s.rcv_nxt,
                            !.seq = Plus(s.snd_nxt, i), !.len = Least(MSS, k - i),
                            !.fin = fin /\ i + MSS >= k]
           sent == {segment(i) : i \in starts}
           last == IF fin THEN Plus(end, 1) ELSE end
<1>1. PICK c \in BOOLEAN : c = (seqLE(s.qBegin, s.snd_nxt) /\ seqLE(end, s.qEnd))
  OBVIOUS
<1>2. PICK o : o = Require(c, s, "createSegmentWithBytes")
  OBVIOUS
<1>3. PICK t : t = [o EXCEPT !.out = o.out \cup sent, !.snd_nxt = last]
  OBVIOUS
<1>4. sendSegments(s, k) = t
  BY <1>1, <1>2, <1>3 DEF sendSegments
<1>5. ASSUME t.failed = "no", NEW seg \in sent
      PROVE  Said(s, seg)
  <2>1. 1 <= j /\ j + k <= n
    BY <1>4, <1>5
  <2>2. PICK i \in starts : seg = segment(i)
    BY <1>5
  <2>3. i \in 0 .. k - 1
    BY <2>2
  <2>4. PICK f : f = (fin /\ i + MSS >= k)
    OBVIOUS
  <2>5. seg = [NoFlags EXCEPT !.ack = TRUE, !.ackNo = s.rcv_nxt,
                           !.seq = Plus(s.snd_nxt, i), !.len = Least(MSS, k - i), !.fin = f]
    BY <2>2, <2>4
  <2> HIDE DEF segment, sent, starts, fin
  <2> QED
    BY <2>1, <2>3, <2>5, SegmentSaid
<1> HIDE DEF sent, last
<1>6. o \in Block /\ Mute(s, o)
  BY <1>2, RequireMute DEF Failure
<1>7. /\ t.irs = o.irs /\ t.rcv_nxt = o.rcv_nxt /\ t.rcvd = o.rcvd /\ t.buf = o.buf
      /\ t.fin_rcvd = o.fin_rcvd /\ t.rcv_fin_seq = o.rcv_fin_seq /\ t.told = o.told
      /\ t.iss = o.iss /\ t.qEnd = o.qEnd /\ t.snd_una = o.snd_una
      /\ t.fin_ack_rcvd = o.fin_ack_rcvd
      /\ t.send_fin = o.send_fin /\ t.snd_fin_seq = o.snd_fin_seq
      /\ t.out = o.out \cup sent /\ t.failed = o.failed
  BY <1>3, <1>6, SMTT(40) DEF Block
<1>8. SameEars(s, t) /\ SameNotes(s, t)
  BY <1>6, <1>7 DEF SameEars, SameNotes, Closings, Mute
<1>9. (t.failed = "no" => s.failed = "no") /\ t.out = s.out \cup sent
  BY <1>6, <1>7 DEF Mute
<1>10. Speaks(s, t)
  BY <1>5, <1>8, <1>9 DEF Speaks
<1> QED
  BY <1>4, <1>10

-----------------------------------------------------------------------------
(* What may be sent lies in the queue. *)

LEMMA OrderQueued ==
  ASSUME NEW s, Order(s)
  PROVE  Queued(s)
<1>1. PICK u, m, n \in Nat : Offsets(s, u, m, n)
  BY DEF Order
<1>2. /\ 1 <= m /\ m <= n + 1 /\ n + 1 < SeqMod \div 2
      /\ s.snd_max = Plus(s.iss, m) /\ s.qEnd = Plus(s.iss, n)
  BY <1>1 DEF Offsets
<1> QED
  BY <1>2 DEF Queued

LEMMA sendDataSpeaks ==
  ASSUME NEW s \in Block, Queued(s)
  PROVE  Speaks(s, sendData(s))
<1>1. PICK m \in Nat, n \in Nat : /\ 1 <= m /\ m <= n + 1 /\ n + 1 < SeqMod \div 2
                          /\ s.snd_max = Plus(s.iss, m) /\ s.qEnd = Plus(s.iss, n)
  BY DEF Queued
<1>2. PICK k \in 0 .. SeqMod - 1 : k = bytesToSend(s) /\ k <= bytesAvailable(s)
  BY bytesToSendType
<1>3. PICK g : g = [s EXCEPT !.snd_nxt = s.snd_max]
  OBVIOUS
<1>4. g \in Block /\ Mute(s, g)
  <2>1. g \in Block
    BY <1>3, NumbersIn, ZenonT(60) DEF Block
  <2> QED
    BY <1>3, <2>1, AdjustedMute
<1>5. Speaks(s, g) /\ g.iss = s.iss /\ g.qEnd = s.qEnd
  BY <1>4, MuteHushed DEF Mute
<1>6. g.snd_nxt = s.snd_max
  BY <1>3 DEF Block
<1>7. CASE k = 0
  <2>1. sendData(s) = g
    BY <1>2, <1>3, <1>7 DEF sendData
  <2> QED
    BY <1>5, <2>1
<1>8. CASE k # 0
  <2>1. m \in 0 .. SeqMod \div 2 - 1 /\ n \in 0 .. SeqMod \div 2 - 1 /\ s.iss \in SeqNo
    BY <1>1, NumbersIn, Windows
  <2>2. seqLess(s.snd_max, s.qEnd) <=> m < n
    BY <1>1, <2>1, Compare
  <2>3. m \in SeqNo /\ n \in SeqNo
    BY <2>1, Windows DEF SeqNo
  <2>4. m <= n => Dist(s.snd_max, s.qEnd) = n - m
    <3>1. m <= n => Dist(Plus(s.iss, m), Plus(s.iss, n)) = n - m
      BY <2>1, <2>3, DistFrom
    <3> QED
      BY <1>1, <3>1, Zenon
  <2>5. m + k <= n
    BY <1>1, <1>2, <1>8, <2>2, <2>4 DEF bytesAvailable
  <2>6. PICK u : u = sendSegments(g, k)
    OBVIOUS
  <2>7. Speaks(g, u)
    BY <1>1, <1>4, <1>5, <1>6, <2>5, <2>6, sendSegmentsSpeaks
  <2>8. u \in Block
    BY <1>4, <2>6, sendSegmentsSends DEF Sends
  <2>9. PICK v : v = [u EXCEPT !.snd_max = u.snd_nxt]
    OBVIOUS
  <2>10. v \in Block
    BY <2>8, <2>9, NumbersIn, ZenonT(60) DEF Block
  <2>11. Speaks(u, v)
    BY <2>8, <2>9, AdjustedMute, MuteHushed
  <2>12. Speaks(v, dataSent(v))
    BY <2>10, dataSentHushed DEF Hushed
  <2>13. sendData(s) = dataSent(v)
    BY <1>2, <1>3, <1>8, <2>6, <2>9 DEF sendData
  <2>14. Speaks(s, u)
    BY <1>5, <2>7, SpeaksTransitive
  <2>15. Speaks(s, v)
    BY <2>11, <2>14, SpeaksTransitive
  <2> QED
    BY <2>12, <2>13, <2>15, SpeaksTransitive
<1> QED
  BY <1>7, <1>8

LEMMA retransmitSpeaks ==
  ASSUME NEW s \in Block, Order(s)
  PROVE  Speaks(s, retransmitOneSegment(s)) /\ Speaks(s, retransmitData(s))
<1>1. PICK u, m, n \in Nat : Offsets(s, u, m, n)
  BY DEF Order
<1>2. /\ u <= m /\ m <= n + 1 /\ n + 1 < SeqMod \div 2
      /\ s.snd_una = Plus(s.iss, u) /\ s.snd_max = Plus(s.iss, m) /\ s.qEnd = Plus(s.iss, n)
      /\ s.qBegin = Plus(s.iss, QueueFrom(u, n))
  BY <1>1 DEF Offsets
<1>3. PICK b : b = QueueFrom(u, n)
  OBVIOUS
<1>4. /\ s.iss \in SeqNo
      /\ u \in 0 .. SeqMod \div 2 - 1 /\ m \in 0 .. SeqMod \div 2 - 1
      /\ n \in 0 .. SeqMod \div 2 - 1 /\ b \in 1 .. n
      /\ \A k \in 0 .. SeqMod \div 2 - 1 : k \in SeqNo /\ k \in 0 .. SeqMod
  BY <1>1, <1>3, OffsetsSmall
<1>5. PICK g : g = [s EXCEPT !.snd_nxt = s.snd_una]
  OBVIOUS
<1>6. g \in Block /\ Mute(s, g)
  <2>1. g \in Block
    BY <1>5, NumbersIn, ZenonT(60) DEF Block
  <2> QED
    BY <1>5, <2>1, AdjustedMute
<1>7. Speaks(s, g) /\ g.iss = s.iss /\ g.qEnd = s.qEnd
  BY <1>6, MuteHushed DEF Mute
<1>8. g.snd_nxt = s.snd_una /\ g.qBegin = s.qBegin
  BY <1>5 DEF Block
<1>9. PICK d \in SeqNo : d = Dist(s.snd_una, s.snd_max)
  BY NumbersIn, DistType
<1>10. d = m - u
  BY <1>2, <1>4, <1>9, DistFrom
<1>11. PICK l : l = Least(MSS, d)
  OBVIOUS
<1>12. l \in 0 .. d
  BY <1>9, <1>11, Windows DEF Least, SeqNo
<1>13. ASSUME NEW k \in 0 .. d
       PROVE  Speaks(s, sendSegments(g, k))
  <2>1. k \in 0 .. SeqMod - 1 /\ u + k <= m /\ k \in 0 .. SeqMod /\ u + k \in 0 .. SeqMod \div 2 - 1
    BY <1>2, <1>4, <1>9, <1>10, <1>13, Windows DEF SeqNo
  <2>2. ASSUME sendSegments(g, k).failed = "no"
        PROVE  1 <= u /\ u + k <= n
    <3>1. seqLE(Plus(s.iss, b), Plus(s.iss, u)) /\ seqLE(Plus(Plus(s.iss, u), k), Plus(s.iss, n))
      BY <1>2, <1>3, <1>6, <1>7, <1>8, <2>1, <2>2, sendSegmentsQueue
    <3>2. Plus(Plus(s.iss, u), k) = Plus(s.iss, u + k)
      BY <1>4, <2>1, PlusPlus
    <3>3. b \in 0 .. SeqMod \div 2 - 1
      BY <1>2, <1>4, Windows
    <3>4. b <= u
      BY <1>4, <3>1, <3>3, Compare
    <3>5. u + k <= n
      BY <1>4, <2>1, <3>1, <3>2, Compare
    <3> QED
      BY <1>4, <3>4, <3>5
  <2>3. Speaks(g, sendSegments(g, k))
    BY <1>1, <1>2, <1>6, <1>7, <1>8, <2>1, <2>2, sendSegmentsSpeaks
  <2> QED
    BY <1>7, <2>3, SpeaksTransitive
<1>14. Speaks(s, sendSegments(g, d)) /\ Speaks(s, sendSegments(g, l))
  <2>1. d \in 0 .. d
    BY <1>9, Windows DEF SeqNo
  <2> QED
    BY <1>12, <1>13, <2>1
<1>15. retransmitData(s) = sendSegments(g, d) /\ retransmitOneSegment(s) = sendSegments(g, l)
  BY <1>5, <1>9, <1>11 DEF retransmitData, retransmitOneSegment
<1> QED
  BY <1>14, <1>15

LEMMA SendsQueued ==
  ASSUME NEW s, NEW t, Sends(s, t), t.snd_max = s.snd_max, Queued(s)
  PROVE  Queued(t)
<1>1. t.iss = s.iss /\ t.qEnd = s.qEnd
  BY DEF Sends
<1> QED
  BY <1>1 DEF Queued

LEMMA SendsOrder ==
  ASSUME NEW s, NEW t, Sends(s, t), t.snd_max = s.snd_max, Order(s)
  PROVE  Order(t)
<1>1. SameNumbers(s, t)
  BY DEF Sends, SameNumbers
<1> QED
  BY <1>1, SameOrder

LEMMA recalculateMute ==
  ASSUME NEW s \in Block
  PROVE  Mute(s, recalculateSlowStartThreshold(s))
<1> DEFINE half == Least(s.cwnd, s.snd_wnd) \div 2
           new == Least(RcvWnd, IF half > 2 * MSS THEN half ELSE 2 * MSS)
<1>1. recalculateSlowStartThreshold(s) = [s EXCEPT !.ssthresh = new]
  BY DEF recalculateSlowStartThreshold
<1> HIDE DEF new
<1> QED
  BY <1>1, AdjustedMute

LEMMA establishedSpeaks ==
  ASSUME NEW s \in Block, Queued(s)
  PROVE  Speaks(s, established(s, TRUE)) /\ Mute(s, established(s, FALSE))
<1>1. PICK g : g = [s EXCEPT !.cwnd = MSS]
  OBVIOUS
<1>2. Emits(s, g)
  <2>1. MSS \in 0 .. RcvWnd
    BY Windows
  <2> QED
    BY <1>1, <2>1, Adjusted, Zenon
<1>3. g \in Block /\ Sends(s, g) /\ g.snd_max = s.snd_max
  BY <1>2 DEF Emits, Sends
<1>4. Queued(g)
  BY <1>3, SendsQueued
<1>5. Mute(s, g)
  BY <1>1, AdjustedMute
<1>6. PICK u : u = sendData(g)
  OBVIOUS
<1>7. Speaks(g, u)
  BY <1>3, <1>4, <1>6, sendDataSpeaks
<1>8. u \in Block
  BY <1>3, <1>6, sendDataPushes DEF Pushes, Sends
<1>9. Speaks(u, sendAck(u))
  BY <1>8, sendAckHushed DEF Hushed
<1>10. Speaks(s, u)
  BY <1>5, <1>7, MuteHushed, SpeaksTransitive
<1>11. Speaks(s, sendAck(u))
  BY <1>9, <1>10, SpeaksTransitive
<1>12. established(s, FALSE) = g /\ established(s, TRUE) \in {u, sendAck(u)}
  BY <1>1, <1>6 DEF established
<1> QED
  BY <1>5, <1>10, <1>11, <1>12

LEMMA receivedDuplicateAckSpeaks ==
  ASSUME NEW s \in Block, Order(s)
  PROVE  Speaks(s, receivedDuplicateAck(s))
<1>1. PICK u : u = retransmitOneSegment(s)
  OBVIOUS
<1>2. Speaks(s, u)
  BY <1>1, retransmitSpeaks
<1>3. PICK v : v = recalculateSlowStartThreshold(u)
  OBVIOUS
<1>4. u \in Block
  BY <1>1, retransmitSends DEF Sends
<1>5. Speaks(u, v) /\ v \in Block
  BY <1>3, <1>4, recalculateMute, MuteHushed, recalculateEmits DEF Emits, Sends
<1>6. PICK w : w = [v EXCEPT !.cwnd = windowOnLoss]
  OBVIOUS
<1>7. w \in Block
  BY <1>5, <1>6, windowOnLossType, Adjusted DEF Emits, Sends
<1>8. Speaks(v, w)
  BY <1>5, <1>6, AdjustedMute, MuteHushed
<1>9. PICK x : x = cancelEvent(w, {"REXMIT"})
  OBVIOUS
<1>10. Speaks(w, x) /\ x \in Block
  BY <1>7, <1>9, cancelEventMute, MuteHushed
<1>11. PICK y : y = startRexmitTimer(x)
  OBVIOUS
<1>12. Speaks(x, y)
  BY <1>10, <1>11, startRexmitTimerHushed DEF Hushed
<1>13. Speaks(s, v)
  BY <1>2, <1>5, SpeaksTransitive
<1>14. Speaks(s, w)
  BY <1>8, <1>13, SpeaksTransitive
<1>15. Speaks(s, x)
  BY <1>10, <1>14, SpeaksTransitive
<1>16. Speaks(s, y)
  BY <1>12, <1>15, SpeaksTransitive
<1>17. PICK z : z = [s EXCEPT !.cwnd = Least(RcvWnd, s.cwnd + MSS)]
  OBVIOUS
<1>18. Speaks(s, z)
  BY <1>17, AdjustedMute, MuteHushed
<1>19. receivedDuplicateAck(s) \in {y, z, s}
  BY <1>1, <1>3, <1>6, <1>9, <1>11, <1>17 DEF receivedDuplicateAck
<1> QED
  BY <1>16, <1>18, <1>19, SpeaksItself

LEMMA receivedDataAckSpeaks ==
  ASSUME NEW s \in Block, Queued(s)
  PROVE  Speaks(s, receivedDataAck(s))
<1>1. PICK c : c = cancelEvent(s, {"REXMIT"})
  OBVIOUS
<1>2. Speaks(s, c) /\ c \in Block
  BY <1>1, cancelEventMute, MuteHushed
<1>3. PICK d : d = startRexmitTimer(c)
  OBVIOUS
<1>4. Speaks(c, d)
  BY <1>2, <1>3, startRexmitTimerHushed DEF Hushed
<1>5. PICK r : r = restartRexmitTimer(s)
  OBVIOUS
<1>6. r = IF s.snd_una = s.snd_max THEN c ELSE d
  BY <1>1, <1>3, <1>5 DEF restartRexmitTimer
<1>7. Speaks(s, d)
  BY <1>2, <1>4, SpeaksTransitive
<1>8. Speaks(s, r)
  BY <1>2, <1>6, <1>7
<1>9. Sends(s, c) /\ c.snd_max = s.snd_max /\ "REXMIT" \notin c.timers
  BY <1>1, CancelledSends
<1>10. Sends(c, d) /\ d.snd_max = c.snd_max
  BY <1>2, <1>3, <1>9, startRexmitTimerSends
<1>11. Sends(s, d) /\ d.snd_max = s.snd_max
  BY <1>9, <1>10, SendsTransitive, Zenon
<1>12. Sends(s, r) /\ r.snd_max = s.snd_max
  BY <1>6, <1>9, <1>11
<1>13. r \in Block
  BY <1>12 DEF Sends
<1>14. PICK w : w = IF Algorithm = "Reno" /\ s.dupacks >= 3 THEN s.ssthresh ELSE grown(s)
  OBVIOUS
<1>15. w \in 0 .. RcvWnd
  <2>1. s.ssthresh \in 0 .. RcvWnd
    BY Windows DEF Block
  <2> QED
    BY <1>14, <2>1, grownType
<1>16. PICK g : g = [r EXCEPT !.cwnd = w]
  OBVIOUS
<1>17. Emits(r, g)
  BY <1>13, <1>15, <1>16, Adjusted, Zenon
<1>18. g \in Block /\ Sends(r, g) /\ g.snd_max = r.snd_max
  BY <1>17 DEF Emits, Sends
<1>19. Speaks(r, g)
  BY <1>13, <1>16, AdjustedMute, MuteHushed
<1>20. Queued(g)
  <2>1. Queued(r)
    BY <1>12, SendsQueued
  <2> QED
    BY <1>18, <2>1, SendsQueued
<1>21. Speaks(g, sendData(g))
  BY <1>18, <1>20, sendDataSpeaks
<1>22. Speaks(s, g)
  BY <1>8, <1>19, SpeaksTransitive
<1>23. receivedDataAck(s) = sendData(g)
  BY <1>5, <1>14, <1>16 DEF receivedDataAck
<1> QED
  BY <1>21, <1>22, <1>23, SpeaksTransitive

LEMMA slowStartSpeaks ==
  ASSUME NEW s \in Block, Order(s)
  PROVE  Speaks(s, slowStart(s))
<1>1. PICK u : u = recalculateSlowStartThreshold(s)
  OBVIOUS
<1>2. Emits(s, u) /\ Speaks(s, u)
  BY <1>1, recalculateEmits, recalculateMute, MuteHushed
<1>3. u \in Block
  BY <1>2 DEF Emits, Sends
<1>4. PICK v : v = [u EXCEPT !.cwnd = MSS]
  OBVIOUS
<1>5. Emits(u, v)
  <2>1. MSS \in 0 .. RcvWnd
    BY Windows
  <2> QED
    BY <1>3, <1>4, <2>1, Adjusted, Zenon
<1>6. Speaks(u, v)
  BY <1>3, <1>4, AdjustedMute, MuteHushed
<1>7. v \in Block /\ Sends(s, v) /\ v.snd_max = s.snd_max
  <2>1. Sends(s, v)
    BY <1>2, <1>5, SendsTransitive, Zenon DEF Emits
  <2> QED
    BY <1>2, <1>5, <2>1 DEF Emits, Sends
<1>8. Order(v)
  BY <1>7, SendsOrder
<1>9. Speaks(v, retransmitData(v)) /\ Speaks(v, retransmitOneSegment(v))
  BY <1>7, <1>8, retransmitSpeaks
<1>10. Speaks(s, v)
  BY <1>2, <1>6, SpeaksTransitive
<1>11. Speaks(s, retransmitData(v)) /\ Speaks(s, retransmitOneSegment(v))
  BY <1>9, <1>10, SpeaksTransitive
<1>12. slowStart(s) \in {retransmitData(v), retransmitOneSegment(v)}
  BY <1>1, <1>4 DEF slowStart
<1> QED
  BY <1>11, <1>12

\* The retransmission timer: the connection is given up, or something is sent again.
LEMMA processRexmitTimerSpeaks ==
  ASSUME NEW s \in Block, Order(s)
  PROVE  Speaks(s, processRexmitTimer(s))
<1>1. PICK a, b : b = Tell(s, "TIMED_OUT") /\ a = Event(b, "ABORT")
  OBVIOUS
<1>2. Speaks(s, a)
  <2>1. Hushed(s, b) /\ b \in Block
    BY <1>1, TellHushed, TellKeeps DEF Indication, Keeps
  <2>2. Speaks(b, a)
    BY <1>1, <2>1, AdjustedMute, MuteHushed DEF Event
  <2> QED
    BY <2>1, <2>2, SpeaksTransitive DEF Hushed
<1>3. CASE s.rexmit_count >= MaxRexmit
  <2>1. processRexmitTimer(s) = a
    BY <1>1, <1>3 DEF processRexmitTimer
  <2> QED
    BY <1>2, <2>1
<1>4. CASE ~ s.rexmit_count >= MaxRexmit
  <2>1. PICK k \in 0 .. MaxRexmit : k = s.rexmit_count + 1
    <3>1. s.rexmit_count \in 0 .. MaxRexmit
      BY DEF Block
    <3> QED
      BY <1>4, <3>1, ParamAssumption
  <2>2. PICK g : g = [s EXCEPT !.rexmit_count = k]
    OBVIOUS
  <2>3. Emits(s, g) /\ Speaks(s, g)
    BY <2>2, Adjusted, AdjustedMute, MuteHushed
  <2>4. g \in Block /\ Sends(s, g) /\ g.snd_max = s.snd_max
    BY <2>3 DEF Emits, Sends
  <2>5. Order(g)
    BY <2>4, SendsOrder
  <2>6. PICK c : c = scheduleTimeout(g, "REXMIT")
    OBVIOUS
  <2>7. Speaks(g, c) /\ c \in Block /\ Schedules(g, "REXMIT", c)
    BY <2>4, <2>6, scheduleTimeoutMute, scheduleTimeoutSchedules, MuteHushed DEF TimerName
  <2>8. Order(c)
    <3>1. SameNumbers(g, c)
      BY <2>7 DEF Schedules, SameNumbers
    <3> QED
      BY <2>5, <3>1, SameOrder
  <2>9. Speaks(c, slowStart(c))
    BY <2>7, <2>8, slowStartSpeaks
  <2>10. Speaks(s, c)
    BY <2>3, <2>7, SpeaksTransitive
  <2>11. processRexmitTimer(s) = slowStart(c)
    <3>1. g = [s EXCEPT !.rexmit_count = @ + 1]
      BY <2>1, <2>2 DEF Block
    <3> QED
      BY <1>4, <2>6, <3>1 DEF processRexmitTimer
  <2> QED
    BY <2>9, <2>10, <2>11, SpeaksTransitive
<1> QED
  BY <1>3, <1>4

-----------------------------------------------------------------------------
(* The bytes that processText passes up. *)

\* The first region, when the bytes are among 1 .. n - 1 and the one at h has arrived.
LEMMA FirstRegionBound ==
  ASSUME NEW i \in SeqNo, NEW n \in 1 .. SeqMod \div 2 - 2, NEW h \in 1 .. n - 1,
         NEW buf \in SUBSET {Plus(i, j) : j \in 1 .. n - 1},
         NEW m, m = Plus(i, h), m \in buf
  PROVE  FirstRegion(buf, m) \subseteq {Plus(m, j) : j \in 0 .. n - 1 - h}
<1> DEFINE first(b) == Plus(m, b) \in buf /\ \A j \in 0 .. b - 1 : Plus(m, j) \notin buf
           begin == CHOOSE b \in 0 .. SeqMod - 1 : first(b)
           from(b) == {Plus(m, j) : j \in begin .. b}
<1>1. /\ SeqMod \in Nat /\ n \in Nat /\ h \in Nat /\ 1 <= h /\ h < n /\ n < SeqMod
      /\ n \in SeqNo /\ h \in 0 .. SeqMod /\ n - h \in 0 .. SeqMod
      /\ \A j \in 1 .. n - 1 : j \in SeqNo /\ j # n
  BY Windows DEF SeqNo
<1>2. Plus(m, 0) = m
  BY <1>1, PlusPlus
<1>3. begin = 0
  <2>1. first(0) /\ 0 \in 0 .. SeqMod - 1
    BY <1>1, <1>2
  <2>2. \A b \in 0 .. SeqMod - 1 : first(b) => b = 0
    <3>1. SUFFICES ASSUME NEW b \in 0 .. SeqMod - 1, first(b), b # 0
                   PROVE  FALSE
      OBVIOUS
    <3>2. 0 \in 0 .. b - 1
      BY <1>1, <3>1
    <3> QED
      BY <1>2, <3>1, <3>2
  <2> HIDE DEF first
  <2> QED
    BY <2>1, <2>2
<1> HIDE DEF begin
<1>4. Plus(m, n - h) = Plus(i, n)
  <2>1. h + (n - h) = n
    BY <1>1
  <2> QED
    BY <1>1, <2>1, PlusPlus
<1>5. Plus(i, n) \notin buf
  <2>1. \A j \in 1 .. n - 1 : Plus(i, j) # Plus(i, n)
    BY <1>1, DistFrom
  <2> QED
    BY <2>1
<1>6. ASSUME NEW b \in begin .. SeqMod - 1, from(b) \subseteq buf
      PROVE  b \in 0 .. n - 1 - h
  <2>1. CASE b >= n - h
    <3>1. n - h \in begin .. b
      BY <1>1, <1>3, <2>1
    <3>2. Plus(m, n - h) \in from(b)
      BY <3>1
    <3> QED
      BY <1>4, <1>5, <1>6, <3>2
  <2>2. CASE ~ b >= n - h
    BY <1>1, <1>3, <2>2
  <2> QED
    BY <2>1, <2>2
<1>7. FirstRegion(buf, m) = UNION {from(b) : b \in {k \in begin .. SeqMod - 1 : from(k) \subseteq buf}}
  BY DEF FirstRegion, begin
<1>8. ASSUME NEW x \in FirstRegion(buf, m)
      PROVE  x \in {Plus(m, j) : j \in 0 .. n - 1 - h}
  <2>1. PICK b \in begin .. SeqMod - 1 : from(b) \subseteq buf /\ x \in from(b)
    <3> HIDE DEF from
    <3> QED
      BY <1>7
  <2>2. b \in 0 .. n - 1 - h
    BY <1>6, <2>1
  <2>3. PICK j \in begin .. b : x = Plus(m, j)
    BY <2>1
  <2>4. j \in 0 .. n - 1 - h
    BY <1>1, <1>3, <2>2, <2>3
  <2> QED
    BY <2>3, <2>4
<1> QED
  BY <1>8

LEMMA FirstRegionSize ==
  ASSUME NEW m \in SeqNo, NEW k \in Nat, k <= SeqMod \div 2,
         NEW r \in SUBSET {Plus(m, j) : j \in 0 .. k - 1}
  PROVE  Cardinality(r) \in 0 .. k
<1> DEFINE f == [x \in r |-> Dist(m, x)]
<1>1. \A j \in 0 .. k - 1 : j \in SeqNo /\ j \in 0 .. SeqMod
  BY Windows DEF SeqNo
<1>2. 0 \in SeqNo /\ 0 \in 0 .. SeqMod /\ m \in Nat /\ m < SeqMod
  BY Windows DEF SeqNo
<1>3. Plus(m, 0) = m
  BY <1>2, Mod DEF Plus
<1>4. \A j \in 0 .. k - 1 : Dist(m, Plus(m, j)) = j
  <2>1. \A j \in 0 .. k - 1 : Dist(Plus(m, 0), Plus(m, j)) = j - 0
    <3>1. SUFFICES ASSUME NEW j \in 0 .. k - 1
                   PROVE  Dist(Plus(m, 0), Plus(m, j)) = j - 0
      OBVIOUS
    <3>2. j \in SeqNo /\ 0 <= j
      BY <1>1
    <3> QED
      BY <1>2, <3>2, DistFrom
  <2> QED
    BY <1>3, <2>1
<1>5. f \in [r -> 0 .. k - 1]
  BY <1>4
<1>6. \A x, y \in r : f[x] = f[y] => x = y
  BY <1>4
<1>7. f \in Injection(r, 0 .. k - 1)
  BY <1>5, <1>6 DEF Injection, IsInjective
<1>8. IsFiniteSet(0 .. k - 1) /\ Cardinality(0 .. k - 1) = k
  <2>1. PICK l \in Int : l = k - 1
    OBVIOUS
  <2>2. IsFiniteSet(0 .. l) /\ Cardinality(0 .. l) = IF 0 > l THEN 0 ELSE l - 0 + 1
    BY ONLY FS_Interval, <2>1
  <2> QED
    BY <2>1, <2>2
<1>9. IsFiniteSet(r) /\ Cardinality(r) <= k
  <2> HIDE DEF f
  <2> QED
    BY <1>7, <1>8, FS_Injection
<1>10. Cardinality(r) \in Nat
  BY <1>9, FS_CardinalityType
<1> QED
  BY <1>9, <1>10

-----------------------------------------------------------------------------
(* What is received. *)

LEMMA GrowsTransitive ==
  ASSUME NEW s \in Block, NEW t \in Block, NEW u \in Block, Grows(s, t), Grows(t, u)
  PROVE  Grows(s, u)
<1>1. s.rcvd \in Nat /\ t.rcvd \in Nat /\ u.rcvd \in Nat
  BY DEF Block
<1> QED
  BY <1>1 DEF Grows, Heard

LEMMA FarType ==
  ASSUME NEW f \in Far
  PROVE  /\ f.iss \in SeqNo /\ f.n \in 1 .. SeqMod \div 2 - 2 /\ f.closed \in BOOLEAN
         /\ f.heard \in 1 .. SeqMod \div 2 - 1 /\ f.ended \in BOOLEAN
BY DEF Far

LEMMA HeardType ==
  ASSUME NEW s \in Block, NEW f \in Far, Has(s, f)
  PROVE  Heard(s) \in 1 .. f.n + 1 /\ Heard(s) \in 1 .. SeqMod \div 2 - 1
<1>1. s.rcvd \in Nat /\ f.n \in 1 .. SeqMod \div 2 - 2 /\ s.rcvd + 1 <= f.n
  BY FarType DEF Block, Has
<1>2. SeqMod \div 2 \in Nat
  BY Windows
<1> QED
  BY <1>1, <1>2 DEF Heard

\* What is said keeps all of it.
LEMMA SpeaksHas ==
  ASSUME NEW s, NEW t, Speaks(s, t), NEW f
  PROVE  /\ Has(s, f) => Has(t, f)
         /\ Listens(s, f) => Listens(t, f)
         /\ Fresh(s) => Fresh(t)
         /\ Acked(s, f) => Acked(t, f)
         /\ Heard(t) = Heard(s) /\ (Ended(s) <=> Ended(t))
<1>1. SameEars(s, t) /\ SameNotes(s, t)
  BY DEF Speaks
<1>2. Heard(t) = Heard(s) /\ (Ended(s) <=> Ended(t))
  BY <1>1 DEF SameEars, Ended, Heard
<1>3. Has(s, f) => Has(t, f)
  BY <1>1, <1>2 DEF SameEars, SameNotes, Has
<1>4. Listens(s, f) => Listens(t, f)
  BY <1>1, <1>2 DEF SameEars, Listens
<1>5. Fresh(s) => Fresh(t)
  BY <1>1, <1>2 DEF SameEars, Fresh
<1>6. Acked(s, f) => Acked(t, f)
  BY <1>1 DEF SameNotes, Acked
<1> QED
  BY <1>2, <1>3, <1>4, <1>5, <1>6

LEMMA SpeaksGrows ==
  ASSUME NEW s \in Block, NEW t, Speaks(s, t)
  PROVE  Grows(s, t)
<1>1. Heard(t) = Heard(s) /\ (Ended(s) <=> Ended(t))
  BY SpeaksHas
<1>2. Heard(s) \in Nat
  BY DEF Heard, Block
<1> QED
  BY <1>1, <1>2 DEF Grows, Speaks, SameNotes

LEMMA SpeaksFaithful ==
  ASSUME NEW s \in Block, NEW t, Speaks(s, t), NEW f \in Far, Has(s, f), Listens(s, f), Faithful(s, f)
  PROVE  Faithful(t, f)
<1>1. Heard(t) = Heard(s) /\ t.iss = s.iss /\ t.qEnd = s.qEnd
  BY SpeaksHas DEF Speaks, SameNotes
<1>2. ASSUME t.failed = "no", NEW seg \in t.out
      PROVE  Truthful(t, seg, f)
  <2>1. CASE seg \in s.out
    <3>1. Truthful(s, seg, f)
      BY <1>2, <2>1 DEF Speaks, Faithful
    <3> QED
      BY <1>1, <3>1 DEF Truthful, InQueue
  <2>2. CASE seg \notin s.out
    <3>1. Said(s, seg)
      BY <1>2, <2>2 DEF Speaks
    <3>2. Heard(s) \in 1 .. Heard(s)
      BY HeardType
    <3>3. s.rcv_nxt = Plus(f.iss, Heard(s))
      BY DEF Listens
    <3>4. seg.ack /\ ~ seg.rst => \E k \in 1 .. Heard(s) : seg.ackNo = Plus(f.iss, k)
      BY <3>1, <3>2, <3>3 DEF Said
    <3> QED
      BY <1>1, <3>1, <3>4 DEF Said, Truthful, InQueue
  <2> QED
    BY <2>1, <2>2
<1> QED
  BY <1>2 DEF Faithful

LEMMA SpeaksWhole ==
  ASSUME NEW s \in Block, NEW t, Speaks(s, t), NEW f \in Far, Whole(s, f)
  PROVE  Whole(t, f) /\ Grows(s, t)
<1>1. Faithful(t, f)
  BY SpeaksFaithful DEF Whole
<1> QED
  BY <1>1, SpeaksHas, SpeaksGrows DEF Whole

LEMMA SamePlace ==
  ASSUME NEW i \in SeqNo, NEW x \in 0 .. SeqMod \div 2 - 1, NEW y \in 0 .. SeqMod \div 2 - 1,
         NEW a, a = Plus(i, x), a = Plus(i, y)
  PROVE  x = y
<1>1. Plus(i, x) = Plus(i, y) <=> x = y
  BY Compare, Zenon
<1> QED
  BY <1>1

LEMMA PassesUpWhole ==
  ASSUME NEW s \in Block, NEW f \in Far, Whole(s, f), NEW k \in Nat,
         Ended(s) => k = 0, ~ Ended(s) => Heard(s) + k <= f.n, NEW t, PassesUp(s, f, k, t)
  PROVE  Whole(t, f) /\ Grows(s, t) /\ (Ended(t) <=> Ended(s)) /\ t.rcv_nxt = Plus(f.iss, Heard(t))
<1>1. Closings(t) = Closings(s) /\ (Ended(t) <=> Ended(s))
  BY DEF PassesUp, Closings, Ended
<1>2. s.rcvd \in Nat /\ f.n \in Nat /\ Heard(t) = Heard(s) + k /\ Heard(s) \in Nat
  <2>1. s.rcvd \in Nat /\ f.n \in Nat
    BY FarType DEF Block
  <2>2. t.rcvd = s.rcvd + k
    BY DEF PassesUp
  <2> QED
    BY <1>1, <2>1, <2>2 DEF Heard
<1>3. t.rcv_nxt = Plus(f.iss, Heard(t))
  <2>1. s.rcv_nxt = Plus(f.iss, Heard(s))
    BY DEF Whole, Listens
  <2>2. /\ Heard(s) \in 0 .. SeqMod /\ k \in 0 .. SeqMod /\ f.iss \in SeqNo
    <3>1. Heard(s) \in 1 .. f.n + 1
      BY HeardType DEF Whole
    <3> QED
      BY <1>2, <3>1, FarType, Windows
  <2>3. Plus(Plus(f.iss, Heard(s)), k) = Plus(f.iss, Heard(s) + k)
    BY <2>2, PlusPlus
  <2> QED
    BY <1>2, <2>1, <2>3 DEF PassesUp
<1>4. Has(t, f)
  <2>1. s.irs = f.iss /\ Has(s, f)
    BY DEF Whole, Listens
  <2>2. t.rcvd + 1 <= f.n /\ (Ended(t) => f.closed /\ t.rcvd + 1 = f.n)
    BY <1>1, <1>2, <2>1 DEF Has, Heard, PassesUp
  <2> QED
    BY <1>1, <2>1, <2>2 DEF Has, PassesUp
<1>5. Listens(t, f)
  BY <1>3 DEF Listens, Whole, PassesUp
<1>6. Acked(t, f)
  BY DEF Acked, Whole, PassesUp
<1>7. Grows(s, t)
  BY <1>1, <1>2 DEF Grows, PassesUp
<1>8. Faithful(t, f)
  <2>1. ASSUME t.failed = "no", NEW seg \in t.out
        PROVE  Truthful(t, seg, f)
    <3>1. Truthful(s, seg, f)
      BY <2>1 DEF Whole, Faithful, PassesUp
    <3>2. \A x \in 1 .. Heard(s) : x \in 1 .. Heard(t)
      BY <1>2
    <3>3. t.iss = s.iss /\ t.qEnd = s.qEnd
      BY DEF PassesUp
    <3> QED
      BY <3>1, <3>2, <3>3 DEF Truthful, InQueue
  <2> QED
    BY <2>1 DEF Faithful
<1> QED
  BY <1>1, <1>3, <1>4, <1>5, <1>6, <1>7, <1>8 DEF Whole

\* The end of the stream is signalled.
LEMMA ClosedWhole ==
  ASSUME NEW s \in Block, NEW f \in Far, Whole(s, f), ~ Ended(s), f.closed, s.rcvd + 1 = f.n,
         NEW g, g = [s EXCEPT !.rcv_nxt = Plus(s.rcv_nxt, 1)],
         NEW t, t = Tell(g, "PEER_CLOSED")
  PROVE  Whole(t, f) /\ Grows(s, t) /\ t \in Block
<1>1. g \in Block
  <2>1. Plus(s.rcv_nxt, 1) \in SeqNo
    BY NumbersIn, PlusType
  <2> QED
    BY <2>1, ZenonT(60) DEF Block
<1>2. /\ g.irs = s.irs /\ g.fin_rcvd = s.fin_rcvd /\ g.rcv_fin_seq = s.rcv_fin_seq
      /\ g.told = s.told /\ g.iss = s.iss /\ g.qEnd = s.qEnd /\ g.snd_una = s.snd_una
      /\ g.fin_ack_rcvd = s.fin_ack_rcvd /\ g.out = s.out /\ g.failed = s.failed
      /\ g.rcv_nxt = Plus(s.rcv_nxt, 1) /\ g.rcvd = s.rcvd /\ g.buf = s.buf
  BY SMTT(40) DEF Block
<1>3. /\ t.irs = g.irs /\ t.fin_rcvd = g.fin_rcvd /\ t.rcv_fin_seq = g.rcv_fin_seq
      /\ t.told = Append(g.told, "PEER_CLOSED")
      /\ t.iss = g.iss /\ t.qEnd = g.qEnd /\ t.snd_una = g.snd_una
      /\ t.fin_ack_rcvd = g.fin_ack_rcvd /\ t.out = g.out /\ t.failed = g.failed
      /\ t.rcv_nxt = g.rcv_nxt /\ t.rcvd = g.rcvd /\ t.buf = g.buf
  BY <1>1, SMTT(40) DEF Tell, Block
<1>4. t \in Block
  BY <1>1, TellKeeps DEF Indication, Keeps
<1>5. PICK q \in Seq(Indication) : q = s.told
  BY DEF Block
<1>6. PICK r : r = Append(q, "PEER_CLOSED")
  OBVIOUS
<1>7. /\ DOMAIN r = 1 .. Len(q) + 1 /\ DOMAIN q = 1 .. Len(q) /\ Len(q) \in Nat
      /\ r[Len(q) + 1] = "PEER_CLOSED" /\ \A i \in 1 .. Len(q) : r[i] = q[i]
  BY <1>6
<1>8. \A i \in 1 .. Len(q) : q[i] # "PEER_CLOSED"
  <2>1. {i \in DOMAIN q : q[i] = "PEER_CLOSED"} = {}
    BY <1>5 DEF Ended, Closings
  <2> QED
    BY <1>7, <2>1
<1>9. {i \in DOMAIN r : r[i] = "PEER_CLOSED"} = {Len(q) + 1}
  <2>1. \A i \in DOMAIN r : r[i] = "PEER_CLOSED" <=> i = Len(q) + 1
    BY <1>7, <1>8
  <2>2. Len(q) + 1 \in DOMAIN r
    BY <1>7
  <2> QED
    BY <2>1, <2>2
<1>10. Closings(t) = {Len(q) + 1}
  <2>1. t.told = r
    BY <1>2, <1>3, <1>5, <1>6
  <2> QED
    BY <1>9, <2>1 DEF Closings
<1>11. Ended(t) /\ \A i, j \in Closings(t) : i = j
  BY <1>10 DEF Ended
<1>12. s.rcvd \in Nat /\ Heard(s) = s.rcvd + 1 /\ Heard(t) = s.rcvd + 2
  BY <1>2, <1>3, <1>11 DEF Heard, Block
<1>13. t.rcv_nxt = Plus(f.iss, Heard(t))
  <2>1. s.rcv_nxt = Plus(f.iss, Heard(s))
    BY DEF Whole, Listens
  <2>2. Heard(s) \in 0 .. SeqMod /\ 1 \in 0 .. SeqMod /\ f.iss \in SeqNo
    BY HeardType, FarType, Windows DEF Whole
  <2>3. Plus(Plus(f.iss, Heard(s)), 1) = Plus(f.iss, Heard(s) + 1)
    BY <2>2, PlusPlus
  <2> QED
    BY <1>2, <1>3, <1>12, <2>1, <2>3
<1>14. Has(t, f)
  BY <1>2, <1>3, <1>11 DEF Has, Whole
<1>15. Listens(t, f) /\ Acked(t, f)
  BY <1>2, <1>3, <1>13 DEF Listens, Acked, Whole
<1>16. Grows(s, t)
  BY <1>2, <1>3, <1>11, <1>12 DEF Grows
<1>17. Faithful(t, f)
  <2>1. ASSUME t.failed = "no", NEW seg \in t.out
        PROVE  Truthful(t, seg, f)
    <3>1. t.iss = s.iss /\ t.qEnd = s.qEnd
      BY <1>2, <1>3
    <3>2. Truthful(s, seg, f)
      BY <1>2, <1>3, <2>1 DEF Whole, Faithful
    <3>3. \A x \in 1 .. Heard(s) : x \in 1 .. Heard(t)
      BY <1>12
    <3> QED
      BY <3>1, <3>2, <3>3 DEF Truthful, InQueue
  <2> QED
    BY <2>1 DEF Faithful
<1> QED
  BY <1>4, <1>14, <1>15, <1>16, <1>17 DEF Whole

\* The bytes of a segment are among those that the other host wrote.
LEMMA TextComes ==
  ASSUME NEW s \in Block, NEW f \in Far, NEW seg \in TCPSegment, Comes(seg, s.iss, f), ~ seg.rst
  PROVE  {Plus(seg.seq, i) : i \in 0 .. seg.len - 1} \subseteq {Plus(f.iss, j) : j \in 1 .. f.n - 1}
<1>1. SUFFICES ASSUME NEW i \in 0 .. seg.len - 1
               PROVE  \E j \in 1 .. f.n - 1 : Plus(seg.seq, i) = Plus(f.iss, j)
  OBVIOUS
<1>2. seg.len \in Nat /\ seg.len > 0 /\ i \in Nat /\ f.n \in Nat /\ f.n < SeqMod /\ SeqMod \in Nat
  BY Segments, FarType, Windows
<1>3. PICK j \in Nat : 1 <= j /\ j + seg.len <= f.n /\ seg.seq = Plus(f.iss, j)
  BY <1>2 DEF Comes
<1>4. j \in 0 .. SeqMod /\ i \in 0 .. SeqMod /\ f.iss \in SeqNo /\ j + i \in 1 .. f.n - 1
  BY <1>2, <1>3, FarType
<1>5. Plus(seg.seq, i) = Plus(f.iss, j + i)
  BY <1>3, <1>4, PlusPlus
<1> QED
  BY <1>4, <1>5

LEMMA processTextWhole ==
  ASSUME NEW s \in Block, NEW f \in Far, Whole(s, f),
         NEW seg \in TCPSegment, Comes(seg, s.iss, f), ~ seg.rst
  PROVE  Whole(processText(s, seg), f) /\ Grows(s, processText(s, seg))
<1>1. PICK b : b = s.buf \cup {Plus(seg.seq, i) : i \in 0 .. seg.len - 1}
  OBVIOUS
<1>2. b \subseteq {Plus(f.iss, j) : j \in 1 .. f.n - 1}
  BY <1>1, TextComes DEF Whole, Listens
<1>3. PICK h : h = Heard(s)
  OBVIOUS
<1>4. /\ s.rcv_nxt = Plus(f.iss, h) /\ h \in 1 .. f.n + 1 /\ h \in 0 .. SeqMod \div 2 - 1
      /\ f.n \in 1 .. SeqMod \div 2 - 2 /\ f.iss \in SeqNo /\ s.rcvd \in Nat
      /\ s.rcvd + 1 <= f.n /\ (Ended(s) => h = f.n + 1) /\ (~ Ended(s) => h = s.rcvd + 1)
  <2>1. h \in 1 .. f.n + 1 /\ h \in 1 .. SeqMod \div 2 - 1
    BY <1>3, HeardType DEF Whole
  <2>2. s.rcvd \in Nat /\ SeqMod \div 2 \in Nat
    BY Windows DEF Block
  <2> QED
    BY <1>3, <2>1, <2>2, FarType DEF Whole, Listens, Has, Heard
<1>5. CASE s.rcv_nxt \notin b
  <2>1. PICK x : x = [s EXCEPT !.buf = b]
    OBVIOUS
  <2>2. x \in Block
    <3>1. b \in SUBSET SeqNo
      <4>1. \A j \in 1 .. f.n - 1 : Plus(f.iss, j) \in SeqNo
        BY <1>4, PlusType
      <4> QED
        BY <1>2, <4>1
    <3> QED
      BY <2>1, <3>1, ZenonT(60) DEF Block
  <2>3. PassesUp(s, f, 0, x)
    <3>1. Plus(s.rcv_nxt, 0) = s.rcv_nxt
      <4>1. s.rcv_nxt \in Nat /\ s.rcv_nxt < SeqMod
        BY NumbersIn, Windows DEF SeqNo
      <4> QED
        BY <4>1, Mod DEF Plus
    <3>2. s.rcvd + 0 = s.rcvd
      BY <1>4
    <3>3. /\ x.irs = s.irs /\ x.fin_rcvd = s.fin_rcvd /\ x.rcv_fin_seq = s.rcv_fin_seq
          /\ x.told = s.told /\ x.iss = s.iss /\ x.qEnd = s.qEnd /\ x.snd_una = s.snd_una
          /\ x.fin_ack_rcvd = s.fin_ack_rcvd /\ x.out = s.out /\ x.failed = s.failed
          /\ x.rcv_nxt = s.rcv_nxt /\ x.rcvd = s.rcvd /\ x.buf = b
      BY <2>1, SMTT(40) DEF Block
    <3> QED
      BY <1>2, <3>1, <3>2, <3>3 DEF PassesUp
  <2>4. ~ Ended(s) => Heard(s) + 0 <= f.n
    BY <1>3, <1>4
  <2>5. Whole(x, f) /\ Grows(s, x)
    BY <2>3, <2>4, PassesUpWhole
  <2>6. Speaks(x, sendAck(x))
    BY <2>2, sendAckHushed DEF Hushed
  <2>7. Whole(sendAck(x), f) /\ Grows(x, sendAck(x))
    BY <2>2, <2>5, <2>6, SpeaksWhole
  <2>8. sendAck(x) \in Block
    BY <2>2, sendAckEmits DEF Emits, Sends
  <2>9. Grows(s, sendAck(x))
    BY <2>2, <2>5, <2>7, <2>8, GrowsTransitive
  <2>10. processText(s, seg) = sendAck(x)
    BY <1>1, <1>5, <2>1 DEF processText
  <2> QED
    BY <2>7, <2>9, <2>10
<1>6. CASE s.rcv_nxt \in b
  <2>1. h \in 1 .. f.n - 1
    <3>1. PICK j \in 1 .. f.n - 1 : s.rcv_nxt = Plus(f.iss, j)
      BY <1>2, <1>6
    <3>2. j \in 0 .. SeqMod \div 2 - 1
      BY <1>4, Windows
    <3>3. h = j
      BY <1>4, <3>1, <3>2, SamePlace
    <3> QED
      BY <3>1, <3>3
  <2>2. ~ Ended(s) /\ h = s.rcvd + 1
    BY <1>4, <2>1
  <2>3. PICK r : r = FirstRegion(b, s.rcv_nxt)
    OBVIOUS
  <2>4. PICK k : k = Cardinality(r)
    OBVIOUS
  <2>5. k \in 0 .. f.n - h
    <3>1. r \subseteq {Plus(s.rcv_nxt, j) : j \in 0 .. f.n - 1 - h}
      BY <1>2, <1>4, <1>6, <2>1, <2>3, FirstRegionBound
    <3>2. PICK d \in Nat : d = f.n - h
      BY <1>4, <2>1
    <3>3. d <= SeqMod \div 2 /\ d - 1 = f.n - 1 - h /\ s.rcv_nxt \in SeqNo
      BY <1>4, <2>1, <3>2, NumbersIn, Windows
    <3> QED
      BY <2>4, <3>1, <3>2, <3>3, FirstRegionSize
  <2>6. k \in Nat /\ h + k <= f.n
    BY <1>4, <2>1, <2>5
  <2>7. PICK n : n = Plus(s.rcv_nxt, k)
    OBVIOUS
  <2>8. PICK q : q = b \ r
    OBVIOUS
  <2>9. PICK o : o = Require(SeqMod - 1 \notin r \cup FirstRegion(q, n), s, "extractTo")
    OBVIOUS
  <2>10. o \in Block /\ Mute(s, o)
    BY <2>9, RequireMute DEF Failure
  <2>11. PICK t : t = [o EXCEPT !.rcv_nxt = n, !.rcvd = o.rcvd + k, !.buf = q]
    OBVIOUS
  <2>12. n \in SeqNo
    BY <2>6, <2>7, NumbersIn, PlusType
  <2>13. t \in Block
    <3>1. q \in SUBSET SeqNo
      <4>1. \A j \in 1 .. f.n - 1 : Plus(f.iss, j) \in SeqNo
        BY <1>4, PlusType
      <4> QED
        BY <1>2, <2>8, <4>1
    <3>2. PICK m \in Nat : m = o.rcvd + k
      BY <2>6, <2>10 DEF Block
    <3>3. t = [o EXCEPT !.rcv_nxt = n, !.rcvd = m, !.buf = q]
      BY <2>11, <3>2
    <3> QED
      BY <2>10, <2>12, <3>1, <3>3, ZenonT(60) DEF Block
  <2>14. PassesUp(s, f, k, t)
    <3>1. /\ t.irs = o.irs /\ t.fin_rcvd = o.fin_rcvd /\ t.rcv_fin_seq = o.rcv_fin_seq
          /\ t.told = o.told /\ t.iss = o.iss /\ t.qEnd = o.qEnd /\ t.snd_una = o.snd_una
          /\ t.fin_ack_rcvd = o.fin_ack_rcvd /\ t.out = o.out /\ t.failed = o.failed
          /\ t.rcv_nxt = n /\ t.rcvd = o.rcvd + k /\ t.buf = q
      BY <2>10, <2>11, SMTT(40) DEF Block
    <3>2. q \subseteq {Plus(f.iss, j) : j \in 1 .. f.n - 1}
      BY <1>2, <2>8
    <3> QED
      BY <2>7, <2>10, <3>1, <3>2 DEF PassesUp, Mute
  <2>15. Whole(t, f) /\ Grows(s, t) /\ ~ Ended(t) /\ t.rcv_nxt = Plus(f.iss, Heard(t))
    BY <1>3, <2>2, <2>6, <2>14, PassesUpWhole
  <2>16. PICK g : g = [t EXCEPT !.rcv_nxt = Plus(n, 1)]
    OBVIOUS
  <2>17. PICK w : w = Tell(g, "PEER_CLOSED")
    OBVIOUS
  <2>18. processText(s, seg) = IF s.fin_rcvd /\ n = s.rcv_fin_seq THEN w ELSE t
    BY <1>1, <1>6, <2>3, <2>4, <2>7, <2>8, <2>9, <2>11, <2>16, <2>17 DEF processText
  <2>19. ASSUME s.fin_rcvd, n = s.rcv_fin_seq
         PROVE  Whole(w, f) /\ Grows(s, w)
    <3>1. f.closed /\ n = Plus(f.iss, f.n)
      BY <2>19 DEF Whole, Listens
    <3>2. t.rcv_nxt = n
      BY <2>7, <2>14 DEF PassesUp
    <3>3. Heard(t) \in 0 .. SeqMod \div 2 - 1 /\ f.n \in 0 .. SeqMod \div 2 - 1
      <4>1. Heard(t) \in 1 .. SeqMod \div 2 - 1
        BY <2>13, <2>15, HeardType DEF Whole
      <4> QED
        BY <1>4, <4>1, Windows
    <3>4. Heard(t) = f.n
      <4>1. PICK x : x = Heard(t)
        OBVIOUS
      <4>2. PICK y : y = f.n
        OBVIOUS
      <4>3. n = Plus(f.iss, x) /\ n = Plus(f.iss, y)
        BY <2>15, <3>1, <3>2, <4>1, <4>2
      <4>4. x = y
        <5>1. /\ x \in 0 .. SeqMod \div 2 - 1 /\ y \in 0 .. SeqMod \div 2 - 1 /\ f.iss \in SeqNo
          BY <1>4, <3>3, <4>1, <4>2
        <5> QED
          BY <4>3, <5>1, SamePlace, Zenon
      <4> QED
        BY <4>1, <4>2, <4>4
    <3>5. t.rcvd + 1 = f.n
      BY <2>15, <3>4 DEF Heard
    <3>6. g = [t EXCEPT !.rcv_nxt = Plus(t.rcv_nxt, 1)]
      BY <2>16, <3>2
    <3>7. Whole(w, f) /\ Grows(t, w) /\ w \in Block
      BY <2>13, <2>15, <2>17, <3>1, <3>5, <3>6, ClosedWhole
    <3> QED
      BY <2>13, <2>15, <3>7, GrowsTransitive
  <2> QED
    BY <2>15, <2>18, <2>19
<1> QED
  BY <1>5, <1>6

\* A FIN ends the stream, or is remembered.
LEMMA processFinWhole ==
  ASSUME NEW s \in Block, NEW f \in Far, Whole(s, f),
         NEW seg \in TCPSegment, Comes(seg, s.iss, f), ~ seg.rst, seg.fin
  PROVE  Whole(processFin(s, seg), f) /\ Grows(s, processFin(s, seg))
<1>1. PICK n : n = Plus(seg.seq, seg.len)
  OBVIOUS
<1>2. f.closed /\ n = Plus(f.iss, f.n)
  BY <1>1 DEF Comes
<1>3. n \in SeqNo
  BY <1>1, Segments, PlusType
<1>4. PICK a : a = IF s.rcv_nxt = n
                   THEN Tell([s EXCEPT !.rcv_nxt = Plus(s.rcv_nxt, 1)], "PEER_CLOSED")
                   ELSE [s EXCEPT !.fin_rcvd = TRUE, !.rcv_fin_seq = n]
  OBVIOUS
<1>5. Whole(a, f) /\ Grows(s, a) /\ a \in Block
  <2>1. CASE s.rcv_nxt = n
    <3>1. /\ Heard(s) \in 0 .. SeqMod \div 2 - 1 /\ f.n \in 0 .. SeqMod \div 2 - 1 /\ f.iss \in SeqNo
          /\ s.rcv_nxt = Plus(f.iss, Heard(s))
      <4>1. Heard(s) \in 1 .. SeqMod \div 2 - 1
        BY HeardType DEF Whole
      <4> QED
        BY <4>1, FarType, Windows DEF Whole, Listens
    <3>2. Heard(s) = f.n
      <4>1. PICK x : x = Heard(s)
        OBVIOUS
      <4>2. PICK y : y = f.n
        OBVIOUS
      <4>3. n = Plus(f.iss, x) /\ n = Plus(f.iss, y)
        BY <1>2, <2>1, <3>1, <4>1, <4>2
      <4>4. x = y
        BY <3>1, <4>1, <4>2, <4>3, SamePlace
      <4> QED
        BY <4>1, <4>2, <4>4
    <3>3. ~ Ended(s) /\ s.rcvd + 1 = f.n
      <4>1. s.rcvd \in Nat /\ (Ended(s) => s.rcvd + 1 = f.n)
        BY DEF Whole, Has, Block
      <4> QED
        BY <3>2, <4>1 DEF Heard
    <3>4. PICK g : g = [s EXCEPT !.rcv_nxt = Plus(s.rcv_nxt, 1)]
      OBVIOUS
    <3>5. a = Tell(g, "PEER_CLOSED")
      BY <1>4, <2>1, <3>4
    <3> QED
      BY <1>2, <3>3, <3>4, <3>5, ClosedWhole
  <2>2. CASE s.rcv_nxt # n
    <3>1. a = [s EXCEPT !.fin_rcvd = TRUE, !.rcv_fin_seq = n]
      BY <1>4, <2>2
    <3>2. a \in Block
      BY <1>3, <3>1, ZenonT(60) DEF Block
    <3>3. /\ a.irs = s.irs /\ a.fin_rcvd = TRUE /\ a.rcv_fin_seq = n
          /\ a.told = s.told /\ a.iss = s.iss /\ a.qEnd = s.qEnd /\ a.snd_una = s.snd_una
          /\ a.fin_ack_rcvd = s.fin_ack_rcvd /\ a.out = s.out /\ a.failed = s.failed
          /\ a.rcv_nxt = s.rcv_nxt /\ a.rcvd = s.rcvd /\ a.buf = s.buf
      BY <3>1, SMTT(40) DEF Block
    <3>4. Closings(a) = Closings(s) /\ (Ended(a) <=> Ended(s)) /\ Heard(a) = Heard(s)
      BY <3>3 DEF Closings, Ended, Heard
    <3>5. Has(a, f) /\ Listens(a, f) /\ Acked(a, f)
      BY <1>2, <3>3, <3>4 DEF Whole, Has, Listens, Acked
    <3>6. Faithful(a, f)
      <4>1. ASSUME NEW seg2 \in a.out, Truthful(s, seg2, f)
            PROVE  Truthful(a, seg2, f)
        BY <3>3, <3>4, <4>1 DEF Truthful, InQueue
      <4> QED
        BY <3>3, <4>1 DEF Whole, Faithful
    <3>7. Grows(s, a)
      <4>1. Heard(s) \in Nat
        BY DEF Heard, Block
      <4> QED
        BY <3>3, <3>4, <4>1 DEF Grows
    <3> QED
      BY <3>2, <3>5, <3>6, <3>7 DEF Whole
  <2> QED
    BY <2>1, <2>2
<1>6. ASSUME NEW g \in Block, Speaks(a, g), NEW ev \in EventName
      PROVE  Whole(Event(g, ev), f) /\ Grows(s, Event(g, ev))
  <2>1. Mute(g, Event(g, ev))
    BY <1>6, AdjustedMute DEF Event
  <2>2. Speaks(a, Event(g, ev))
    BY <1>6, <2>1, MuteHushed, SpeaksTransitive
  <2>3. Whole(Event(g, ev), f) /\ Grows(a, Event(g, ev))
    BY <1>5, <2>2, SpeaksWhole
  <2>4. Event(g, ev) \in Block
    BY <1>6, ZenonT(60) DEF Event, Block
  <2> QED
    BY <1>5, <2>3, <2>4, GrowsTransitive
<1>7. PICK c : c = cancelEvent(a, {"2MSL"})
  OBVIOUS
<1>8. Mute(a, c) /\ c \in Block
  BY <1>5, <1>7, cancelEventMute
<1>9. PICK t, u : t = scheduleTimeout(a, "2MSL") /\ u = scheduleTimeout(c, "2MSL")
  OBVIOUS
<1>10. Mute(a, t) /\ t \in Block /\ Mute(c, u) /\ u \in Block
  BY <1>5, <1>8, <1>9, scheduleTimeoutMute DEF TimerName
<1>11. Speaks(a, t) /\ Speaks(a, u) /\ Speaks(a, a)
  BY <1>8, <1>10, MuteHushed, SpeaksTransitive, SpeaksItself
<1>12. /\ Whole(Event(t, "RCV_FIN"), f) /\ Grows(s, Event(t, "RCV_FIN"))
       /\ Whole(Event(u, "RCV_FIN"), f) /\ Grows(s, Event(u, "RCV_FIN"))
       /\ Whole(Event(a, "RCV_FIN"), f) /\ Grows(s, Event(a, "RCV_FIN"))
  BY <1>5, <1>6, <1>10, <1>11 DEF EventName
<1>13. Whole(Event(Event(t, "RCV_FIN"), "RCV_FIN_ACK"), f)
       /\ Grows(s, Event(Event(t, "RCV_FIN"), "RCV_FIN_ACK"))
  <2>1. PICK g : g = Event(t, "RCV_FIN")
    OBVIOUS
  <2>2. g \in Block
    <3>1. "RCV_FIN" \in EventName
      BY DEF EventName
    <3> QED
      BY <1>10, <2>1, <3>1, ZenonT(60) DEF Event, Block
  <2>3. Mute(t, g)
    BY <1>10, <2>1, AdjustedMute DEF Event
  <2>4. Speaks(a, g)
    BY <1>11, <2>3, MuteHushed, SpeaksTransitive
  <2> QED
    BY <1>6, <2>1, <2>2, <2>4 DEF EventName
<1>14. processFin(s, seg) \in {Event(Event(t, "RCV_FIN"), "RCV_FIN_ACK"), Event(t, "RCV_FIN"),
                               Event(u, "RCV_FIN"), Event(a, "RCV_FIN")}
  BY <1>1, <1>4, <1>7, <1>9 DEF processFin
<1> QED
  BY <1>12, <1>13, <1>14

LEMMA GrowsWhole ==
  ASSUME NEW s \in Block, NEW t \in Block, NEW u, NEW f \in Far, Whole(t, f), Grows(s, t),
         u \in Block, Speaks(t, u)
  PROVE  Whole(u, f) /\ Grows(s, u)
<1>1. Whole(u, f) /\ Grows(t, u)
  BY SpeaksWhole
<1> QED
  BY <1>1, GrowsTransitive

LEMMA EventMute ==
  ASSUME NEW s \in Block, NEW e \in EventName
  PROVE  Mute(s, Event(s, e)) /\ Speaks(s, Event(s, e)) /\ Event(s, e) \in Block
<1>1. Mute(s, Event(s, e))
  BY AdjustedMute DEF Event
<1>2. Event(s, e) \in Block
  BY ZenonT(60) DEF Event, Block
<1> QED
  BY <1>1, <1>2, MuteHushed

LEMMA processTextAndFinWhole ==
  ASSUME NEW s \in Block, NEW f \in Far, Whole(s, f),
         NEW seg \in TCPSegment, Comes(seg, s.iss, f), ~ seg.rst, NEW old
  PROVE  Whole(processTextAndFin(s, seg, old), f) /\ Grows(s, processTextAndFin(s, seg, old))
<1>1. PICK a : a = IF s.st \in {"ESTABLISHED", "FIN_WAIT_1", "FIN_WAIT_2"} /\ seg.len > 0
                   THEN processText(s, seg) ELSE s
  OBVIOUS
<1>2. a \in Block /\ Whole(a, f) /\ Grows(s, a)
  <2>1. Whole(processText(s, seg), f) /\ Grows(s, processText(s, seg)) /\ processText(s, seg) \in Block
    BY processTextWhole, processTextKeeps DEF Keeps
  <2>2. Whole(s, f) /\ Grows(s, s)
    BY SpeaksItself, SpeaksGrows
  <2> QED
    BY <1>1, <2>1, <2>2
<1>3. PICK b : b = IF seg.fin THEN processFin(a, seg) ELSE a
  OBVIOUS
<1>4. b \in Block /\ Whole(b, f) /\ Grows(s, b)
  <2>1. CASE seg.fin
    <3>1. Comes(seg, a.iss, f)
      BY <1>2 DEF Grows
    <3>2. Whole(b, f) /\ Grows(a, b)
      BY <1>2, <1>3, <2>1, <3>1, processFinWhole
    <3>3. b \in Block
      BY <1>2, <1>3, <2>1, processFinKeeps DEF Finished, Keeps
    <3> QED
      BY <1>2, <3>2, <3>3, GrowsTransitive
  <2>2. CASE ~ seg.fin
    BY <1>2, <1>3, <2>2
  <2> QED
    BY <2>1, <2>2
<1>5. PICK c : c = IF b.rcv_nxt # s.rcv_nxt THEN sendAck(b) ELSE b
  OBVIOUS
<1>6. c \in Block /\ Whole(c, f) /\ Grows(s, c)
  <2>1. sendAck(b) \in Block /\ Speaks(b, sendAck(b))
    BY <1>4, sendAckHushed, sendAckEmits DEF Hushed, Emits, Sends
  <2>2. Whole(sendAck(b), f) /\ Grows(s, sendAck(b))
    BY <1>4, <2>1, GrowsWhole
  <2> QED
    BY <1>4, <1>5, <2>1, <2>2
<1>7. Whole(Event(c, "CLOSE"), f) /\ Grows(s, Event(c, "CLOSE"))
  BY <1>6, EventMute, GrowsWhole DEF EventName
<1>8. processTextAndFin(s, seg, old) \in {Event(c, "CLOSE"), c}
  BY <1>1, <1>3, <1>5 DEF processTextAndFin
<1> QED
  BY <1>6, <1>7, <1>8

\* Acknowledgement of new data: the block that receivedDataAck starts from.
LEMMA AcknowledgedWhole ==
  ASSUME NEW s \in Block, NEW f \in Far, Whole(s, f), Final(s, f), NEW n \in SeqNo,
         NEW k \in 1 .. f.heard, n = Plus(s.iss, k), NEW m \in SeqNo, NEW c \in BOOLEAN,
         c <=> s.fin_ack_rcvd \/ (s.send_fin /\ n = Plus(s.snd_fin_seq, 1))
  PROVE  /\ Whole(Advanced(s, n, m, c), f) /\ Grows(s, Advanced(s, n, m, c))
         /\ Advanced(s, n, m, c) \in Block /\ Advanced(s, n, m, c).snd_max = s.snd_max
<1>0. PICK t : t = Advanced(s, n, m, c)
  OBVIOUS
<1>1. t \in Block
  BY <1>0, ZenonT(60) DEF Block, Advanced
<1>2. /\ t.irs = s.irs /\ t.fin_rcvd = s.fin_rcvd /\ t.rcv_fin_seq = s.rcv_fin_seq
      /\ t.told = s.told /\ t.iss = s.iss /\ t.qEnd = s.qEnd /\ t.snd_una = n
      /\ t.fin_ack_rcvd = c /\ t.out = s.out /\ t.failed = s.failed
      /\ t.rcv_nxt = s.rcv_nxt /\ t.rcvd = s.rcvd /\ t.buf = s.buf /\ t.snd_max = s.snd_max
  BY <1>0, SMTT(40) DEF Block, Advanced
<1>3. Closings(t) = Closings(s) /\ (Ended(t) <=> Ended(s)) /\ Heard(t) = Heard(s)
  BY <1>2 DEF Closings, Ended, Heard
<1>4. c => f.ended
  BY DEF Whole, Has, Final
<1>5. Has(t, f) /\ Listens(t, f)
  BY <1>2, <1>3, <1>4 DEF Whole, Has, Listens
<1>6. Acked(t, f)
  <2>1. k \in 0 .. f.heard
    BY FarType
  <2> QED
    BY <1>2, <2>1 DEF Acked
<1>7. Faithful(t, f)
  <2>1. ASSUME NEW seg \in t.out, Truthful(s, seg, f)
        PROVE  Truthful(t, seg, f)
    BY <1>2, <1>3, <2>1 DEF Truthful, InQueue
  <2> QED
    BY <1>2, <2>1 DEF Whole, Faithful
<1>8. Grows(s, t)
  <2>1. Heard(s) \in Nat
    BY DEF Heard, Block
  <2> QED
    BY <1>2, <1>3, <2>1 DEF Grows
<1> QED
  BY <1>0, <1>1, <1>2, <1>5, <1>6, <1>7, <1>8 DEF Whole

LEMMA processAckInEstabEtcWhole ==
  ASSUME NEW s \in Block, NEW f \in Far, Whole(s, f), Final(s, f), Order(s),
         NEW seg \in TCPSegment, Comes(seg, s.iss, f), ~ seg.rst, seg.ack
  PROVE  Whole(processAckInEstabEtc(s, seg), f) /\ Grows(s, processAckInEstabEtc(s, seg))
<1>1. PICK n : n = seg.ackNo
  OBVIOUS
<1>2. PICK k \in 1 .. f.heard : n = Plus(s.iss, k)
  BY <1>1 DEF Comes
<1>3. n \in SeqNo /\ seg.seq \in SeqNo
  BY <1>1, Segments
<1>4. PICK fin \in BOOLEAN : fin = (s.send_fin /\ n = Plus(s.snd_fin_seq, 1))
  OBVIOUS
<1>5. PICK m \in SeqNo : m = IF seqLess(s.snd_nxt, n) THEN n ELSE s.snd_nxt
  BY <1>3, NumbersIn
<1>6. PICK c \in BOOLEAN : c = (s.fin_ack_rcvd \/ fin)
  OBVIOUS
<1>7. PICK a : a = Advanced(s, n, m, c)
  OBVIOUS
<1>8. Whole(a, f) /\ Grows(s, a) /\ a \in Block /\ a.snd_max = s.snd_max
  <2>1. n \in SeqNo /\ (c <=> s.fin_ack_rcvd \/ (s.send_fin /\ n = Plus(s.snd_fin_seq, 1)))
    BY <1>3, <1>4, <1>6
  <2>2. n = Plus(s.iss, k)
    BY <1>2
  <2>3. k \in 1 .. f.heard /\ m \in SeqNo /\ c \in BOOLEAN
    BY <1>2, <1>5, <1>6
  <2> QED
    BY <1>7, <2>1, <2>2, <2>3, AcknowledgedWhole
<1>9. PICK x \in SeqNo : x = IF fin THEN s.snd_fin_seq ELSE n
  BY <1>3, NumbersIn
<1>10. PICK b : b = discardUpTo(a, x)
  OBVIOUS
<1>11. Speaks(a, b) /\ b \in Block
  BY <1>8, <1>10, discardUpToMute, MuteHushed
<1>12. b.snd_max = a.snd_max /\ b.iss = a.iss /\ b.qEnd = a.qEnd
  <2>1. PICK g \in Failure : discardUpTo(a, x) = [a EXCEPT !.qBegin = x, !.failed = g]
    BY <1>8, discardUpToIs
  <2> QED
    BY <1>8, <1>10, <2>1 DEF Block
<1>13. PICK w : w = updateWindow(b, seg.seq, n)
  OBVIOUS
<1>14. Speaks(b, w) /\ Emits(b, w)
  BY <1>3, <1>11, <1>13, updateWindowMute, updateWindowIs, MuteHushed
<1>15. PICK d : d = IF \/ seqLess(s.snd_wl1, seg.seq)
                       \/ s.snd_wl1 = seg.seq /\ seqLE(s.snd_wl2, n) THEN w ELSE b
  OBVIOUS
<1>16. Speaks(b, d) /\ d \in Block /\ d.snd_max = b.snd_max /\ d.iss = b.iss /\ d.qEnd = b.qEnd
  BY <1>11, <1>14, <1>15, SpeaksItself DEF Emits, Sends
<1>17. Queued(d)
  <2>1. Queued(s)
    BY OrderQueued
  <2>2. d.snd_max = s.snd_max /\ d.iss = s.iss /\ d.qEnd = s.qEnd
    BY <1>8, <1>12, <1>16 DEF Grows
  <2> QED
    BY <2>1, <2>2 DEF Queued
<1>18. PICK r : r = receivedDataAck(d)
  OBVIOUS
<1>19. Speaks(d, r) /\ r \in Block
  BY <1>16, <1>17, <1>18, receivedDataAckSpeaks, receivedDataAckAnswers DEF Answers, Sends
<1>20. Speaks(a, r)
  <2>1. Speaks(a, d)
    BY <1>11, <1>16, SpeaksTransitive
  <2> QED
    BY <1>19, <2>1, SpeaksTransitive
<1>21. Whole(r, f) /\ Grows(s, r)
  BY <1>8, <1>19, <1>20, GrowsWhole
<1>22. ASSUME NEW g \in Block, Whole(g, f), Grows(s, g)
       PROVE  Whole([g EXCEPT !.dupacks = 0], f) /\ Grows(s, [g EXCEPT !.dupacks = 0])
  <2>1. PICK h : h = [g EXCEPT !.dupacks = 0]
    OBVIOUS
  <2>2. h \in Block
    <3>1. 0 \in 0 .. 4
      OBVIOUS
    <3> QED
      BY <2>1, <3>1, Adjusted DEF Emits, Sends
  <2>3. Speaks(g, h)
    BY <2>1, AdjustedMute, MuteHushed
  <2>4. Whole(h, f) /\ Grows(s, h)
    BY <1>22, <2>2, <2>3, GrowsWhole
  <2> QED
    BY <2>1, <2>4
<1>23. Whole(s, f) /\ Grows(s, s)
  BY SpeaksItself, SpeaksGrows
<1>24. PICK y \in Block : y = sendAck(s)
  BY sendAckEmits DEF Emits, Sends
<1>25. Whole(y, f) /\ Grows(s, y)
  BY <1>23, <1>24, sendAckHushed, GrowsWhole DEF Hushed
<1>26. PICK p \in 0 .. 4 : p = Least(4, s.dupacks + 1)
  BY DEF Least, Block
<1>27. PICK q : q = [s EXCEPT !.dupacks = p]
  OBVIOUS
<1>28. Emits(s, q) /\ Speaks(s, q)
  BY <1>27, Adjusted, AdjustedMute, MuteHushed
<1>29. q \in Block /\ Order(q)
  BY <1>28, SendsOrder DEF Emits, Sends
<1>30. PICK z : z = receivedDuplicateAck(q)
  OBVIOUS
<1>31. Speaks(q, z) /\ z \in Block
  BY <1>29, <1>30, receivedDuplicateAckSpeaks, receivedDuplicateAckSends DEF Sends
<1>32. Whole(z, f) /\ Grows(s, z)
  BY <1>23, <1>28, <1>31, SpeaksTransitive, GrowsWhole
<1>33. processAckInEstabEtc(s, seg) \in {z, [s EXCEPT !.dupacks = 0], [r EXCEPT !.dupacks = 0],
                                         [y EXCEPT !.dupacks = 0]}
  <2>1. a = [s EXCEPT !.snd_una = seg.ackNo,
                      !.snd_nxt = IF seqLess(@, seg.ackNo) THEN seg.ackNo ELSE @,
                      !.fin_ack_rcvd = @ \/ fin]
    BY <1>1, <1>5, <1>6, <1>7 DEF Block, Advanced
  <2>2. q = [s EXCEPT !.dupacks = Least(4, @ + 1)]
    BY <1>26, <1>27 DEF Block
  <2> QED
    BY <1>1, <1>4, <1>9, <1>10, <1>13, <1>15, <1>18, <1>24, <1>30, <2>1, <2>2
       DEF processAckInEstabEtc
<1> QED
  BY <1>19, <1>21, <1>22, <1>23, <1>25, <1>32, <1>33

\* What is said keeps the order of the sequence numbers, and the finality of the other host.
LEMMA SpeaksFinal ==
  ASSUME NEW s, NEW t, NEW f, Speaks(s, t), Final(s, f)
  PROVE  Final(t, f)
BY DEF Final, Speaks, SameNotes

LEMMA processAckWhole ==
  ASSUME NEW s \in Block, NEW f \in Far, Whole(s, f), Final(s, f), Order(s),
         NEW seg \in TCPSegment, Comes(seg, s.iss, f), ~ seg.rst, seg.ack
  PROVE  Whole(processAck(s, seg), f) /\ Grows(s, processAck(s, seg))
<1>1. PICK a : a = IF s.st = "SYN_RCVD" THEN Event(established(s, FALSE), "RCV_ACK") ELSE s
  OBVIOUS
<1>2. a \in Block /\ Speaks(s, a) /\ Order(a)
  <2>1. PICK c : c = established(s, FALSE)
    OBVIOUS
  <2>2. Mute(s, c)
    BY <2>1, OrderQueued, establishedSpeaks
  <2>3. c \in Block /\ c.snd_max = s.snd_max /\ Order(c)
    <3>1. MSS \in 0 .. RcvWnd
      BY Windows
    <3>2. c = [s EXCEPT !.cwnd = MSS]
      BY <2>1 DEF established
    <3>3. Emits(s, c)
      BY <3>1, <3>2, Adjusted
    <3> QED
      BY <3>3, SendsOrder DEF Emits, Sends
  <2>4. PICK d : d = Event(c, "RCV_ACK")
    OBVIOUS
  <2>5. Speaks(c, d) /\ d \in Block
    BY <2>3, <2>4, EventMute DEF EventName
  <2>6. SameNumbers(c, d)
    <3>1. Keeps(c, Event(c, "RCV_ACK"))
      BY <2>3, EventKeeps DEF EventName
    <3>2. d.snd_una = c.snd_una /\ d.snd_max = c.snd_max /\ d.iss = c.iss /\ d.qBegin = c.qBegin
      BY <2>4, <3>1 DEF Keeps
    <3> QED
      BY <2>4, <3>1, <3>2 DEF Keeps, SameNumbers
  <2>7. Speaks(s, d) /\ Order(d)
    BY <2>2, <2>3, <2>5, <2>6, MuteHushed, SpeaksTransitive, SameOrder
  <2>8. a \in {d, s}
    BY <1>1, <2>1, <2>4
  <2> QED
    BY <2>5, <2>7, <2>8, SpeaksItself
<1>3. Whole(a, f) /\ Grows(s, a) /\ Final(a, f) /\ a.iss = s.iss
  BY <1>2, SpeaksWhole, SpeaksFinal DEF Speaks, SameNotes
<1>4. PICK b : b = IF s.st \in {"LAST_ACK", "TIME_WAIT"} THEN a ELSE processAckInEstabEtc(a, seg)
  OBVIOUS
<1>5. b \in Block /\ Whole(b, f) /\ Grows(s, b)
  <2>1. PICK c : c = processAckInEstabEtc(a, seg)
    OBVIOUS
  <2>2. Whole(c, f) /\ Grows(a, c) /\ c \in Block
    BY <1>2, <1>3, <2>1, processAckInEstabEtcWhole, processAckInEstabEtcAcknowledges, AcknowledgesKeeps
  <2>3. Grows(s, c)
    BY <1>2, <1>3, <2>2, GrowsTransitive
  <2> QED
    BY <1>2, <1>3, <1>4, <2>1, <2>2, <2>3
<1>6. PICK e1 : e1 = Event(b, "RCV_ACK")
  OBVIOUS
<1>7. Speaks(b, e1) /\ e1 \in Block
  BY <1>5, <1>6, EventMute DEF EventName
<1>8. PICK g : g = scheduleTimeout(b, "2MSL")
  OBVIOUS
<1>9. Speaks(b, g) /\ g \in Block
  BY <1>5, <1>8, scheduleTimeoutMute, MuteHushed DEF TimerName
<1>10. PICK g1 : g1 = Event(g, "RCV_ACK")
  OBVIOUS
<1>11. Speaks(b, g1) /\ g1 \in Block
  BY <1>9, <1>10, EventMute, SpeaksTransitive DEF EventName
<1>12. PICK h \in Block : h = sendAck(b)
  BY <1>5, sendAckEmits DEF Emits, Sends
<1>13. PICK h1 : h1 = cancelEvent(h, {"2MSL"})
  OBVIOUS
<1>14. PICK h2 : h2 = scheduleTimeout(h1, "2MSL")
  OBVIOUS
<1>15. Speaks(b, h2) /\ h2 \in Block
  <2>1. Speaks(b, h)
    BY <1>5, <1>12, sendAckHushed DEF Hushed
  <2>2. Speaks(h, h1) /\ h1 \in Block
    BY <1>12, <1>13, cancelEventMute, MuteHushed
  <2>3. Speaks(h1, h2) /\ h2 \in Block
    BY <1>14, <2>2, scheduleTimeoutMute, MuteHushed DEF TimerName
  <2> QED
    BY <2>1, <2>2, <2>3, SpeaksTransitive
<1>16. PICK m : m = CASE s.st = "FIN_WAIT_1" /\ b.fin_ack_rcvd -> e1
                      [] s.st = "CLOSING" /\ b.fin_ack_rcvd -> g1
                      [] s.st = "TIME_WAIT" -> h2
                      [] OTHER -> b
  OBVIOUS
<1>17. m \in Block /\ Whole(m, f) /\ Grows(s, m)
  <2>1. m \in {e1, g1, h2, b}
    BY <1>16
  <2>2. Speaks(b, m) /\ m \in Block
    BY <1>5, <1>7, <1>11, <1>15, <2>1, SpeaksItself
  <2> QED
    BY <1>5, <2>2, GrowsWhole
<1>18. PICK x : x = Event(b, "IGNORE")
  OBVIOUS
<1>19. Whole(x, f) /\ Grows(s, x)
  BY <1>5, <1>18, EventMute, GrowsWhole DEF EventName
<1>20. PICK y1 : y1 = Tell(s, "CLOSED")
  OBVIOUS
<1>21. PICK y : y = Event(y1, "RCV_ACK")
  OBVIOUS
<1>22. Whole(y, f) /\ Grows(s, y)
  <2>1. Speaks(s, y1) /\ y1 \in Block
    BY <1>20, TellHushed, TellKeeps DEF Hushed, Keeps, Indication
  <2>2. Speaks(y1, y)
    BY <1>21, <2>1, EventMute DEF EventName
  <2>3. Speaks(s, y)
    BY <2>1, <2>2, SpeaksTransitive
  <2> QED
    BY <2>3, SpeaksWhole
<1>23. PICK z : z = processTextAndFin(m, seg, s.snd_nxt)
  OBVIOUS
<1>24. Whole(z, f) /\ Grows(s, z)
  <2>1. Comes(seg, m.iss, f)
    BY <1>17 DEF Grows
  <2>2. Whole(z, f) /\ Grows(m, z)
    BY <1>17, <1>23, <2>1, processTextAndFinWhole
  <2>3. z \in Block
    BY <1>17, <1>23, processTextAndFinReceives DEF Receives, Keeps
  <2> QED
    BY <1>17, <2>2, <2>3, GrowsTransitive
<1>25. processAck(s, seg) \in {x, y, z}
  BY <1>1, <1>4, <1>6, <1>8, <1>10, <1>12, <1>13, <1>14, <1>16, <1>18, <1>20, <1>21, <1>23,
     Zenon DEF processAck
<1> QED
  BY <1>19, <1>22, <1>24, <1>25

\* In SYN_RCVD an acknowledgement of what was never sent is answered, and nothing else.
LEMMA DroppedHushed ==
  ASSUME NEW s \in Block, NEW f \in Far, OnlySyn(s), Order(s), s.st = "SYN_RCVD",
         NEW seg \in TCPSegment, Comes(seg, s.iss, f), ~ seg.rst, seg.ack, seqLess(s.snd_max, seg.ackNo)
  PROVE  Hushed(s, processAck(s, seg))
<1>1. PICK c : c = established(s, FALSE)
  OBVIOUS
<1>2. Hushed(s, c) /\ c \in Block /\ c.snd_max = s.snd_max /\ c.snd_una = s.snd_una
  <2>1. MSS \in 0 .. RcvWnd
    BY Windows
  <2>2. c = [s EXCEPT !.cwnd = MSS]
    BY <1>1 DEF established
  <2>3. Emits(s, c) /\ Mute(s, c)
    BY <2>1, <2>2, Adjusted, AdjustedMute
  <2> QED
    BY <2>3, MuteHushed DEF Emits, Sends
<1>3. PICK a : a = Event(c, "RCV_ACK")
  OBVIOUS
<1>4. Hushed(s, a) /\ a \in Block /\ a.snd_max = s.snd_max /\ a.snd_una = s.snd_una
  <2>1. Mute(c, a) /\ Keeps(c, a)
    BY <1>2, <1>3, EventMute, EventKeeps DEF EventName
  <2> QED
    BY <1>2, <2>1, MuteHushed, HushedTransitive DEF Keeps
<1>5. ~ seqLE(seg.ackNo, a.snd_una) /\ ~ seqLE(seg.ackNo, a.snd_max)
  <2>1. PICK k \in 1 .. f.heard : seg.ackNo = Plus(s.iss, k)
    BY DEF Comes
  <2>2. s.iss \in SeqNo /\ k \in 0 .. SeqMod \div 2 - 1 /\ 0 \in 0 .. SeqMod \div 2 - 1
        /\ 1 \in 0 .. SeqMod \div 2 - 1
    BY <2>1, NumbersIn, FarType, Windows
  <2>3. s.snd_una = Plus(s.iss, 0) /\ s.snd_max = Plus(s.iss, 1)
    <3>1. s.iss \in Nat /\ s.iss < SeqMod
      BY <2>2, Windows DEF SeqNo
    <3>2. Plus(s.iss, 0) = s.iss
      BY <3>1, Mod DEF Plus
    <3> QED
      BY <3>2 DEF OnlySyn
  <2>4. 1 < k
    BY <2>1, <2>2, <2>3, Compare
  <2>5. ~ (k <= 0) /\ ~ (k <= 1)
    BY <2>2, <2>4, Windows
  <2>6. ~ seqLE(seg.ackNo, s.snd_una) /\ ~ seqLE(seg.ackNo, s.snd_max)
    BY <2>1, <2>2, <2>3, <2>5, Compare
  <2> QED
    BY <1>4, <2>6
<1>6. PICK b \in Block : b = sendAck(a)
  BY <1>4, sendAckEmits DEF Emits, Sends
<1>7. PICK d : d = [b EXCEPT !.dupacks = 0]
  OBVIOUS
<1>8. Hushed(a, d) /\ d \in Block
  <2>1. Hushed(a, b)
    BY <1>4, <1>6, sendAckHushed
  <2>2. Hushed(b, d)
    BY <1>7, AdjustedMute, MuteHushed
  <2>3. 0 \in 0 .. 4
    OBVIOUS
  <2>4. d \in Block
    BY <1>7, <2>3, Adjusted DEF Emits, Sends
  <2> QED
    BY <2>1, <2>2, <2>4, HushedTransitive
<1>9. processAckInEstabEtc(a, seg) = d
  BY <1>5, <1>6, <1>7 DEF processAckInEstabEtc
<1>10. processAck(s, seg) = Event(d, "IGNORE")
  BY <1>1, <1>3, <1>9 DEF processAck
<1>11. Hushed(d, Event(d, "IGNORE"))
  BY <1>8, EventMute, MuteHushed DEF EventName
<1> QED
  BY <1>4, <1>8, <1>10, <1>11, HushedTransitive

LEMMA TellEventHushed ==
  ASSUME NEW s \in Block, NEW code \in Indication, code # "PEER_CLOSED", NEW e \in EventName
  PROVE  Hushed(s, Event(Tell(s, code), e))
<1>1. PICK t \in Block : t = Tell(s, code)
  BY TellKeeps DEF Keeps
<1>2. Hushed(s, t) /\ Hushed(t, Event(t, e))
  BY <1>1, TellHushed, EventMute, MuteHushed
<1> QED
  BY <1>1, <1>2, HushedTransitive

LEMMA processRstHushed ==
  ASSUME NEW s \in Block
  PROVE  Hushed(s, processRst(s))
<1>1. PICK d : d = discardUpTo(s, s.qEnd)
  OBVIOUS
<1>2. Hushed(s, d) /\ d \in Block
  BY <1>1, NumbersIn, discardUpToMute, MuteHushed
<1>3. PICK t : t = Tell(d, "CONNECTION_REFUSED")
  OBVIOUS
<1>4. PICK x : x = Event(t, "RCV_RST")
  OBVIOUS
<1>5. PICK y : y = Event(d, "RCV_RST")
  OBVIOUS
<1>6. Hushed(s, x) /\ Hushed(s, y)
  <2>1. Hushed(d, x)
    BY <1>2, <1>3, <1>4, TellEventHushed DEF Indication, EventName
  <2>2. Hushed(d, y)
    BY <1>2, <1>5, EventMute, MuteHushed DEF EventName
  <2> QED
    BY <1>2, <2>1, <2>2, HushedTransitive
<1>7. PICK v : v = Event(Tell(s, "CONNECTION_RESET"), "RCV_RST")
  OBVIOUS
<1>8. PICK w : w = Event(Tell(s, "CLOSED"), "RCV_RST")
  OBVIOUS
<1>9. Hushed(s, v) /\ Hushed(s, w)
  BY <1>7, <1>8, TellEventHushed DEF Indication, EventName
<1>10. processRst(s) \in {x, y, v, w}
  BY <1>1, <1>3, <1>4, <1>5, <1>7, <1>8, Zenon DEF processRst
<1> QED
  BY <1>6, <1>9, <1>10

LEMMA processSegmentWhole ==
  ASSUME NEW s \in Block, NEW f \in Far, Whole(s, f), Final(s, f), Order(s),
         s.ev = "IGNORE", s.failed = "no", s.st = "SYN_RCVD" => OnlySyn(s),
         NEW seg \in TCPSegment, Comes(seg, s.iss, f)
  PROVE  LET t == processSegment1stThru8th(s, seg)
         IN  /\ Whole(t, f) /\ Grows(s, t)
             /\ s.st = "SYN_RCVD" /\ t.ev \notin {"RCV_ACK", "RCV_FIN"} => Hushed(s, t)
<1>1. PICK t : t = processSegment1stThru8th(s, seg)
  OBVIOUS
<1>2. CASE Hushed(s, t)
  BY <1>1, <1>2, SpeaksWhole DEF Hushed
<1>3. CASE t = processAck(s, seg) /\ ~ seg.rst /\ seg.ack
  <2>1. Whole(t, f) /\ Grows(s, t)
    BY <1>3, processAckWhole
  <2>2. s.st = "SYN_RCVD" /\ t.ev \notin {"RCV_ACK", "RCV_FIN"} => Hushed(s, t)
    <3>1. s.st = "SYN_RCVD" /\ t.ev \notin {"RCV_ACK", "RCV_FIN"} => seqLess(s.snd_max, seg.ackNo)
      BY <1>3, processAckProcesses
    <3> QED
      BY <1>3, <3>1, DroppedHushed
  <2> QED
    BY <1>1, <2>1, <2>2
<1>4. Hushed(s, t) \/ (t = processAck(s, seg) /\ ~ seg.rst /\ seg.ack)
  <2>1. Hushed(s, s) /\ Hushed(s, sendAck(s)) /\ Hushed(s, processRst(s))
    BY SpeaksItself, sendAckHushed, processRstHushed
  <2>2. Hushed(s, Event(Tell(s, "CONNECTION_RESET"), "RCV_UNEXP_SYN"))
    BY TellEventHushed DEF Indication, EventName
  <2>3. Hushed(s, sendRst(s, seg.ackNo))
    BY Segments, sendRstHushed
  <2>4. \/ t \in {s, sendAck(s), processRst(s), Event(Tell(s, "CONNECTION_RESET"), "RCV_UNEXP_SYN"),
                  sendRst(s, seg.ackNo)}
        \/ (t = processAck(s, seg) /\ ~ seg.rst /\ seg.ack)
    BY <1>1, Zenon DEF processSegment1stThru8th
  <2> QED
    BY <2>1, <2>2, <2>3, <2>4
<1> QED
  BY <1>2, <1>3, <1>4

-----------------------------------------------------------------------------
(* The two hosts, and what is between them. *)

LEMMA MoreHas ==
  ASSUME NEW s \in Block, NEW f \in Far, NEW g \in Far, More(f, g)
  PROVE  /\ Has(s, f) => Has(s, g)
         /\ Listens(s, f) => Listens(s, g)
         /\ Acked(s, f) => Acked(s, g)
         /\ Takes(s, f) => Takes(s, g)
<1>1. /\ g.iss = f.iss /\ f.n <= g.n /\ (f.closed => g.closed /\ g.n = f.n)
      /\ f.heard <= g.heard /\ (f.ended => g.ended)
  BY DEF More
<1>2. f.n \in Nat /\ g.n \in Nat /\ f.heard \in Nat /\ g.heard \in Nat /\ s.rcvd \in Nat
  <2>1. s.rcvd \in Nat
    BY DEF Block
  <2>2. \A h \in Far : h.n \in Nat /\ h.heard \in Nat
    BY FarType, Windows
  <2> QED
    BY <2>1, <2>2
<1>3. Has(s, f) => Has(s, g)
  BY <1>1, <1>2 DEF Has
<1>4. Listens(s, f) => Listens(s, g)
  <2>1. {Plus(f.iss, j) : j \in 1 .. f.n - 1} \subseteq {Plus(g.iss, j) : j \in 1 .. g.n - 1}
    <3>1. \A j \in 1 .. f.n - 1 : j \in 1 .. g.n - 1
      BY <1>1, <1>2
    <3> QED
      BY <1>1, <3>1
  <2>2. s.irs = f.iss => s.irs = g.iss
    BY <1>1
  <2> QED
    BY <1>1, <2>1 DEF Listens
<1>5. Acked(s, f) => Acked(s, g)
  <2>1. \A u \in 0 .. f.heard : u \in 0 .. g.heard
    BY <1>1, <1>2
  <2> QED
    BY <2>1 DEF Acked
<1> QED
  BY <1>3, <1>4, <1>5 DEF Takes

LEMMA MoreComes ==
  ASSUME NEW seg \in TCPSegment, NEW i, NEW f \in Far, NEW g \in Far, More(f, g), Comes(seg, i, f)
  PROVE  Comes(seg, i, g)
<1>1. /\ g.iss = f.iss /\ f.n <= g.n /\ (f.closed => g.closed /\ g.n = f.n)
      /\ f.heard <= g.heard /\ (f.ended => g.ended)
  BY DEF More
<1>2. f.n \in Nat /\ g.n \in Nat /\ f.heard \in Nat /\ g.heard \in Nat /\ seg.len \in Nat
  BY FarType, Windows, Segments
<1>3. \A k \in 1 .. f.heard : k \in 1 .. g.heard
  BY <1>1, <1>2
<1>4. \A j \in Nat : j + seg.len <= f.n => j + seg.len <= g.n
  BY <1>1, <1>2
<1> QED
  BY <1>1, <1>3, <1>4 DEF Comes

\* What a truthful host sends is what the other one may count on.
LEMMA TruthComes ==
  ASSUME NEW t \in Block, NEW seg \in TCPSegment, NEW f \in Far, Truthful(t, seg, f), NEW g \in Far,
         t.iss = g.iss, Heard(t) = g.heard, seg.len > 0 \/ seg.fin => t.qEnd = Plus(g.iss, g.n),
         seg.fin => g.closed /\ Plus(seg.seq, seg.len) = t.qEnd
  PROVE  Comes(seg, f.iss, g)
<1>1. seg.len > 0 /\ ~ seg.rst =>
        \E j \in Nat : 1 <= j /\ j + seg.len <= g.n /\ seg.seq = Plus(g.iss, j)
  <2> SUFFICES ASSUME seg.len > 0, ~ seg.rst
               PROVE  \E j \in Nat : 1 <= j /\ j + seg.len <= g.n /\ seg.seq = Plus(g.iss, j)
    OBVIOUS
  <2>1. PICK j \in Nat, n \in Nat : /\ 1 <= j /\ j + seg.len <= n /\ n + 1 < SeqMod \div 2
                                    /\ seg.seq = Plus(t.iss, j) /\ t.qEnd = Plus(t.iss, n)
    BY DEF Truthful, InQueue
  <2>2. n = g.n
    <3>1. n \in 0 .. SeqMod \div 2 - 1 /\ g.n \in 0 .. SeqMod \div 2 - 1 /\ g.iss \in SeqNo
      BY <2>1, FarType, Windows
    <3> QED
      BY <2>1, <3>1, SamePlace
  <2> QED
    BY <2>1, <2>2
<1> QED
  BY <1>1 DEF Comes, Truthful

LEMMA stateEnteredLasts ==
  ASSUME NEW s \in Block, NEW x \in State
  PROVE  /\ Lasts(s, stateEntered(s, x))
         /\ x # "CLOSED" \/ s.st = "CLOSED" => Hushed(s, stateEntered(s, x))
<1>1. PICK t : t = stateEntered(s, x)
  OBVIOUS
<1>2. ASSUME NEW a \in Block, NEW p, p = [a EXCEPT !.st = x]
      PROVE  Mute(a, p) /\ p \in Block /\ p.out = a.out /\ p.failed = a.failed
  <2>1. p \in Block
    BY <1>2, ZenonT(60) DEF Block
  <2>2. /\ p.irs = a.irs /\ p.rcv_nxt = a.rcv_nxt /\ p.rcvd = a.rcvd /\ p.buf = a.buf
        /\ p.fin_rcvd = a.fin_rcvd /\ p.rcv_fin_seq = a.rcv_fin_seq /\ p.told = a.told
        /\ p.iss = a.iss /\ p.qEnd = a.qEnd /\ p.snd_una = a.snd_una
        /\ p.fin_ack_rcvd = a.fin_ack_rcvd
        /\ p.send_fin = a.send_fin /\ p.snd_fin_seq = a.snd_fin_seq
        /\ p.out = a.out /\ p.failed = a.failed
    BY <1>2, SMTT(40) DEF Block
  <2> QED
    BY <2>1, <2>2 DEF Mute
<1>3. ASSUME NEW p, Hushed(s, p), p.out = s.out, p.failed = s.failed, p = t
      PROVE  Lasts(s, t) /\ Hushed(s, t)
  BY <1>3 DEF Hushed, Speaks, SameEars, SameNotes, Lasts
<1>4. PICK a : a = cancelEvent(s, {"CONN_ESTAB", "SYN_REXMIT"})
  OBVIOUS
<1>5. Hushed(s, a) /\ a \in Block /\ a.out = s.out /\ a.failed = s.failed
  BY <1>4, cancelEventMute, cancelEventCancels, MuteHushed DEF Cancels
<1>6. PICK b : b = [a EXCEPT !.st = x]
  OBVIOUS
<1>7. Hushed(s, b) /\ b \in Block /\ b.out = s.out /\ b.failed = s.failed
  <2>1. Mute(a, b) /\ b \in Block /\ b.out = a.out /\ b.failed = a.failed
    BY <1>2, <1>5, <1>6
  <2> QED
    BY <1>5, <2>1, MuteHushed, HushedTransitive
<1>8. CASE x = s.st
  <2>1. t = s
    BY <1>1, <1>8 DEF stateEntered
  <2> QED
    BY <1>1, <1>3, <2>1, SpeaksItself
<1>9. CASE x # s.st /\ x = "ESTABLISHED"
  <2>1. PICK c : c = Tell(b, "ESTABLISHED")
    OBVIOUS
  <2>2. t = c
    BY <1>1, <1>4, <1>6, <1>9, <2>1 DEF stateEntered
  <2>3. Hushed(b, c)
    BY <1>7, <2>1, TellHushed DEF Indication
  <2>4. c.out = b.out /\ c.failed = b.failed
    BY <1>7, <2>1 DEF Tell, Block
  <2> QED
    BY <1>1, <1>3, <1>7, <2>2, <2>3, <2>4, HushedTransitive
<1>10. CASE x # s.st /\ x = "CLOSED"
  <2>1. PICK c : c = ClosedOf(s)
    OBVIOUS
  <2>2. t = c
    BY <1>1, <1>10, <2>1 DEF stateEntered, ClosedOf
  <2>3. /\ c.irs = s.irs /\ c.rcvd = s.rcvd /\ c.told = s.told /\ c.iss = s.iss /\ c.qEnd = s.qEnd
        /\ c.out = s.out /\ c.failed = s.failed /\ c.fin_ack_rcvd = FALSE
    BY <2>1 DEF ClosedOf, NewConnection
  <2> QED
    BY <1>1, <1>10, <2>2, <2>3 DEF Lasts, Closings
<1>11. CASE x # s.st /\ x \in {"SYN_RCVD", "SYN_SENT"}
  <2>1. PICK c : c = [s EXCEPT !.st = x]
    OBVIOUS
  <2>2. t = c
    BY <1>1, <1>11, <2>1 DEF stateEntered
  <2>3. Mute(s, c) /\ c.out = s.out /\ c.failed = s.failed
    BY <1>2, <2>1
  <2> QED
    BY <1>1, <1>3, <2>2, <2>3, MuteHushed
<1>12. CASE x # s.st /\ x \notin {"ESTABLISHED", "CLOSED", "SYN_RCVD", "SYN_SENT"}
  <2>1. t = b
    BY <1>1, <1>4, <1>6, <1>12 DEF stateEntered
  <2> QED
    BY <1>1, <1>3, <1>7, <2>1
<1> QED
  BY <1>8, <1>9, <1>10, <1>11, <1>12

LEMMA OffersOn ==
  ASSUME NEW s \in Block, NEW p \in Block, NEW i \in SeqNo, NEW n \in 1 .. SeqMod \div 2 - 2,
         NEW c \in BOOLEAN, Offers(s, i, n, c), s.st # "CLOSED",
         s.st \in Live => s.iss = i /\ p.iss = i /\ Order(s) /\ (s.send_fin => p.send_fin),
         s.st \in Synchronized => p.st \in Synchronized \cup {"CLOSED"},
         p.send_fin => p.snd_fin_seq = p.qEnd,
         s.st \in Live /\ p.st \in Synchronized \cup {"CLOSED"} => Extends(s, p)
  PROVE  \E m \in 1 .. SeqMod \div 2 - 2, d \in BOOLEAN :
           /\ Offers(p, i, m, d) /\ n <= m /\ (c => d /\ m = n)
           /\ s.st \in Live /\ p.st \in Synchronized \cup {"CLOSED"}
                => p.qEnd = Plus(i, m) /\ (p.send_fin => d)
<1>1. CASE s.st \in Live /\ p.st \in Synchronized \cup {"CLOSED"}
  <2>1. PICK l \in Nat : s.qEnd = Plus(i, l) /\ 1 <= l /\ l + 1 < SeqMod \div 2
    BY <1>1 DEF Order, Offsets
  <2>2. SeqMod \div 2 \in Nat /\ l \in 0 .. SeqMod \div 2 - 1 /\ n \in 0 .. SeqMod \div 2 - 1
        /\ l \in 1 .. SeqMod \div 2 - 2 /\ l \in SeqNo /\ 1 \in SeqNo
    BY <2>1, Windows DEF SeqNo
  <2>3. n <= l /\ (c => n = l)
    <3>1. CASE c \/ n > 1
      <4>1. s.qEnd = Plus(i, n)
        BY <3>1 DEF Offers
      <4>2. s.qEnd = Plus(i, l)
        BY <2>1
      <4>3. n = l
        BY <2>2, <4>1, <4>2, SamePlace, Zenon
      <4> QED
        BY <2>1, <4>3
    <3>2. CASE ~ c /\ ~ (n > 1)
      BY <2>1, <2>2, <3>2
    <3> QED
      BY <3>1, <3>2
  <2>4. PICK m \in 1 .. SeqMod \div 2 - 2 : /\ p.qEnd = Plus(i, m) /\ l <= m /\ (c => m = l)
    <3>1. CASE p.qEnd = s.qEnd
      BY <2>1, <2>2, <3>1
    <3>2. CASE p.qEnd # s.qEnd
      <4>1. PICK k \in Nat : p.qEnd = Plus(s.qEnd, k) /\ Written(s) + k + 2 < SeqMod \div 2
        BY <1>1, <3>2 DEF Extends
      <4>2. Written(s) = l - 1
        <5>1. Dist(Plus(i, 1), Plus(i, l)) = l - 1
          BY <2>1, <2>2, DistFrom
        <5> QED
          BY <1>1, <2>1, <5>1 DEF Written
      <4>3. l + k + 1 < SeqMod \div 2 /\ k \in 0 .. SeqMod /\ l \in 0 .. SeqMod
        BY <2>1, <2>2, <4>1, <4>2, Windows
      <4>4. p.qEnd = Plus(i, l + k)
        BY <2>1, <4>1, <4>3, PlusPlus
      <4>5. ~ c
        BY <1>1, <3>2 DEF Extends, Offers
      <4>6. l + k \in 1 .. SeqMod \div 2 - 2 /\ l <= l + k
        BY <2>1, <2>2, <4>1, <4>3
      <4> QED
        BY <4>4, <4>5, <4>6
    <3> QED
      BY <3>1, <3>2
  <2>5. PICK d \in BOOLEAN : d = p.send_fin
    BY DEF Block
  <2>6. Offers(p, i, m, d)
    BY <1>1, <2>4, <2>5 DEF Offers
  <2>7. n <= m /\ (c => d /\ m = n)
    <3>1. c => p.send_fin
      BY <1>1 DEF Offers
    <3> QED
      BY <2>2, <2>3, <2>4, <2>5, <3>1
  <2> QED
    BY <2>4, <2>5, <2>6, <2>7
<1>2. CASE ~ (s.st \in Live /\ p.st \in Synchronized \cup {"CLOSED"})
  <2>1. ~ c /\ ~ (n > 1)
    BY <1>2 DEF Offers, Live
  <2>2. 1 \in 1 .. SeqMod \div 2 - 2 /\ n <= 1 /\ ~ (1 > 1)
    BY <2>1, Windows
  <2>3. Offers(p, i, 1, FALSE)
    BY <2>2 DEF Offers
  <2> QED
    BY <1>2, <2>1, <2>2, <2>3
<1> QED
  BY <1>1, <1>2

LEMMA EntersBecomes ==
  ASSUME NEW t \in Block, t.st # "CLOSED", NEW x \in State, NEW p, p = stateEntered(t, x),
         NEW r, r = Stored(p)
  PROVE  /\ p \in Block /\ p.out = t.out /\ p.failed = t.failed
         /\ Becomes(t, x, r)
<1>1. Enters(t, x, p)
  BY stateEnteredEnters
<1>2. Lasts(t, p) /\ (x # "CLOSED" => Hushed(t, p))
  BY stateEnteredLasts
<1>3. p \in Block
  BY <1>1 DEF Enters
<1>4. /\ r.st = p.st /\ r.irs = p.irs /\ r.rcvd = p.rcvd /\ r.told = p.told
      /\ r.iss = p.iss /\ r.qEnd = p.qEnd /\ r.fin_ack_rcvd = p.fin_ack_rcvd
      /\ r.send_fin = p.send_fin /\ r.snd_fin_seq = p.snd_fin_seq
      /\ r.rcv_nxt = p.rcv_nxt /\ r.buf = p.buf /\ r.fin_rcvd = p.fin_rcvd
      /\ r.rcv_fin_seq = p.rcv_fin_seq /\ r.snd_una = p.snd_una
  BY <1>3, SMTT(40) DEF Stored, Block
<1>5. Closings(r) = Closings(p)
  BY <1>4 DEF Closings
<1>6. x # "CLOSED" => SameEars(t, r) /\ SameNotes(t, r)
  BY <1>2, <1>4, <1>5 DEF Hushed, Speaks, SameEars, SameNotes
<1>7. Becomes(t, x, r)
  BY <1>1, <1>2, <1>4, <1>5, <1>6 DEF Enters, Lasts, Becomes
<1> QED
  BY <1>2, <1>3, <1>7 DEF Lasts

LEMMA BecomesTakes ==
  ASSUME NEW s, NEW t, NEW x, NEW f, Hears(s, t, x, f), NEW r, Becomes(t, x, r)
  PROVE  Takes(r, f) /\ Heard(r) = Heard(t) /\ (Ended(r) <=> Ended(t))
<1>1. Heard(r) = Heard(t) /\ (Ended(r) <=> Ended(t))
  BY DEF Becomes, Heard, Ended
<1>2. Has(r, f)
  BY <1>1 DEF Hears, Becomes, Has
<1>3. CASE x # "CLOSED"
  <2>1. SameEars(t, r) /\ SameNotes(t, r) /\ r.st = x
    BY <1>3 DEF Becomes
  <2>2. Listens(t, f) => Listens(r, f)
    BY <1>1, <2>1 DEF SameEars, Listens
  <2>3. Fresh(t) => Fresh(r)
    BY <1>1, <2>1 DEF SameEars, Fresh
  <2>4. Acked(t, f) => Acked(r, f)
    BY <2>1 DEF SameNotes, Acked
  <2> QED
    BY <1>1, <1>2, <2>1, <2>2, <2>3, <2>4 DEF Hears, Takes
<1>4. CASE x = "CLOSED"
  <2>1. r.st = "CLOSED"
    BY <1>4 DEF Becomes
  <2> QED
    BY <1>1, <1>2, <2>1 DEF Takes, Live, Handshake, Early, Synchronized
<1> QED
  BY <1>3, <1>4

\* What s has done, o may count on.
LEMMA HearsPair ==
  ASSUME Fits, NEW s \in Block, NEW t, NEW x \in State, NEW f \in Far, Hears(s, t, x, f),
         NEW r \in Block, Becomes(t, x, r), Sound(s), Sound(r), NEW i \in SeqNo, NEW o \in Block,
         NEW g \in Far, NEW old, old \subseteq TCPSegment, NEW ok, Pair(o, s, old, TRUE, f.iss, i, g),
         s.st \in Live => s.iss = i, x \in Live => r.iss = i,
         NEW new, new \subseteq TCPSegment, new \subseteq old \cup t.out, ok => t.failed = "no",
         \A seg \in new : EndsStream(seg, r)
  PROVE  Linked(o, r, new, ok, f.iss, i)
<1>1. g.n \in 1 .. SeqMod \div 2 - 2 /\ g.closed \in BOOLEAN /\ g.iss = i
      /\ g.heard = Heard(s) /\ g.ended = Ended(s) /\ Offers(s, i, g.n, g.closed) /\ Takes(o, g)
      /\ \A seg \in old : Comes(seg, f.iss, g)
  BY FarType DEF Pair
<1>2. t \in Block /\ t.st = s.st /\ s.st # "CLOSED" /\ Has(t, f)
  BY DEF Hears
<1>3. Takes(r, f) /\ Heard(r) = Heard(t) /\ (Ended(r) <=> Ended(t))
  BY BecomesTakes
<1>4. /\ r.st = x /\ r.iss = t.iss /\ r.qEnd = t.qEnd /\ r.send_fin = t.send_fin
      /\ r.snd_fin_seq = t.snd_fin_seq
  BY DEF Becomes
<1>5. s.st \in Live => s.iss = i /\ r.iss = i /\ Order(s) /\ (s.send_fin => r.send_fin)
  BY <1>4 DEF Hears, Sound, InOrder
<1>6. s.st \in Synchronized => r.st \in Synchronized \cup {"CLOSED"}
  BY <1>4 DEF Hears
<1>7. r.send_fin => r.snd_fin_seq = r.qEnd
  BY DEF Sound
<1>8. s.st \in Live /\ r.st \in Synchronized \cup {"CLOSED"} => Extends(s, r)
  BY <1>4 DEF Hears, Extends
<1>9. PICK m \in 1 .. SeqMod \div 2 - 2, d \in BOOLEAN :
        /\ Offers(r, i, m, d) /\ g.n <= m /\ (g.closed => d /\ m = g.n)
        /\ s.st \in Live /\ r.st \in Synchronized \cup {"CLOSED"}
             => r.qEnd = Plus(i, m) /\ (r.send_fin => d)
  BY <1>1, <1>2, <1>5, <1>6, <1>7, <1>8, OffersOn
<1>10. PICK h : h = [iss |-> i, n |-> m, closed |-> d, heard |-> Heard(r), ended |-> Ended(r)]
  OBVIOUS
<1>11. h \in Far
  <2>1. Heard(r) \in 1 .. SeqMod \div 2 - 1
    BY <1>2, <1>3, HeardType
  <2>2. Ended(r) \in BOOLEAN
    BY DEF Ended
  <2> QED
    BY <1>9, <1>10, <2>1, <2>2 DEF Far
<1>12. h.iss = i /\ h.n = m /\ h.closed = d /\ h.heard = Heard(r) /\ h.ended = Ended(r)
  BY <1>10
<1>13. More(g, h)
  <2>1. Heard(s) <= Heard(r) /\ (Ended(s) => Ended(r))
    BY <1>3 DEF Hears
  <2> QED
    BY <1>1, <1>9, <1>12, <2>1 DEF More
<1>14. Takes(o, h)
  BY <1>1, <1>11, <1>13, MoreHas
<1>15. ASSUME t.failed = "no", NEW seg \in new
       PROVE  Comes(seg, f.iss, h)
  <2>1. CASE seg \in old
    BY <1>1, <1>11, <1>13, <2>1, MoreComes
  <2>2. CASE seg \in t.out /\ seg.rst
    BY <2>2 DEF Comes
  <2>3. CASE seg \in t.out /\ ~ seg.rst
    <3>1. Truthful(t, seg, f)
      BY <1>15, <2>3 DEF Hears, Faithful
    <3>2. s.st \in Live \/ x \in Live
      BY <2>3 DEF Hears
    <3>3. t.iss = i
      BY <1>4, <1>5, <3>2
    <3>4. seg.len > 0 \/ seg.fin => s.st \in Live /\ r.st \in Synchronized \cup {"CLOSED"}
      <4>1. x \in Early => ~ r.send_fin
        BY <1>4 DEF Early, Sound, OnlySyn, Handshake
      <4>2. x \in Early => ~ seg.fin
        BY <1>15, <4>1 DEF EndsStream
      <4>3. x \in Early => ~ (seg.len > 0)
        BY <1>15, <2>3 DEF Hears
      <4>4. x \in Early \/ x \in Synchronized \cup {"CLOSED"}
        BY DEF Early, Synchronized, State
      <4>5. x = "CLOSED" => x \notin Live
        BY DEF Live, Handshake, Synchronized
      <4> QED
        BY <1>4, <3>2, <4>2, <4>3, <4>4, <4>5 DEF Hears
    <3>5. seg.len > 0 \/ seg.fin => t.qEnd = Plus(h.iss, h.n)
      BY <1>4, <1>9, <1>12, <3>4
    <3>6. seg.fin => h.closed /\ Plus(seg.seq, seg.len) = t.qEnd
      BY <1>4, <1>7, <1>9, <1>12, <1>15, <3>4 DEF EndsStream
    <3> QED
      BY <1>2, <1>3, <1>11, <1>12, <1>15, <3>1, <3>3, <3>5, <3>6, TruthComes
  <2> QED
    BY <1>15, <2>1, <2>2, <2>3
<1> QED
  BY <1>9, <1>11, <1>12, <1>14, <1>15 DEF Linked, Pair

LEMMA FinalLive ==
  ASSUME NEW s \in Block, Sound(s), Order(s), NEW i \in SeqNo, s.iss = i, NEW o \in Block,
         NEW f \in Far, f.heard = Heard(o), f.ended = Ended(o), NEW g \in Far,
         Has(o, g), Offers(s, i, g.n, g.closed)
  PROVE  Final(s, f)
<1> SUFFICES ASSUME NEW k \in 1 .. f.heard, s.send_fin, Plus(s.iss, k) = Plus(s.snd_fin_seq, 1),
                    ~ f.ended
             PROVE  FALSE
  BY FarType DEF Final
<1>1. PICK l \in Nat : s.qEnd = Plus(i, l) /\ 1 <= l /\ l + 1 < SeqMod \div 2
  BY DEF Order, Offsets
<1>2. /\ SeqMod \div 2 \in Nat /\ l \in 0 .. SeqMod \div 2 - 1 /\ l + 1 \in 0 .. SeqMod \div 2 - 1
      /\ l \in 0 .. SeqMod /\ 1 \in 0 .. SeqMod
      /\ g.n \in 0 .. SeqMod \div 2 - 1 /\ k \in 0 .. SeqMod \div 2 - 1 /\ k \in Nat
  BY <1>1, FarType, Windows
<1>3. Plus(i, k) = Plus(i, l + 1)
  <2>1. Plus(Plus(i, l), 1) = Plus(i, l + 1)
    BY <1>2, PlusPlus
  <2> QED
    BY <1>1, <2>1 DEF Sound
<1>4. k = l + 1
  <2>1. PICK y : y = l + 1
    OBVIOUS
  <2>2. PICK a : a = Plus(i, k)
    OBVIOUS
  <2>3. y \in 0 .. SeqMod \div 2 - 1 /\ a = Plus(i, y)
    BY <1>2, <1>3, <2>1, <2>2
  <2>4. k = y
    BY <1>2, <2>2, <2>3, SamePlace
  <2> QED
    BY <2>1, <2>4
<1>5. k <= g.n
  <2>1. f.heard <= g.n
    <3>1. ~ Ended(o)
      OBVIOUS
    <3>2. f.heard = o.rcvd + 1
      BY <3>1 DEF Heard
    <3> QED
      BY <3>2 DEF Has
  <2> QED
    BY <1>2, <2>1, FarType
<1>6. g.n > 1
  BY <1>1, <1>4, <1>5, <1>2
<1>7. s.qEnd = Plus(i, g.n)
  BY <1>6 DEF Offers
<1>8. g.n = l
  BY <1>1, <1>2, <1>7, SamePlace, Zenon
<1> QED
  BY <1>2, <1>4, <1>5, <1>8

LEMMA LinkReady ==
  ASSUME NEW N \in [End -> SeqNo], Fits, IInv, Once(N), Link(N), aborted = "no", NEW e \in End
  PROVE  \E f \in Far :
           /\ Pair(conn[e], conn[Peer(e)], net[e], TRUE, N[e], N[Peer(e)], f)
           /\ Ready(conn[e], f)
<1>1. PICK p \in End : p = Peer(e) /\ Peer(p) = e
  BY Peers
<1>2. PICK s : s = conn[e]
  OBVIOUS
<1>3. PICK o : o = conn[p]
  OBVIOUS
<1>4. AtRest(s) /\ Sound(s) /\ s \in Block /\ o \in Block
  BY <1>2, <1>3, Rest
<1>5. PICK f \in Far : Pair(s, o, net[e], aborted = "no", N[e], N[p], f)
  BY <1>1, <1>2, <1>3 DEF Link, Linked
<1>6. PICK g \in Far : Pair(o, s, net[p], aborted = "no", N[p], N[e], g)
  BY <1>1, <1>2, <1>3 DEF Link, Linked
<1>7. Pair(s, o, net[e], TRUE, N[e], N[p], f)
  BY <1>5 DEF Pair
<1>8. s.st \in Live => Order(s) /\ s.iss = N[e]
  BY <1>2, <1>4 DEF Sound, InOrder, Once
<1>9. s.st \in Live => Final(s, f)
  <2> SUFFICES ASSUME s.st \in Live
               PROVE  Final(s, f)
    OBVIOUS
  <2>1. f.heard = Heard(o) /\ f.ended = Ended(o) /\ Takes(o, g) /\ Offers(s, N[e], g.n, g.closed)
    BY <1>5, <1>6 DEF Pair
  <2>2. Has(o, g)
    BY <2>1 DEF Takes
  <2>3. N[e] \in SeqNo
    OBVIOUS
  <2> QED
    BY <1>4, <1>8, <2>1, <2>2, <2>3, FinalLive
<1>10. Ready(s, f)
  BY <1>4, <1>5, <1>8, <1>9 DEF Ready, Pair
<1> QED
  BY <1>1, <1>2, <1>3, <1>7, <1>10

LEMMA FinishIs ==
  ASSUME IInv, NEW e \in End, NEW t \in Block, t.st # "CLOSED", NEW rest, rest \subseteq net[e],
         Finish(e, t, rest)
  PROVE  /\ Becomes(t, nextState(t), conn'[e]) /\ conn'[Peer(e)] = conn[Peer(e)]
         /\ net'[e] \subseteq net[e] /\ net'[Peer(e)] \subseteq net[Peer(e)] \cup t.out
         /\ aborted = "no" /\ aborted' = t.failed
<1>1. PICK x \in State : x = nextState(t)
  BY nextStateType
<1>2. PICK p : p = stateEntered(t, x)
  OBVIOUS
<1>3. PICK r : r = Stored(p)
  OBVIOUS
<1>4. p \in Block /\ p.out = t.out /\ p.failed = t.failed /\ Becomes(t, x, r)
  BY <1>2, <1>3, EntersBecomes
<1>5. /\ aborted = "no" /\ aborted' = p.failed /\ conn' = [conn EXCEPT ![e] = r]
      /\ Send(e, p.out, rest)
  BY <1>1, <1>2, <1>3 DEF Finish, Stored
<1>6. TypeInv /\ p.out \subseteq TCPSegment
  BY <1>4 DEF IInv, Block
<1>7. net'[e] \subseteq net[e] /\ net'[Peer(e)] \subseteq net[Peer(e)] \cup p.out
  BY <1>5, <1>6, SendNet
<1>8. conn'[e] = r /\ conn'[Peer(e)] = conn[Peer(e)]
  <2>1. Peer(e) \in End /\ Peer(e) # e
    BY Peers
  <2> QED
    BY <1>5, <1>6, <2>1 DEF TypeInv
<1> QED
  BY <1>1, <1>4, <1>5, <1>7, <1>8

LEMMA FinishLink ==
  ASSUME NEW N \in [End -> SeqNo], Fits, IInv, IInv', Once(N), Once(N)', Link(N),
         NEW e \in End, NEW t, NEW rest, rest \subseteq net[e], Finish(e, t, rest),
         NEW f \in Far, Pair(conn[e], conn[Peer(e)], net[e], TRUE, N[e], N[Peer(e)], f),
         Hears(conn[e], t, nextState(t), f)
  PROVE  Link(N)'
<1>1. PICK q \in End : q = Peer(e) /\ Peer(q) = e /\ q # e /\ \A g \in End : g = e \/ g = q
  BY Peers
<1>2. t \in Block /\ t.st # "CLOSED"
  BY DEF Hears
<1>3. PICK x \in State : x = nextState(t)
  BY <1>2, nextStateType
<1>4. PICK r : r = conn'[e]
  OBVIOUS
<1>5. /\ Becomes(t, x, r) /\ conn'[q] = conn[q]
      /\ net'[e] \subseteq net[e] /\ net'[q] \subseteq net[q] \cup t.out
      /\ aborted = "no" /\ aborted' = t.failed
  BY <1>1, <1>2, <1>3, <1>4, FinishIs
<1>6. PICK s : s = conn[e]
  OBVIOUS
<1>7. PICK o : o = conn[q]
  OBVIOUS
<1>8. s \in Block /\ Sound(s) /\ o \in Block
  BY <1>6, <1>7, Rest
<1>9. r \in Block /\ Sound(r) /\ \A seg \in net'[q] : EndsStream(seg, r)
  <2>1. r \in ConnectionBlock /\ r.ssthresh > 0
    BY <1>4 DEF IInv, TypeInv
  <2>2. r \in Block
    BY <2>1, Started DEF AtRest
  <2>3. Sound(r)
    BY <1>4 DEF IInv, Sound, Timed, OnlySyn, InOrder, Order, Offsets
  <2>4. \A seg \in net'[q] : EndsStream(seg, r)
    BY <1>1, <1>4 DEF IInv, FinsInNet, EndsStream
  <2> QED
    BY <2>2, <2>3, <2>4
<1>10. Pair(conn'[e], conn'[q], net'[e], aborted' = "no", N[e], N[q], f)
  <2>1. Takes(r, f)
    BY <1>3, <1>5, <1>6, BecomesTakes
  <2> QED
    BY <1>1, <1>4, <1>5, <2>1 DEF Pair
<1>11. Linked(conn'[q], conn'[e], net'[q], aborted' = "no", N[q], N[e])
  <2>1. PICK g \in Far : Pair(o, s, net[q], TRUE, N[q], N[e], g)
    BY <1>1, <1>5, <1>6, <1>7 DEF Link, Linked, Pair
  <2>2. f.iss = N[q]
    BY <1>1 DEF Pair
  <2>3. (s.st \in Live => s.iss = N[e]) /\ (x \in Live => r.iss = N[e])
    BY <1>4, <1>5, <1>6 DEF Once, Becomes
  <2>4. net[q] \subseteq TCPSegment /\ net'[q] \subseteq TCPSegment /\ N[e] \in SeqNo
    BY DEF IInv, TypeInv
  <2>5. Hears(s, t, x, f)
    BY <1>3, <1>6
  <2>6. Pair(o, s, net[q], TRUE, f.iss, N[e], g)
    BY <2>1, <2>2
  <2>7. Linked(o, r, net'[q], aborted' = "no", f.iss, N[e])
    <3>1. PICK new : new = net'[q]
      OBVIOUS
    <3>2. PICK ok \in BOOLEAN : ok = (aborted' = "no")
      OBVIOUS
    <3>3. PICK i \in SeqNo : i = N[e]
      BY <2>4
    <3>4. PICK old : old = net[q]
      OBVIOUS
    <3>5. new \subseteq TCPSegment /\ new \subseteq old \cup t.out /\ old \subseteq TCPSegment
      BY <1>5, <2>4, <3>1, <3>4
    <3>6. (ok => t.failed = "no") /\ \A seg \in new : EndsStream(seg, r)
      BY <1>5, <1>9, <3>1, <3>2
    <3>7. Pair(o, s, old, TRUE, f.iss, i, g) /\ (s.st \in Live => s.iss = i)
          /\ (x \in Live => r.iss = i)
      BY <2>3, <2>6, <3>3, <3>4
    <3>8. Linked(o, r, new, ok, f.iss, i)
      <4>1. x \in State /\ i \in SeqNo /\ g \in Far
        BY <1>3, <2>1, <3>3
      <4>2. s \in Block /\ o \in Block /\ r \in Block /\ Sound(s) /\ Sound(r)
        BY <1>8, <1>9
      <4>3. Becomes(t, x, r)
        BY <1>5
      <4> QED
        BY <2>5, <3>5, <3>6, <3>7, <4>1, <4>2, <4>3, HearsPair, ZenonT(40)
    <3> QED
      BY <3>1, <3>2, <3>3, <3>8
  <2> QED
    BY <1>4, <1>5, <1>7, <2>2, <2>7
<1>12. \A c \in End : Linked(conn'[c], conn'[Peer(c)], net'[c], aborted' = "no", N[c], N[Peer(c)])
  <2>1. Linked(conn'[e], conn'[q], net'[e], aborted' = "no", N[e], N[q])
    BY <1>10 DEF Linked
  <2> QED
    BY <1>1, <1>11, <2>1
<1> QED
  BY <1>12 DEF Link, Linked, Pair, Offers, Takes, Has, Listens, Fresh, Acked, Heard, Ended, Closings

\* A handler that says something and receives nothing.
LEMMA SpeaksHears ==
  ASSUME NEW s, NEW f \in Far, Ready(s, f), NEW t \in Block, t.st = s.st, s.st # "CLOSED", NEW x,
         Speaks(s, t),
         s.st \in Synchronized => x \in Synchronized \cup {"CLOSED"},
         s.st \in Early => Hushed(s, t) /\ (x \in {s.st, "CLOSED"}
                                            \/ (x = "LISTEN" /\ s.st \in {"INIT", "SYN_RCVD"})),
         s.st \in {"INIT", "LISTEN"} => \A seg \in t.out : seg.rst,
         s.st = "SYN_SENT" => \A seg \in t.out : seg.rst \/ ~ seg.ack
  PROVE  Hears(s, t, x, f)
<1>1. s \in Block /\ s.out = {} /\ s.failed = "no" /\ Takes(s, f)
  BY DEF Ready, AtRest
<1>2. s.st \in Synchronized \cup Early
  BY <1>1 DEF Block, State, Synchronized, Early
<1>3. /\ Has(s, f) => Has(t, f)
      /\ Listens(s, f) => Listens(t, f)
      /\ Fresh(s) => Fresh(t)
      /\ Acked(s, f) => Acked(t, f)
      /\ Heard(t) = Heard(s) /\ (Ended(s) <=> Ended(t))
  BY SpeaksHas
<1>4. x \in Synchronized \cup {"SYN_RCVD"} => s.st \in Synchronized \cup {"SYN_RCVD"}
  BY <1>2 DEF Early, Synchronized
<1>5. x \in Early => s.st \in Early
  BY <1>2 DEF Early, Synchronized
<1>6. x \in Live => s.st \in Live
  BY <1>2 DEF Early, Synchronized, Live, Handshake
<1>7. Heard(s) <= Heard(t)
  BY <1>1, <1>3 DEF Heard, Block
<1>8. Faithful(t, f)
  <2>1. CASE s.st \in Synchronized \cup {"SYN_RCVD"}
    <3>1. Faithful(s, f)
      BY <1>1 DEF Faithful
    <3> QED
      BY <1>1, <2>1, <3>1, SpeaksFaithful DEF Takes
  <2>2. CASE s.st \in {"INIT", "LISTEN", "SYN_SENT"}
    <3>1. ASSUME t.failed = "no", NEW seg \in t.out
          PROVE  Truthful(t, seg, f)
      <4>1. Said(s, seg)
        BY <1>1, <3>1 DEF Speaks
      <4>2. seg.len = 0 /\ seg \in TCPSegment
        BY <1>1, <2>2, <3>1 DEF Early, Hushed, Block
      <4>3. ~ (seg.len > 0)
        BY <4>2
      <4>4. seg.rst \/ ~ seg.ack
        BY <2>2, <3>1
      <4>5. t.iss = s.iss
        BY DEF Speaks, SameNotes
      <4> QED
        BY <4>1, <4>3, <4>4, <4>5 DEF Said, Truthful
    <3> QED
      BY <3>1 DEF Faithful
  <2> QED
    BY <1>2, <2>1, <2>2 DEF Early
<1>9. x \in Early => \A seg \in t.out : seg.len = 0
  BY <1>1, <1>5 DEF Hushed
<1>10. t.iss = s.iss /\ t.send_fin = s.send_fin /\ t.qEnd = s.qEnd
  BY DEF Speaks, SameNotes
<1>11. s.st \notin Live => s.st \in {"INIT", "LISTEN"}
  BY <1>2 DEF Early, Live, Handshake
<1>12. x \in Synchronized => s.st \in Live
  BY <1>6 DEF Live
<1>13. Extends(s, t)
  BY <1>10 DEF Extends
<1>14. /\ x \in Synchronized \cup {"SYN_RCVD"} => Listens(t, f)
       /\ x \in Early => Fresh(t)
       /\ x \in Live => Acked(t, f)
       /\ Has(t, f)
  BY <1>1, <1>3, <1>4, <1>5, <1>6 DEF Takes
<1> QED
  BY <1>3, <1>7, <1>8, <1>9, <1>10, <1>11, <1>12, <1>13, <1>14 DEF Hears

\* A segment for an established connection.
LEMMA WholeHears ==
  ASSUME NEW s, NEW f \in Far, Ready(s, f), NEW t \in Block, t.st = s.st,
         s.st \in Synchronized \cup {"SYN_RCVD"}, Whole(t, f), Grows(s, t),
         s.send_fin => t.send_fin, NEW x, s.st \in Synchronized => x \in Synchronized \cup {"CLOSED"},
         s.st = "SYN_RCVD" =>
           \/ x \in Synchronized
           \/ Hushed(s, t) /\ x \in {"SYN_RCVD", "LISTEN", "CLOSED"}
  PROVE  Hears(s, t, x, f)
<1>1. CASE s.st = "SYN_RCVD" /\ x \notin Synchronized
  <2>1. Hushed(s, t) /\ x \in {"SYN_RCVD", "LISTEN", "CLOSED"}
    BY <1>1
  <2> QED
    BY <1>1, <2>1, SpeaksHears DEF Hushed, Early, Synchronized
<1>2. CASE ~ (s.st = "SYN_RCVD" /\ x \notin Synchronized)
  <2>1. x \in Synchronized \cup {"CLOSED"}
    BY <1>2
  <2>2. x \notin Early
    BY <2>1 DEF Early, Synchronized
  <2>3. s.st \in Live /\ s.st # "CLOSED"
    BY DEF Live, Handshake, Synchronized
  <2>4. Extends(s, t) /\ t.iss = s.iss /\ Heard(s) <= Heard(t) /\ (Ended(s) => Ended(t))
    BY DEF Grows, Extends
  <2> QED
    BY <2>1, <2>2, <2>3, <2>4 DEF Whole, Hears
<1> QED
  BY <1>1, <1>2

\* A quiet handler.
LEMMA MuteHears ==
  ASSUME NEW s, NEW f \in Far, Ready(s, f), NEW t \in Block, t.st = s.st, s.st # "CLOSED", NEW x,
         Hushed(s, t), t.out = {},
         s.st \in Synchronized => x \in Synchronized \cup {"CLOSED"},
         s.st \in Early => x \in {s.st, "CLOSED"} \/ (x = "LISTEN" /\ s.st \in {"INIT", "SYN_RCVD"})
  PROVE  Hears(s, t, x, f)
BY SpeaksHears DEF Hushed

-----------------------------------------------------------------------------
(* Every action keeps what is between the hosts. *)

\* A command or a timer.
LEMMA CommandLink ==
  ASSUME NEW N \in [End -> SeqNo], Fits, Going(N), NEW e \in End, NEW t, Finish(e, t, net[e]),
         \A f \in Far : Ready(conn[e], f) => Hears(conn[e], t, nextState(t), f)
  PROVE  Link(N)'
<1>1. aborted = "no"
  BY DEF Finish
<1>2. IInv /\ Once(N) /\ Link(N)
  BY DEF Going
<1>3. PICK f \in Far : /\ Pair(conn[e], conn[Peer(e)], net[e], TRUE, N[e], N[Peer(e)], f)
                       /\ Ready(conn[e], f)
  BY <1>1, <1>2, LinkReady
<1>4. Hears(conn[e], t, nextState(t), f)
  BY <1>3
<1>5. net[e] \subseteq net[e]
  OBVIOUS
<1> QED
  BY <1>3, <1>4, <1>5, FinishLink DEF Going

\* The block e has, and the timer that expired.
LEMMA FiredHushed ==
  ASSUME IInv, NEW e \in End, NEW n
  PROVE  Hushed(conn[e], Fired(e, n)) /\ Fired(e, n) \in Block /\ Fired(e, n).st = conn[e].st
         /\ Fired(e, n).out = {}
<1>1. PICK s : s = conn[e]
  OBVIOUS
<1>2. s \in Block /\ s.out = {}
  BY <1>1, Rest DEF AtRest
<1>3. PICK t : t = cancelEvent(s, {n})
  OBVIOUS
<1>4. Cancels(s, {n}, t) /\ Mute(s, t)
  BY <1>2, <1>3, cancelEventCancels, cancelEventMute
<1>5. t \in Block /\ t.st = s.st /\ t.out = {} /\ Hushed(s, t)
  BY <1>2, <1>4, MuteHushed DEF Cancels
<1> QED
  BY <1>1, <1>3, <1>5 DEF Fired

LEMMA OpenPassiveLink ==
  ASSUME NEW N \in [End -> SeqNo], Fits, Going(N), NEW e \in End, OpenPassive(e)
  PROVE  Link(N)'
<1>1. PICK s : s = conn[e]
  OBVIOUS
<1>2. s.st \in {"INIT", "LISTEN"} /\ s \in Block /\ s.out = {}
  BY <1>1, Rest DEF OpenPassive, Going, AtRest
<1>3. PICK a : a = [s EXCEPT !.active = FALSE]
  OBVIOUS
<1>4. PICK b : b = [a EXCEPT !.remote = FALSE]
  OBVIOUS
<1>5. /\ a \in Block /\ a.st = s.st /\ a.out = s.out
      /\ b \in Block /\ b.st = s.st /\ b.out = s.out
  <2>1. a \in Block /\ a.st = s.st /\ a.out = s.out
    <3>1. a \in Block
      BY <1>2, <1>3, ZenonT(60) DEF Block
    <3> QED
      BY <1>2, <1>3, <3>1 DEF Block
  <2>2. b \in Block /\ b.st = a.st /\ b.out = a.out
    <3>1. b \in Block
      BY <1>4, <2>1, ZenonT(60) DEF Block
    <3> QED
      BY <1>4, <2>1, <3>1 DEF Block
  <2> QED
    BY <2>1, <2>2
<1>6. Hushed(s, b)
  <2>1. Mute(s, a) /\ Mute(a, b)
    BY <1>2, <1>3, <1>4, <1>5, AdjustedMute
  <2> QED
    BY <2>1, MuteHushed, HushedTransitive
<1>7. PICK t : t = Event(b, "OPEN_PASSIVE")
  OBVIOUS
<1>8. Hushed(s, t) /\ t \in Block /\ t.st = s.st /\ t.out = {}
  <2>1. Mute(b, t) /\ t \in Block
    BY <1>5, <1>7, EventMute DEF EventName
  <2>2. t.st = b.st
    BY <1>5, <1>7, Row
  <2> QED
    BY <1>2, <1>5, <1>6, <2>1, <2>2, MuteHushed, HushedTransitive DEF Mute
<1>9. nextState(t) = "LISTEN"
  BY <1>2, <1>5, <1>7, Row
<1>10. Finish(e, t, net[e])
  <2>1. b = [s EXCEPT !.active = FALSE, !.remote = FALSE]
    BY <1>2, <1>3, <1>4 DEF Block
  <2> QED
    BY <1>1, <1>7, <2>1 DEF OpenPassive
<1>11. ASSUME NEW f \in Far, Ready(s, f)
       PROVE  Hears(s, t, nextState(t), f)
  BY <1>2, <1>8, <1>9, <1>11, MuteHears DEF Synchronized
<1> QED
  BY <1>1, <1>10, <1>11, CommandLink

LEMMA AbortCommandLink ==
  ASSUME NEW N \in [End -> SeqNo], Fits, Going(N), NEW e \in End, AbortCommand(e)
  PROVE  Link(N)'
<1>1. PICK s : s = conn[e]
  OBVIOUS
<1>2. s.st \notin {"INIT", "CLOSED"} /\ s \in Block /\ s.out = {}
  BY <1>1, Rest DEF AbortCommand, Going, AtRest
<1>3. PICK a : a = sendRst(s, s.snd_nxt)
  OBVIOUS
<1>4. Hushed(s, a) /\ Emits(s, a)
  BY <1>2, <1>3, NumbersIn, sendRstHushed, sendRstEmits
<1>5. PICK b : /\ b = s \/ (b = a /\ s.st \notin {"LISTEN", "SYN_SENT"})
               /\ Finish(e, Event(b, "ABORT"), net[e])
  BY <1>1, <1>3 DEF AbortCommand
<1>6. Hushed(s, b) /\ b \in Block /\ b.st = s.st
  BY <1>2, <1>4, <1>5, SpeaksItself DEF Emits, Sends
<1>7. PICK t : t = Event(b, "ABORT")
  OBVIOUS
<1>8. Mute(b, t) /\ t \in Block /\ t.st = b.st /\ t.ev = "ABORT"
  BY <1>6, <1>7, EventMute, EventKeeps DEF Keeps, EventName
<1>9. Hushed(s, t) /\ t.st = s.st /\ (s.st \in {"LISTEN", "SYN_SENT"} => t.out = {})
  BY <1>2, <1>5, <1>6, <1>8, MuteHushed, HushedTransitive DEF Mute
<1>10. nextState(t) = "CLOSED"
  BY <1>8, IgnoredNext
<1>11. ASSUME NEW f \in Far, Ready(s, f)
       PROVE  Hears(s, t, nextState(t), f)
  BY <1>2, <1>8, <1>9, <1>10, <1>11, SpeaksHears DEF Hushed
<1> QED
  BY <1>1, <1>5, <1>7, <1>11, CommandLink

LEMMA TimeoutConnEstabLink ==
  ASSUME NEW N \in [End -> SeqNo], Fits, Going(N), NEW e \in End, TimeoutConnEstab(e)
  PROVE  Link(N)'
<1>1. PICK s : s = conn[e]
  OBVIOUS
<1>2. AtRest(s) /\ Sound(s) /\ s \in Block /\ "CONN_ESTAB" \in s.timers /\ IInv
  BY <1>1, Rest DEF TimeoutConnEstab, Going
<1>3. s.st \in {"SYN_RCVD", "SYN_SENT"}
  BY <1>2 DEF Sound, Handshake
<1>4. PICK c : c = Fired(e, "CONN_ESTAB")
  OBVIOUS
<1>5. Hushed(s, c) /\ c \in Block /\ c.st = s.st /\ c.out = {}
  BY <1>1, <1>2, <1>4, FiredHushed
<1>6. PICK a : a = Tell(c, "TIMED_OUT")
  OBVIOUS
<1>7. Hushed(c, a) /\ a \in Block /\ a.st = c.st /\ a.out = {}
  <2>1. Hushed(c, a) /\ a \in Block /\ a.st = c.st
    BY <1>5, <1>6, TellHushed, TellKeeps DEF Keeps, Indication
  <2>2. a.out = c.out
    BY <1>5, <1>6 DEF Tell, Block
  <2> QED
    BY <1>5, <2>1, <2>2
<1>8. Require(s.st \in {"SYN_RCVD", "SYN_SENT"}, c, "internal error") = c
  BY <1>3 DEF Require
<1>9. PICK b \in {a, c} : Finish(e, Event(b, "CONN_ESTAB"), net[e])
  BY <1>1, <1>4, <1>6, <1>8 DEF TimeoutConnEstab
<1>10. Hushed(s, b) /\ b \in Block /\ b.st = s.st /\ b.out = {}
  BY <1>5, <1>7, <1>9, HushedTransitive
<1>11. PICK t : t = Event(b, "CONN_ESTAB")
  OBVIOUS
<1>12. Mute(b, t) /\ t \in Block /\ t.st = s.st /\ t.ev = "CONN_ESTAB"
  BY <1>10, <1>11, EventMute, EventKeeps DEF Keeps, EventName
<1>13. Hushed(s, t) /\ t.out = {}
  BY <1>10, <1>12, MuteHushed, HushedTransitive DEF Mute
<1>14. nextState(t) = "CLOSED" \/ (nextState(t) = "LISTEN" /\ s.st = "SYN_RCVD")
  <2>1. CASE s.st = "SYN_RCVD"
    <3>1. Resets(t)
      BY <1>12, <2>1 DEF Resets
    <3> QED
      BY <2>1, <3>1, nextStateResets
  <2>2. CASE s.st = "SYN_SENT"
    <3>1. ~ Resets(t)
      BY <1>12, <2>2 DEF Resets
    <3>2. <<"SYN_SENT", "CONN_ESTAB", "CLOSED">> \in Transition
      BY DEF Transition
    <3> QED
      BY <1>12, <2>2, <3>1, <3>2, nextStateIs, SMTT(60) DEF Transition
  <2> QED
    BY <1>3, <2>1, <2>2
<1>15. ASSUME NEW f \in Far, Ready(s, f)
       PROVE  Hears(s, t, nextState(t), f)
  BY <1>3, <1>12, <1>13, <1>14, <1>15, MuteHears DEF Synchronized
<1> QED
  BY <1>1, <1>9, <1>11, <1>15, CommandLink

LEMMA Timeout2MSLLink ==
  ASSUME NEW N \in [End -> SeqNo], Fits, Going(N), NEW e \in End, Timeout2MSL(e)
  PROVE  Link(N)'
<1>1. PICK s : s = conn[e]
  OBVIOUS
<1>2. AtRest(s) /\ Sound(s) /\ s \in Block /\ "2MSL" \in s.timers /\ IInv
  BY <1>1, Rest DEF Timeout2MSL, Going
<1>3. s.st \in Synchronized
  BY <1>2 DEF Sound, Synchronized
<1>4. PICK c : c = Fired(e, "2MSL")
  OBVIOUS
<1>5. Hushed(s, c) /\ c \in Block /\ c.st = s.st /\ c.out = {}
  BY <1>1, <1>2, <1>4, FiredHushed
<1>6. PICK a : a = Require(s.st = "TIME_WAIT", c, "internal error")
  OBVIOUS
<1>7. Mute(c, a) /\ a \in Block
  <2>1. "internal error" \in Failure /\ "internal error" # "no"
    BY DEF Failure
  <2> QED
    BY <1>5, <1>6, <2>1, RequireMute
<1>8. a.st = c.st
  BY <1>5, <1>6 DEF Require, Block
<1>9. PICK t : t = Event(Tell(a, "CLOSED"), "2MSL")
  OBVIOUS
<1>10. Hushed(a, t) /\ t \in Block /\ t.st = a.st
  <2>1. "CLOSED" \in Indication /\ "CLOSED" # "PEER_CLOSED" /\ "2MSL" \in EventName
    BY DEF Indication, EventName
  <2>2. Hushed(a, t)
    BY <1>7, <1>9, <2>1, TellEventHushed
  <2>3. Ignores(a, t)
    BY <1>7, <1>9, <2>1, TellEventIgnores
  <2> QED
    BY <2>2, <2>3 DEF Ignores, Keeps
<1>11. t.out = a.out
  <2>1. Tell(a, "CLOSED") \in Block /\ Tell(a, "CLOSED").out = a.out
    <3>1. "CLOSED" \in Indication
      BY DEF Indication
    <3>2. Keeps(a, Tell(a, "CLOSED"))
      BY <1>7, <3>1, TellKeeps
    <3> QED
      BY <1>7, <3>2 DEF Keeps, Tell, Block
  <2>2. Mute(Tell(a, "CLOSED"), t)
    BY <1>9, <2>1, EventMute DEF EventName
  <2> QED
    BY <2>1, <2>2 DEF Mute
<1>12. Hushed(s, t) /\ t.out = {} /\ t.st = s.st
  BY <1>5, <1>7, <1>8, <1>10, <1>11, MuteHushed, HushedTransitive DEF Mute
<1>13. nextState(t) \in Synchronized \cup {"CLOSED"}
  BY <1>3, <1>12, SynchronizedNext
<1>14. ASSUME NEW f \in Far, Ready(s, f)
       PROVE  Hears(s, t, nextState(t), f)
  BY <1>3, <1>10, <1>12, <1>13, <1>14, MuteHears DEF Synchronized, Early
<1>15. Finish(e, t, net[e])
  BY <1>1, <1>4, <1>6, <1>9 DEF Timeout2MSL
<1> QED
  BY <1>1, <1>14, <1>15, CommandLink

LEMMA TimeoutRexmitLink ==
  ASSUME NEW N \in [End -> SeqNo], Fits, Going(N), NEW e \in End, TimeoutRexmit(e)
  PROVE  Link(N)'
<1>1. PICK s : s = conn[e]
  OBVIOUS
<1>2. AtRest(s) /\ Sound(s) /\ s \in Block /\ "REXMIT" \in s.timers /\ IInv
  BY <1>1, Rest DEF TimeoutRexmit, Going
<1>3. s.st \in Synchronized
  BY <1>2 DEF Sound
<1>4. PICK c : c = Fired(e, "REXMIT")
  OBVIOUS
<1>5. Hushed(s, c) /\ c \in Block /\ c.st = s.st /\ c.out = {}
  BY <1>1, <1>2, <1>4, FiredHushed
<1>6. "REXMIT" \notin c.timers /\ SameNumbers(s, c)
  <2>1. Cancels(s, {"REXMIT"}, c)
    BY <1>1, <1>2, <1>4, FiredIs
  <2> QED
    BY <2>1 DEF Cancels, SameNumbers
<1>7. PICK t : t = processRexmitTimer(c)
  OBVIOUS
<1>8. t \in Block /\ t.st = s.st
  <2>1. Retransmits(c, t)
    BY <1>5, <1>6, <1>7, processRexmitTimerRetransmits
  <2> QED
    BY <1>5, <2>1 DEF Retransmits, Ignores, Keeps, Sends
<1>9. nextState(t) \in Synchronized \cup {"CLOSED"}
  BY <1>3, <1>8, SynchronizedNext
<1>10. ASSUME NEW f \in Far, Ready(s, f)
       PROVE  Hears(s, t, nextState(t), f)
  <2>1. Order(s)
    BY <1>3, <1>10 DEF Ready, Live
  <2>2. Order(c)
    BY <1>6, <2>1, SameOrder
  <2>3. Speaks(c, t)
    BY <1>5, <1>7, <2>2, processRexmitTimerSpeaks
  <2>4. Speaks(s, t)
    BY <1>5, <2>3, SpeaksTransitive DEF Hushed
  <2> QED
    BY <1>3, <1>8, <1>9, <1>10, <2>4, SpeaksHears DEF Synchronized, Early
<1>11. Finish(e, t, net[e])
  BY <1>4, <1>7 DEF TimeoutRexmit
<1> QED
  BY <1>1, <1>10, <1>11, CommandLink

\* A SYN has no acknowledgement.
LEMMA sendSynPlain ==
  ASSUME NEW s \in Block, NEW seg \in sendSyn(s).out
  PROVE  seg \in s.out \/ ~ seg.ack
<1>1. PICK n : n = Plus(s.iss, 1)
  OBVIOUS
<1>2. PICK a : a = [s EXCEPT !.snd_nxt = n, !.snd_max = n]
  OBVIOUS
<1>3. PICK g : g = [NoFlags EXCEPT !.syn = TRUE, !.seq = s.iss]
  OBVIOUS
<1>4. ~ g.ack
  BY <1>3 DEF NoFlags
<1>5. sendSyn(s) = [a EXCEPT !.out = @ \cup {g}]
  BY <1>1, <1>2, <1>3 DEF sendSyn, Emit
<1>6. sendSyn(s).out = s.out \cup {g}
  BY <1>2, <1>5 DEF Block
<1> QED
  BY <1>4, <1>6

LEMMA SynAgainHushed ==
  ASSUME NEW s \in Block
  PROVE  /\ Hushed(s, SynAgain(s))
         /\ s.st = "SYN_SENT" => \A seg \in SynAgain(s).out : seg \in s.out \/ ~ seg.ack
<1>1. PICK a : a = Event(s, "ABORT")
  OBVIOUS
<1>2. Mute(s, a)
  BY <1>1, EventMute DEF EventName
<1>3. PICK k : k = s.syn_rexmit_count + 1
  OBVIOUS
<1>4. PICK b : b = [s EXCEPT !.syn_rexmit_count = k]
  OBVIOUS
<1>5. b = [s EXCEPT !.syn_rexmit_count = @ + 1] /\ b.syn_rexmit_count = k
  BY <1>3, <1>4 DEF Block
<1>6. CASE k > MaxSynRexmit
  <2>1. SynAgain(s) = a
    BY <1>1, <1>5, <1>6 DEF SynAgain
  <2> QED
    BY <1>2, <2>1, MuteHushed DEF Mute
<1>7. CASE ~ k > MaxSynRexmit
  <2>1. k \in 0 .. MaxSynRexmit
    <3>1. s.syn_rexmit_count \in 0 .. MaxSynRexmit
      BY DEF Block
    <3> QED
      BY <1>3, <1>7, <3>1, ParamAssumption
  <2>2. b \in Block
    BY <1>4, <2>1, ZenonT(60) DEF Block
  <2>3. Mute(s, b) /\ b.st = s.st /\ b.out = s.out
    <3>1. Mute(s, b)
      BY <1>4, AdjustedMute
    <3> QED
      BY <1>4, <3>1 DEF Mute, Block
  <2>4. PICK c : c = IF s.st = "SYN_SENT" THEN sendSyn(b) ELSE sendSynAck(b)
    OBVIOUS
  <2>5. Hushed(b, c) /\ c \in Block
    BY <2>2, <2>4, sendSynHushed, sendSynIs DEF SynSent, Sends
  <2>6. PICK d : d = scheduleTimeout(c, "SYN_REXMIT")
    OBVIOUS
  <2>7. Mute(c, d)
    BY <2>5, <2>6, scheduleTimeoutMute DEF TimerName
  <2>8. Hushed(s, d)
    BY <2>3, <2>5, <2>7, MuteHushed, HushedTransitive
  <2>9. s.st = "SYN_SENT" => \A seg \in d.out : seg \in s.out \/ ~ seg.ack
    BY <2>2, <2>3, <2>4, <2>7, sendSynPlain DEF Mute
  <2>10. SynAgain(s) = d
    BY <1>5, <1>7, <2>4, <2>6 DEF SynAgain
  <2> QED
    BY <2>8, <2>9, <2>10
<1> QED
  BY <1>6, <1>7

LEMMA TimeoutSynRexmitLink ==
  ASSUME NEW N \in [End -> SeqNo], Fits, Going(N), NEW e \in End, TimeoutSynRexmit(e)
  PROVE  Link(N)'
<1>1. PICK s : s = conn[e]
  OBVIOUS
<1>2. AtRest(s) /\ Sound(s) /\ s \in Block /\ "SYN_REXMIT" \in s.timers /\ IInv
  BY <1>1, Rest DEF TimeoutSynRexmit, Going
<1>3. s.st \in {"SYN_RCVD", "SYN_SENT"}
  BY <1>2 DEF Sound, Handshake
<1>4. PICK c : c = Fired(e, "SYN_REXMIT")
  OBVIOUS
<1>5. Hushed(s, c) /\ c \in Block /\ c.st = s.st /\ c.out = {}
  BY <1>1, <1>2, <1>4, FiredHushed
<1>6. Require(s.st \in {"SYN_RCVD", "SYN_SENT"}, c, "internal error") = c
  BY <1>3 DEF Require
<1>7. PICK t : t = SynAgain(c)
  OBVIOUS
<1>8. Finish(e, t, net[e])
  BY <1>1, <1>4, <1>6, <1>7 DEF TimeoutSynRexmit, SynAgain
<1>9. "SYN_REXMIT" \notin c.timers /\ c.ev = "IGNORE"
  <2>1. Cancels(s, {"SYN_REXMIT"}, c)
    BY <1>1, <1>2, <1>4, FiredIs
  <2> QED
    BY <1>2, <2>1 DEF Cancels, AtRest
<1>10. t \in Block /\ t.st = s.st /\ t.ev \in {"ABORT", "IGNORE"}
  <2>1. (Ignores(c, t) /\ t.ev = "ABORT") \/ (Repeats(c, t) /\ t.ev = c.ev)
    BY <1>5, <1>7, <1>9, SynAgainRepeats
  <2> QED
    BY <1>5, <1>9, <2>1 DEF Ignores, Keeps, Repeats
<1>11. nextState(t) \in {s.st, "CLOSED"}
  BY <1>10, IgnoredNext
<1>12. Hushed(s, t) /\ (s.st = "SYN_SENT" => \A seg \in t.out : ~ seg.ack)
  BY <1>5, <1>7, SynAgainHushed, HushedTransitive
<1>13. ASSUME NEW f \in Far, Ready(s, f)
       PROVE  Hears(s, t, nextState(t), f)
  <2>1. Speaks(s, t)
    BY <1>12 DEF Hushed
  <2> QED
    BY <1>3, <1>10, <1>11, <1>12, <1>13, <2>1, SpeaksHears DEF Synchronized
<1> QED
  BY <1>1, <1>8, <1>13, CommandLink

LEMMA processCloseParts ==
  ASSUME NEW s \in Block
  PROVE  Parts(s, process_CLOSE(s))
<1>1. PICK q \in SeqNo : q = s.qEnd
  BY NumbersIn
<1>2. PICK m \in SeqNo : m = s.snd_max
  BY NumbersIn
<1>3. PICK k \in SeqNo : k = Plus(m, 1)
  BY PlusType
<1>4. PICK r \in SeqNo : r = s.rcv_nxt
  BY NumbersIn
<1>5. PICK a : a = [s EXCEPT !.send_fin = TRUE, !.snd_fin_seq = q]
  OBVIOUS
<1>6. a \in Block
  BY <1>5, ZenonT(60) DEF Block
<1>7. a.out = s.out /\ Parts(s, a)
  <2>1. a.out = s.out
    BY <1>5 DEF Block
  <2>2. /\ a.irs = s.irs /\ a.rcv_nxt = s.rcv_nxt /\ a.rcvd = s.rcvd /\ a.buf = s.buf
        /\ a.fin_rcvd = s.fin_rcvd /\ a.rcv_fin_seq = s.rcv_fin_seq /\ a.told = s.told
        /\ a.iss = s.iss /\ a.qEnd = s.qEnd /\ a.snd_una = s.snd_una
        /\ a.fin_ack_rcvd = s.fin_ack_rcvd /\ a.failed = s.failed
    BY <1>5 DEF Block
  <2> QED
    BY <2>1, <2>2 DEF Parts
<1>8. PICK b : b = Event(a, "CLOSE")
  OBVIOUS
<1>9. Parts(s, b)
  <2>1. Mute(a, b) /\ b.failed = a.failed
    <3>1. Mute(a, b)
      BY <1>6, <1>8, EventMute DEF EventName
    <3> QED
      BY <1>6, <1>8, <3>1 DEF Event, Block
  <2> QED
    BY <1>7, <2>1 DEF Mute, Parts
<1>10. PICK seg : seg = [NoFlags EXCEPT !.fin = TRUE, !.ack = TRUE, !.seq = m, !.ackNo = r]
  OBVIOUS
<1>11. seg \in TCPSegment /\ ~ seg.syn /\ seg.ackNo = r /\ seg.len = 0
  BY <1>10, Segments DEF NoFlags, TCPSegment
<1>12. PICK o : o = s.out \cup {seg}
  OBVIOUS
<1>13. PICK c : c = [a EXCEPT !.snd_nxt = k, !.snd_max = k, !.out = o]
  OBVIOUS
<1>14. c \in Block
  <2>1. o \in SUBSET TCPSegment
    BY <1>11, <1>12 DEF Block
  <2> QED
    BY <1>6, <1>13, <2>1, ZenonT(60) DEF Block
<1>15. Parts(s, c)
  <2>1. c.out = o
    BY <1>6, <1>13 DEF Block
  <2>2. /\ c.irs = a.irs /\ c.rcv_nxt = a.rcv_nxt /\ c.rcvd = a.rcvd /\ c.buf = a.buf
        /\ c.fin_rcvd = a.fin_rcvd /\ c.rcv_fin_seq = a.rcv_fin_seq /\ c.told = a.told
        /\ c.iss = a.iss /\ c.qEnd = a.qEnd /\ c.snd_una = a.snd_una
        /\ c.fin_ack_rcvd = a.fin_ack_rcvd /\ c.failed = a.failed
    BY <1>6, <1>13 DEF Block
  <2> QED
    BY <1>4, <1>7, <1>11, <1>12, <2>1, <2>2 DEF Parts
<1>16. PICK d : d = Event(c, "CLOSE")
  OBVIOUS
<1>17. Parts(s, d)
  <2>1. Mute(c, d) /\ d.failed = c.failed
    <3>1. Mute(c, d)
      BY <1>14, <1>16, EventMute DEF EventName
    <3> QED
      BY <1>14, <1>16, <3>1 DEF Event, Block
  <2> QED
    BY <1>15, <2>1 DEF Mute, Parts
<1>18. process_CLOSE(s) = CASE m = q -> d
                            [] m # q /\ s.st = "CLOSE_WAIT" -> a
                            [] OTHER -> b
  <2>1. [s EXCEPT !.send_fin = TRUE, !.snd_fin_seq = s.qEnd] = a
    BY <1>1, <1>5
  <2>2. [sendFin([a EXCEPT !.snd_nxt = s.snd_max]) EXCEPT !.snd_nxt = k, !.snd_max = k] = c
    <3>1. PICK x : x = [a EXCEPT !.snd_nxt = m]
      OBVIOUS
    <3>2. a.rcv_nxt = r /\ a.out = s.out
      BY <1>4, <1>7 DEF Parts
    <3>3. x.snd_nxt = m /\ x.rcv_nxt = r /\ x.out = s.out
      BY <1>6, <3>1, <3>2 DEF Block
    <3>4. sendFin(x) = [x EXCEPT !.out = o]
      BY <1>10, <1>12, <3>3 DEF sendFin, Emit
    <3>5. [[x EXCEPT !.out = o] EXCEPT !.snd_nxt = k, !.snd_max = k] = c
      BY <1>6, <1>13, <3>1 DEF Block
    <3> QED
      BY <1>2, <3>1, <3>4, <3>5
  <2> QED
    BY <1>1, <1>2, <1>3, <1>8, <1>16, <2>1, <2>2 DEF process_CLOSE
<1>19. process_CLOSE(s) \in {a, b, d}
  BY <1>18
<1> QED
  BY <1>7, <1>9, <1>17, <1>19

LEMMA ClosesHears ==
  ASSUME NEW s, NEW f \in Far, Ready(s, f), s.st \in Synchronized \cup {"SYN_RCVD"},
         NEW t \in Block, t.st = s.st, t.send_fin, Parts(s, t), NEW x \in Synchronized
  PROVE  Hears(s, t, x, f)
<1>1. s \in Block /\ s.out = {} /\ s.failed = "no" /\ Has(s, f) /\ Listens(s, f)
      /\ Acked(s, f)
  BY DEF Ready, AtRest, Takes, Live, Handshake
<1>2. Closings(t) = Closings(s)
  BY DEF Parts, Closings
<1>3. Heard(t) = Heard(s) /\ (Ended(t) <=> Ended(s))
  BY <1>2 DEF Parts, Heard, Ended
<1>4. Has(t, f) /\ Listens(t, f) /\ Acked(t, f)
  <2>1. Has(t, f)
    BY <1>1, <1>2, <1>3 DEF Parts, Has
  <2>2. Listens(t, f)
    BY <1>1, <1>3 DEF Parts, Listens
  <2> QED
    BY <1>1, <2>1, <2>2 DEF Parts, Acked
<1>5. Faithful(t, f)
  <2>1. ASSUME NEW seg \in t.out
        PROVE  Truthful(t, seg, f)
    <3>1. ~ seg.syn /\ seg.ackNo = Plus(f.iss, Heard(t)) /\ ~ (seg.len > 0)
      BY <1>1, <1>3, <2>1 DEF Parts, Listens
    <3>2. Heard(t) \in 1 .. Heard(t)
      BY <1>4, HeardType
    <3> QED
      BY <3>1, <3>2 DEF Truthful
  <2> QED
    BY <2>1 DEF Faithful
<1>6. s.st \in Live /\ s.st # "CLOSED" /\ x \notin Early
  BY DEF Live, Handshake, Synchronized, Early
<1>7. Extends(s, t) /\ t.iss = s.iss
  BY DEF Parts, Extends
<1>8. Heard(s) <= Heard(t)
  BY <1>3, <1>4, HeardType
<1> QED
  BY <1>3, <1>4, <1>5, <1>6, <1>7, <1>8 DEF Hears

LEMMA CloseCommandLink ==
  ASSUME NEW N \in [End -> SeqNo], Fits, Going(N), NEW e \in End, CloseCommand(e)
  PROVE  Link(N)'
<1>1. PICK s : s = conn[e]
  OBVIOUS
<1>2. AtRest(s) /\ Sound(s) /\ s \in Block /\ ~ s.send_fin /\ s.out = {} /\ s.ev = "IGNORE"
  BY <1>1, Rest DEF CloseCommand, Going, AtRest
<1>3. CASE s.st \in {"LISTEN", "SYN_SENT"} /\ Finish(e, Event(s, "CLOSE"), net[e])
  <2>1. PICK t : t = Event(s, "CLOSE")
    OBVIOUS
  <2>2. Mute(s, t) /\ t \in Block
    BY <1>2, <2>1, EventMute DEF EventName
  <2>3. t.st = s.st /\ nextState(t) = "CLOSED"
    BY <1>2, <1>3, <2>1, Row
  <2>4. ASSUME NEW f \in Far, Ready(s, f)
        PROVE  Hears(s, t, nextState(t), f)
    <3>1. Hushed(s, t) /\ t.out = {}
      BY <1>2, <2>2, MuteHushed DEF Mute
    <3> QED
      BY <1>3, <2>2, <2>3, <2>4, <3>1, MuteHears
  <2> QED
    BY <1>1, <1>3, <2>1, <2>4, CommandLink
<1>4. CASE s.st \in {"SYN_RCVD", "ESTABLISHED", "CLOSE_WAIT"} /\ Finish(e, process_CLOSE(s), net[e])
  <2>1. PICK t : t = process_CLOSE(s)
    OBVIOUS
  <2>2. t \in Block /\ t.st = s.st /\ t.send_fin
        /\ (t.ev = "CLOSE" \/ (t.ev = "IGNORE" /\ s.st = "CLOSE_WAIT"))
    BY <1>2, <2>1, processCloseEnds DEF Ends
  <2>3. Parts(s, t)
    BY <1>2, <2>1, processCloseParts
  <2>4. nextState(t) \in Synchronized
    <3>1. CASE t.ev = "IGNORE" /\ s.st = "CLOSE_WAIT"
      BY <2>2, <3>1, IgnoredNext DEF Synchronized
    <3>2. CASE t.ev = "CLOSE"
      <4>1. ~ Resets(t)
        BY <3>2 DEF Resets
      <4>2. /\ <<"SYN_RCVD", "CLOSE", "FIN_WAIT_1">> \in Transition
            /\ <<"ESTABLISHED", "CLOSE", "FIN_WAIT_1">> \in Transition
            /\ <<"CLOSE_WAIT", "CLOSE", "LAST_ACK">> \in Transition
        BY DEF Transition
      <4>3. nextState(t) \in {"FIN_WAIT_1", "LAST_ACK"}
        BY <1>4, <2>2, <3>2, <4>1, <4>2, nextStateIs, SMTT(60) DEF Transition
      <4> QED
        BY <4>3 DEF Synchronized
    <3> QED
      BY <2>2, <3>1, <3>2
  <2>5. s.st \in Synchronized \cup {"SYN_RCVD"}
    BY <1>4 DEF Synchronized
  <2>6. ASSUME NEW f \in Far, Ready(s, f)
        PROVE  Hears(s, t, nextState(t), f)
    BY <2>2, <2>3, <2>4, <2>5, <2>6, ClosesHears
  <2> QED
    BY <1>1, <1>4, <2>1, <2>6, CommandLink
<1> QED
  BY <1>1, <1>3, <1>4 DEF CloseCommand

LEMMA selectInitialSeqNumAnew ==
  ASSUME NEW s \in Block, NEW n \in SeqNo
  PROVE  Anew(s, n, selectInitialSeqNum(s, n))
<1>1. PICK m \in SeqNo : m = Plus(n, 1)
  BY PlusType
<1>2. PICK t : t = [s EXCEPT !.iss = n, !.snd_una = n, !.snd_nxt = n, !.snd_max = n,
                             !.qBegin = m, !.qEnd = m]
  OBVIOUS
<1>3. t = selectInitialSeqNum(s, n)
  BY <1>1, <1>2 DEF selectInitialSeqNum
<1>4. t \in Block /\ t.st = s.st /\ t.iss = n /\ t.snd_una = n /\ t.out = s.out
      /\ t.failed = s.failed
  BY <1>3, selectInitialSeqNumSelects DEF Selects
<1>5. /\ t.irs = s.irs /\ t.rcv_nxt = s.rcv_nxt /\ t.rcvd = s.rcvd /\ t.buf = s.buf
      /\ t.fin_rcvd = s.fin_rcvd /\ t.rcv_fin_seq = s.rcv_fin_seq /\ t.told = s.told
      /\ t.fin_ack_rcvd = s.fin_ack_rcvd
  BY <1>2 DEF Block
<1>6. SameEars(s, t)
  BY <1>5 DEF SameEars, Closings
<1> QED
  BY <1>3, <1>4, <1>5, <1>6 DEF Anew

LEMMA ActiveOpens ==
  ASSUME NEW s \in Block, s.out = {}, s.failed = "no", NEW n \in SeqNo, Active(s, n).failed = "no"
  PROVE  Opens(s, n, Active(s, n))
<1>1. PICK a : a = [s EXCEPT !.active = TRUE]
  OBVIOUS
<1>2. a \in Block
  BY <1>1, ZenonT(60) DEF Block
<1>3. Mute(s, a) /\ a.st = s.st /\ a.failed = s.failed
  <2>1. Mute(s, a)
    BY <1>1, AdjustedMute
  <2> QED
    BY <1>1, <2>1 DEF Block
<1>4. PICK b : b = selectInitialSeqNum(a, n)
  OBVIOUS
<1>5. Anew(a, n, b)
  BY <1>2, <1>4, selectInitialSeqNumAnew
<1>6. b \in Block
  BY <1>5 DEF Anew
<1>7. PICK c : c = sendSyn(b)
  OBVIOUS
<1>8. Hushed(b, c) /\ c \in Block /\ \A seg \in c.out : seg \in b.out \/ ~ seg.ack
  BY <1>6, <1>7, sendSynHushed, sendSynIs, sendSynPlain DEF SynSent, Sends
<1>9. PICK d : d = startSynRexmitTimer(c)
  OBVIOUS
<1>10. Mute(c, d) /\ d \in Block
  BY <1>8, <1>9, startSynRexmitTimerMute
<1>11. PICK t : t = scheduleTimeout(d, "CONN_ESTAB")
  OBVIOUS
<1>12. Mute(d, t)
  BY <1>10, <1>11, scheduleTimeoutMute DEF TimerName
<1>13. t = Active(s, n)
  BY <1>1, <1>4, <1>7, <1>9, <1>11 DEF Active
<1>14. Hushed(b, t) /\ t.out = c.out
  BY <1>8, <1>10, <1>12, MuteHushed, HushedTransitive DEF Mute
<1>15. t \in Block /\ t.st = s.st
  <2>1. Begins(s, n, t)
    BY <1>13, ActiveBegins
  <2> QED
    BY <2>1 DEF Begins
<1>16. b.out = {} /\ b.iss = n /\ b.snd_una = n
  BY <1>3, <1>5 DEF Anew, Mute
<1>17. SameEars(b, t) /\ SameNotes(b, t)
  BY <1>14 DEF Hushed, Speaks
<1>18. SameEars(s, t) /\ t.fin_ack_rcvd = s.fin_ack_rcvd
  <2>1. SameEars(s, a) /\ a.fin_ack_rcvd = s.fin_ack_rcvd
    BY <1>3 DEF Mute, SameEars, Closings
  <2>2. SameEars(a, b) /\ b.fin_ack_rcvd = a.fin_ack_rcvd
    BY <1>5 DEF Anew
  <2> QED
    BY <1>17, <2>1, <2>2 DEF SameEars, SameNotes
<1>19. \A seg \in t.out : /\ seg.len = 0 /\ ~ seg.ack
                          /\ ~ seg.rst /\ seg.syn => seg.seq = n
  BY <1>8, <1>13, <1>14, <1>16 DEF Hushed, Speaks, Said
<1> QED
  BY <1>13, <1>15, <1>16, <1>17, <1>18, <1>19 DEF Opens, SameNotes

\* What a handler sets that says nothing.
LEMMA OpensThen ==
  ASSUME NEW s, NEW n, NEW t, Opens(s, n, t), NEW u \in Block, u.st = t.st,
         u.told = t.told, u.irs = t.irs, u.rcv_nxt = t.rcv_nxt, u.rcvd = t.rcvd, u.buf = t.buf,
         u.fin_rcvd = t.fin_rcvd, u.rcv_fin_seq = t.rcv_fin_seq,
         u.fin_ack_rcvd = t.fin_ack_rcvd, u.iss = t.iss, u.snd_una = t.snd_una, u.out = t.out
  PROVE  Opens(s, n, u)
<1>1. SameEars(t, u)
  BY DEF SameEars, Closings
<1> QED
  BY <1>1 DEF Opens, SameEars

LEMMA OpensHears ==
  ASSUME NEW s, NEW f \in Far, Ready(s, f), s.st \in {"INIT", "LISTEN"}, NEW n \in SeqNo, NEW t,
         Opens(s, n, t)
  PROVE  Hears(s, t, "SYN_SENT", f)
<1>1. s \in Block /\ Has(s, f) /\ Fresh(s)
  BY DEF Ready, AtRest, Takes, Early
<1>2. SameEars(s, t) /\ t.fin_ack_rcvd = s.fin_ack_rcvd
  BY DEF Opens
<1>3. Heard(t) = Heard(s) /\ (Ended(t) <=> Ended(s))
  BY <1>2 DEF SameEars, Heard, Ended
<1>4. Has(t, f) /\ Fresh(t)
  BY <1>1, <1>2, <1>3 DEF SameEars, Has, Fresh
<1>5. Acked(t, f)
  <2>1. Plus(n, 0) = n
    BY Mod, Windows DEF Plus, SeqNo
  <2>2. 0 \in 0 .. f.heard
    BY FarType
  <2> QED
    BY <2>1, <2>2 DEF Opens, Acked
<1>6. Faithful(t, f)
  <2>1. ASSUME NEW seg \in t.out
        PROVE  Truthful(t, seg, f)
    BY <2>1 DEF Opens, Truthful
  <2> QED
    BY <2>1 DEF Faithful
<1>7. Heard(s) <= Heard(t)
  <2>1. t \in Block
    BY DEF Opens
  <2> QED
    BY <1>3, <1>4, <2>1, HeardType
<1>8. s.st \notin Live /\ "SYN_SENT" \notin Synchronized \cup {"SYN_RCVD"} /\ "SYN_SENT" \in Live
      /\ s.st \notin Synchronized
  BY DEF Live, Handshake, Synchronized
<1>9. \A seg \in t.out : seg.len = 0
  BY DEF Opens
<1>10. t \in Block /\ t.st = s.st /\ s.st # "CLOSED"
  BY DEF Opens
<1> QED
  BY <1>3, <1>4, <1>5, <1>6, <1>7, <1>8, <1>9, <1>10 DEF Hears

\* In INIT and LISTEN no timer of a handshake runs.
LEMMA ActiveFromRest ==
  ASSUME IInv, NEW e \in End, conn[e].st \in {"INIT", "LISTEN"}, NEW s \in Block,
         s.st = conn[e].st, s.timers = conn[e].timers, s.out = {}, s.failed = "no",
         NEW n \in SeqNo
  PROVE  Opens(s, n, Active(s, n))
<1>1. PICK a : a = Active(s, n)
  OBVIOUS
<1>2. "CONN_ESTAB" \notin s.timers
  <2>1. Sound(conn[e])
    BY Rest
  <2> QED
    BY <2>1 DEF Sound, Handshake
<1>3. a.failed = "no"
  BY <1>1, <1>2, ActiveBegins DEF Begins
<1> QED
  BY <1>1, <1>3, ActiveOpens

LEMMA OpenActiveLink ==
  ASSUME NEW N \in [End -> SeqNo], Fits, Going(N), NEW e \in End, OpenActive(e)
  PROVE  Link(N)'
<1>1. PICK n \in ISS[e] :
        Finish(e, Event(Active([conn[e] EXCEPT !.remote = TRUE], n), "OPEN_ACTIVE"), net[e])
  BY DEF OpenActive
<1>2. PICK s : s = conn[e]
  OBVIOUS
<1>3. s.st \in {"INIT", "LISTEN"} /\ s \in Block /\ s.out = {} /\ s.failed = "no" /\ IInv
  BY <1>2, Rest DEF OpenActive, Going, AtRest
<1>4. n \in SeqNo
  BY ParamAssumption DEF SeqNo
<1>5. PICK r : r = [s EXCEPT !.remote = TRUE]
  OBVIOUS
<1>6. r \in Block /\ r.st = s.st /\ r.timers = s.timers /\ r.failed = s.failed /\ r.out = s.out
  BY <1>3, <1>5, RemoteIs, ZenonT(60)
<1>7. PICK a : a = Active(r, n)
  OBVIOUS
<1>8. Opens(r, n, a)
  BY <1>2, <1>3, <1>4, <1>6, <1>7, ActiveFromRest
<1>9. Mute(s, r)
  BY <1>3, <1>5, AdjustedMute
<1>10. Opens(s, n, a)
  BY <1>6, <1>8, <1>9 DEF Opens, Mute, SameEars, Closings
<1>11. PICK t : t = Event(a, "OPEN_ACTIVE")
  OBVIOUS
<1>12. a \in Block /\ a.st = s.st
  BY <1>10 DEF Opens
<1>13. Mute(a, t) /\ t \in Block /\ t.st = s.st
  BY <1>11, <1>12, EventMute, Row DEF EventName
<1>14. Opens(s, n, t)
  BY <1>10, <1>12, <1>13, OpensThen DEF Mute
<1>15. nextState(t) = "SYN_SENT"
  BY <1>3, <1>11, <1>12, Row
<1>16. ASSUME NEW f \in Far, Ready(s, f)
       PROVE  Hears(s, t, nextState(t), f)
  BY <1>3, <1>4, <1>14, <1>15, <1>16, OpensHears
<1>17. Finish(e, t, net[e])
  BY <1>1, <1>2, <1>5, <1>7, <1>11
<1> QED
  BY <1>2, <1>16, <1>17, CommandLink

LEMMA LongerHears ==
  ASSUME NEW s, NEW f \in Far, Ready(s, f), s.st \in Live, NEW t, Longer(s, t), Extends(s, t)
  PROVE  Hears(s, t, s.st, f)
<1>1. s \in Block /\ Takes(s, f) /\ t \in Block /\ t.st = s.st
  BY DEF Ready, AtRest, Longer
<1>2. SameEars(s, t)
  BY DEF Longer
<1>3. Heard(t) = Heard(s) /\ (Ended(t) <=> Ended(s))
  BY <1>2 DEF SameEars, Heard, Ended
<1>4. Has(t, f)
  BY <1>1, <1>2, <1>3 DEF SameEars, Has, Takes, Longer
<1>5. Listens(s, f) => Listens(t, f)
  BY <1>2, <1>3 DEF SameEars, Listens
<1>6. Fresh(s) => Fresh(t)
  BY <1>2, <1>3 DEF SameEars, Fresh
<1>7. Acked(t, f)
  BY <1>1 DEF Takes, Longer, Acked
<1>8. Faithful(t, f)
  <2>1. ASSUME t.failed = "no", NEW seg \in t.out
        PROVE  Truthful(t, seg, f)
    <3>1. s.st \in Synchronized
      BY <2>1 DEF Longer, Live
    <3>2. t.rcv_nxt = Plus(f.iss, Heard(t))
      BY <1>1, <1>5, <3>1 DEF Takes, Listens
    <3>3. Heard(t) \in 1 .. Heard(t)
      BY <1>1, <1>4, HeardType
    <3>4. Said(t, seg)
      BY <2>1 DEF Longer
    <3> QED
      BY <3>2, <3>3, <3>4 DEF Said, Truthful
  <2> QED
    BY <2>1 DEF Faithful
<1>9. Heard(s) <= Heard(t)
  BY <1>1, <1>3, <1>4, HeardType
<1>10. s.st \in Early => \A seg \in t.out : seg.len = 0
  <2>1. s.st \in Early => s.st \in Handshake
    BY DEF Early, Live, Handshake, Synchronized
  <2> QED
    BY <2>1 DEF Longer
<1>11. s.st # "CLOSED"
  BY DEF Live, Handshake, Synchronized
<1> QED
  BY <1>1, <1>3, <1>4, <1>5, <1>6, <1>7, <1>8, <1>9, <1>10, <1>11 DEF Hears, Takes, Longer

\* The application writes n bytes.
LEMMA enqueueAppDataLonger ==
  ASSUME NEW s \in Block, s.out = {}, NEW n \in Nat
  PROVE  /\ Longer(s, enqueueAppData(s, n)) /\ enqueueAppData(s, n).out = {}
         /\ enqueueAppData(s, n).told = s.told
<1>1. PICK q \in SeqNo : q = Plus(s.qEnd, n)
  BY NumbersIn, PlusType
<1>2. PICK t : t = [s EXCEPT !.qEnd = q]
  OBVIOUS
<1>3. t \in Block
  BY <1>2, SMTT(40) DEF Block
<1>4. /\ t.irs = s.irs /\ t.rcv_nxt = s.rcv_nxt /\ t.rcvd = s.rcvd /\ t.buf = s.buf
      /\ t.fin_rcvd = s.fin_rcvd /\ t.rcv_fin_seq = s.rcv_fin_seq /\ t.told = s.told
      /\ t.iss = s.iss /\ t.snd_una = s.snd_una /\ t.fin_ack_rcvd = s.fin_ack_rcvd
      /\ t.send_fin = s.send_fin /\ t.out = s.out /\ t.st = s.st
  BY <1>2 DEF Block
<1>5. enqueueAppData(s, n) = t
  BY <1>1, <1>2 DEF enqueueAppData
<1>6. SameEars(s, t)
  BY <1>4 DEF SameEars, Closings
<1> QED
  BY <1>3, <1>4, <1>5, <1>6 DEF Longer

LEMMA LongerThenMute ==
  ASSUME NEW s, NEW t, Longer(s, t), NEW u \in Block, u.st = t.st, Mute(t, u)
  PROVE  Longer(s, u)
<1>1. SameEars(t, u)
  BY DEF Mute, SameEars, Closings
<1>2. \A seg : Said(t, seg) => Said(u, seg)
  BY DEF Mute, Said, InQueue
<1> QED
  BY <1>1, <1>2 DEF Longer, Mute, SameEars

LEMMA LongerThenSpeaks ==
  ASSUME NEW s, NEW t, Longer(s, t), s.st \notin Handshake, t.out = {}, NEW u \in Block,
         u.st = t.st, Speaks(t, u)
  PROVE  Longer(s, u)
<1>1. SameEars(t, u) /\ SameNotes(t, u)
  BY DEF Speaks
<1>2. \A seg : Said(t, seg) => Said(u, seg)
  BY <1>1 DEF SameNotes, SameEars, Said, InQueue
<1> QED
  BY <1>1, <1>2 DEF Longer, Speaks, SameEars, SameNotes

\* What is written stays within half of the sequence number space.
LEMMA WritesFit ==
  ASSUME Fits, NEW e \in End, NEW s \in Block, NEW n \in Nat, Written(s) + n <= MaxBytes[e]
  PROVE  Written(s) + n + 2 < SeqMod \div 2
<1>1. PICK w \in Nat : w = Written(s)
  <2>1. PICK a : a = Plus(s.iss, 1)
    OBVIOUS
  <2>2. PICK q \in SeqNo : q = s.qEnd
    BY NumbersIn
  <2>3. s.iss \in SeqNo
    BY NumbersIn
  <2>4. a \in SeqNo
    BY <2>1, <2>3, PlusType
  <2>5. PICK d \in SeqNo : d = Dist(a, q)
    BY <2>4, DistType
  <2>6. Written(s) = d
    BY <2>1, <2>2, <2>5 DEF Written
  <2> QED
    BY <2>5, <2>6 DEF SeqNo
<1>2. w + n <= MaxBytes[e]
  BY <1>1
<1>3. w + n + 2 < SeqMod \div 2
  BY <1>2, FitsHalf, Windows
<1> QED
  BY <1>1, <1>3

LEMMA SendCommandLink ==
  ASSUME NEW N \in [End -> SeqNo], Fits, Going(N), NEW e \in End, NEW n \in Message[e],
         SendCommand(e, n)
  PROVE  Link(N)'
<1>1. PICK s : s = conn[e]
  OBVIOUS
<1>2. /\ s \in Block /\ s.out = {} /\ s.failed = "no" /\ IInv /\ Sound(s)
      /\ ~ s.send_fin
  BY <1>1, Rest DEF SendCommand, Going, AtRest
<1>3. n \in Nat
  BY MessageLength
<1>4. CASE s.st = "LISTEN" /\ \E i \in ISS[e] :
             Finish(e, Event(enqueueAppData(Active(s, i), n), "SEND"), net[e])
  <2>1. PICK i \in ISS[e] : Finish(e, Event(enqueueAppData(Active(s, i), n), "SEND"), net[e])
    BY <1>4
  <2>2. i \in SeqNo
    BY ParamAssumption DEF SeqNo
  <2>3. PICK a : a = Active(s, i)
    OBVIOUS
  <2>4. Opens(s, i, a)
    BY <1>1, <1>2, <1>4, <2>2, <2>3, ActiveFromRest
  <2>5. a \in Block /\ a.st = s.st
    BY <2>4 DEF Opens
  <2>6. PICK b : b = enqueueAppData(a, n)
    OBVIOUS
  <2>7. b \in Block /\ b.st = a.st
    BY <1>3, <2>5, <2>6, enqueueAppDataEnqueues DEF Enqueues
  <2>8. Opens(s, i, b)
    <3>1. PICK q \in SeqNo : q = Plus(a.qEnd, n)
      BY <1>3, <2>5, NumbersIn, PlusType
    <3>2. b = [a EXCEPT !.qEnd = q]
      BY <2>6, <3>1 DEF enqueueAppData
    <3>3. /\ b.irs = a.irs /\ b.rcv_nxt = a.rcv_nxt /\ b.rcvd = a.rcvd /\ b.buf = a.buf
          /\ b.fin_rcvd = a.fin_rcvd /\ b.rcv_fin_seq = a.rcv_fin_seq /\ b.told = a.told
          /\ b.iss = a.iss /\ b.snd_una = a.snd_una /\ b.fin_ack_rcvd = a.fin_ack_rcvd
          /\ b.out = a.out
      BY <2>5, <3>2 DEF Block
    <3> QED
      BY <2>4, <2>7, <3>3, OpensThen
  <2>9. PICK t : t = Event(b, "SEND")
    OBVIOUS
  <2>10. Mute(b, t) /\ t \in Block /\ t.st = s.st
    BY <2>5, <2>7, <2>9, EventMute, Row DEF EventName
  <2>11. Opens(s, i, t)
    BY <2>5, <2>7, <2>8, <2>10, OpensThen DEF Mute
  <2>12. nextState(t) = "SYN_SENT"
    BY <1>4, <2>5, <2>7, <2>9, Row
  <2>13. ASSUME NEW f \in Far, Ready(s, f)
         PROVE  Hears(s, t, nextState(t), f)
    BY <1>4, <2>2, <2>11, <2>12, <2>13, OpensHears
  <2>14. Finish(e, t, net[e])
    BY <2>1, <2>3, <2>6, <2>9
  <2> QED
    BY <1>1, <2>13, <2>14, CommandLink
<1>5. PICK b : b = enqueueAppData(s, n)
  OBVIOUS
<1>6. Longer(s, b) /\ b.out = {} /\ b \in Block /\ b.st = s.st
  BY <1>2, <1>3, <1>5, enqueueAppDataLonger DEF Longer
<1>7. Enqueues(s, n, b) /\ b.qEnd = Plus(s.qEnd, n)
  BY <1>2, <1>3, <1>5, enqueueAppDataEnqueues DEF Enqueues
<1>8. CASE s.st \in Handshake /\ Written(s) + n <= MaxBytes[e]
           /\ Finish(e, Event(b, "SEND"), net[e])
  <2>1. PICK t : t = Event(b, "SEND")
    OBVIOUS
  <2>2. Mute(b, t) /\ t \in Block /\ t.st = s.st
    BY <1>6, <2>1, EventMute, Row DEF EventName
  <2>3. nextState(t) = s.st
    BY <1>6, <1>8, <2>1, Row DEF Handshake
  <2>4. Longer(s, t)
    BY <1>6, <2>2, LongerThenMute
  <2>5. Extends(s, t)
    <3>1. Written(s) + n + 2 < SeqMod \div 2
      BY <1>2, <1>3, <1>8, WritesFit
    <3>2. t.qEnd = Plus(s.qEnd, n)
      BY <1>7, <2>2 DEF Mute
    <3> QED
      BY <1>2, <1>3, <3>1, <3>2 DEF Extends
  <2>6. ASSUME NEW f \in Far, Ready(s, f)
        PROVE  Hears(s, t, nextState(t), f)
    BY <1>8, <2>3, <2>4, <2>5, <2>6, LongerHears DEF Live
  <2> QED
    BY <1>1, <1>8, <2>1, <2>6, CommandLink
<1>9. CASE s.st \in {"ESTABLISHED", "CLOSE_WAIT"} /\ Written(s) + n <= MaxBytes[e]
           /\ Finish(e, Event(sendData(b), "SEND"), net[e])
  <2>1. s.st \in Synchronized /\ s.st \in Live /\ s.st \notin Handshake
    BY <1>9 DEF Synchronized, Live, Handshake
  <2>2. PICK d : d = sendData(b)
    OBVIOUS
  <2>3. Written(s) + n + 2 < SeqMod \div 2
    BY <1>2, <1>3, <1>9, WritesFit
  <2>4. Order(b)
    <3>1. Order(s)
      BY <1>2, <2>1 DEF Sound, InOrder
    <3> QED
      BY <1>2, <1>3, <1>7, <2>3, <3>1, EnqueuesOrder
  <2>5. Speaks(b, d)
    <3>1. Queued(b)
      BY <2>4, OrderQueued
    <3> QED
      BY <1>6, <2>2, <3>1, sendDataSpeaks
  <2>6. d \in Block /\ d.st = b.st
    <3>1. Pushes(b, d)
      BY <1>6, <2>2, sendDataPushes
    <3> QED
      BY <3>1 DEF Pushes, Sends
  <2>7. Longer(s, d)
    BY <1>6, <2>1, <2>5, <2>6, LongerThenSpeaks
  <2>8. PICK t : t = Event(d, "SEND")
    OBVIOUS
  <2>9. Mute(d, t) /\ t \in Block /\ t.st = s.st
    BY <1>6, <2>6, <2>8, EventMute, Row DEF EventName
  <2>10. Longer(s, t)
    BY <1>6, <2>6, <2>7, <2>9, LongerThenMute
  <2>11. nextState(t) = s.st
    BY <1>6, <1>9, <2>6, <2>8, Row
  <2>12. Extends(s, t)
    <3>1. t.qEnd = Plus(s.qEnd, n)
      BY <1>7, <2>5, <2>9 DEF Mute, Speaks, SameNotes
    <3> QED
      BY <1>2, <1>3, <2>3, <3>1 DEF Extends
  <2>13. ASSUME NEW f \in Far, Ready(s, f)
         PROVE  Hears(s, t, nextState(t), f)
    BY <2>1, <2>10, <2>11, <2>12, <2>13, LongerHears
  <2> QED
    BY <1>1, <1>9, <2>2, <2>8, <2>13, CommandLink
<1> QED
  BY <1>1, <1>4, <1>5, <1>8, <1>9 DEF SendCommand, Handshake

LEMMA sendRstOnly ==
  ASSUME NEW s \in Block, NEW n, NEW g \in sendRst(s, n).out
  PROVE  g \in s.out \/ g.rst
<1>1. PICK r : r = [NoFlags EXCEPT !.rst = TRUE, !.seq = n]
  OBVIOUS
<1>2. r.rst
  BY <1>1 DEF NoFlags
<1>3. sendRst(s, n).out = s.out \cup {r}
  BY <1>1 DEF sendRst, Emit, Block
<1> QED
  BY <1>2, <1>3

\* The SYN is answered.
LEMMA GreetedHears ==
  ASSUME NEW s, NEW f \in Far, Ready(s, f), s.st \in {"LISTEN", "SYN_SENT"},
         NEW g, NEW i, Comes(g, i, f), g.syn, ~ g.rst,
         NEW b, Greeted(s, g, b), NEW t \in Block, t.st = s.st, Hushed(b, t)
  PROVE  Hears(s, t, "SYN_RCVD", f)
<1>1. s \in Block /\ Takes(s, f) /\ s.out = {}
  BY DEF Ready, AtRest
<1>2. Has(s, f) /\ Fresh(s) /\ (s.st = "SYN_SENT" => Acked(s, f))
  BY <1>1 DEF Takes, Early, Live, Handshake
<1>3. SameEars(b, t) /\ SameNotes(b, t)
  BY DEF Hushed, Speaks
<1>4. Closings(t) = Closings(s) /\ t.rcvd = s.rcvd /\ t.buf = s.buf /\ t.fin_rcvd = s.fin_rcvd
      /\ t.irs = g.seq /\ t.rcv_nxt = Plus(g.seq, 1) /\ t.fin_ack_rcvd = s.fin_ack_rcvd
  BY <1>3 DEF SameEars, SameNotes, Greeted
<1>5. Heard(t) = Heard(s) /\ (Ended(t) <=> Ended(s)) /\ Heard(t) = 1
  <2>1. Ended(t) <=> Ended(s)
    BY <1>4 DEF Ended
  <2>2. ~ Ended(s) /\ s.rcvd = 0
    BY <1>2 DEF Fresh
  <2> QED
    BY <1>4, <2>1, <2>2 DEF Heard
<1>6. g.seq = f.iss
  BY DEF Comes
<1>7. Has(t, f) /\ Fresh(t)
  BY <1>2, <1>4, <1>5 DEF Has, Fresh
<1>8. Listens(t, f)
  BY <1>4, <1>5, <1>6, <1>7 DEF Listens, Fresh
<1>9. Acked(t, f)
  <2>1. CASE s.st = "SYN_SENT"
    BY <1>2, <1>3, <2>1 DEF SameNotes, Greeted, Acked
  <2>2. CASE s.st = "LISTEN"
    <3>1. t.snd_una = b.iss /\ t.iss = b.iss /\ b.iss \in SeqNo
      BY <1>3, <2>2 DEF SameNotes, Greeted
    <3>2. PICK n \in SeqNo : n = b.iss
      BY <3>1
    <3>3. Plus(n, 0) = n
      BY Mod, Windows DEF Plus, SeqNo
    <3>4. 0 \in 0 .. f.heard
      BY FarType
    <3> QED
      BY <3>1, <3>2, <3>3, <3>4 DEF Acked
  <2> QED
    BY <2>1, <2>2
<1>10. \A seg \in t.out : seg.len = 0
  BY <1>1 DEF Greeted, Hushed
<1>11. Faithful(t, f)
  <2>1. ASSUME t.failed = "no", NEW seg \in t.out
        PROVE  Truthful(t, seg, f)
    <3>1. Said(b, seg)
      BY <1>1, <2>1 DEF Greeted, Hushed, Speaks
    <3>2. 1 \in 1 .. Heard(t)
      BY <1>5
    <3>3. t.iss = b.iss /\ b.rcv_nxt = Plus(f.iss, 1)
      BY <1>3, <1>6 DEF SameNotes, Greeted
    <3>4. ~ (seg.len > 0)
      BY <1>10, <2>1
    <3> QED
      BY <3>1, <3>2, <3>3, <3>4 DEF Said, Truthful
  <2> QED
    BY <2>1 DEF Faithful
<1>12. s.st = "LISTEN" => s.st \notin Live
  BY DEF Live, Handshake, Synchronized
<1>13. s.st = "SYN_SENT" => t.iss = s.iss /\ (s.send_fin => t.send_fin)
  BY <1>3 DEF SameNotes, Greeted
<1>14. s.st # "CLOSED" /\ s.st \notin Synchronized /\ "SYN_RCVD" \notin Synchronized
       /\ "SYN_RCVD" \in Live
  BY DEF Synchronized, Live, Handshake
<1>15. Heard(s) <= Heard(t)
  BY <1>5
<1> QED
  BY <1>5, <1>7, <1>8, <1>9, <1>10, <1>11, <1>12, <1>13, <1>14, <1>15 DEF Hears

LEMMA processSegmentInListenGreets ==
  ASSUME NEW s \in Block, s.st = "LISTEN", NEW seg \in TCPSegment, NEW n \in SeqNo
  PROVE  LET t == processSegmentInListen(s, seg, n)
         IN  \/ Hushed(s, t) /\ t.ev = s.ev /\ \A g \in t.out : g \in s.out \/ g.rst
             \/ /\ t.ev = "RCV_SYN" /\ seg.syn /\ ~ seg.rst
                /\ \E b : Greeted(s, seg, b) /\ Hushed(b, t)
<1>1. PICK m \in SeqNo : m = Plus(seg.seq, 1)
  BY Segments, PlusType
<1>2. PICK i \in SeqNo : i = seg.seq
  BY Segments
<1>3. PICK g : g = [s EXCEPT !.rcv_nxt = m, !.irs = i]
  OBVIOUS
<1>4. g \in Block
  <2>1. Keeps(s, g)
    BY <1>3, ReceivedSyn
  <2> QED
    BY <2>1 DEF Keeps
<1>5. PICK a : a = [g EXCEPT !.remote = TRUE]
  OBVIOUS
<1>6. a \in Block
  BY <1>4, <1>5, ZenonT(60) DEF Block
<1>7. /\ a.irs = i /\ a.rcv_nxt = m /\ a.rcvd = s.rcvd /\ a.buf = s.buf
      /\ a.fin_rcvd = s.fin_rcvd /\ a.told = s.told /\ a.fin_ack_rcvd = s.fin_ack_rcvd
      /\ a.send_fin = s.send_fin /\ a.out = s.out /\ a.failed = s.failed
  <2>1. /\ g.irs = i /\ g.rcv_nxt = m /\ g.rcvd = s.rcvd /\ g.buf = s.buf
        /\ g.fin_rcvd = s.fin_rcvd /\ g.told = s.told /\ g.fin_ack_rcvd = s.fin_ack_rcvd
        /\ g.send_fin = s.send_fin /\ g.out = s.out /\ g.failed = s.failed
    BY <1>3, <1>4 DEF Block
  <2>2. /\ a.irs = g.irs /\ a.rcv_nxt = g.rcv_nxt /\ a.rcvd = g.rcvd /\ a.buf = g.buf
        /\ a.fin_rcvd = g.fin_rcvd /\ a.told = g.told /\ a.fin_ack_rcvd = g.fin_ack_rcvd
        /\ a.send_fin = g.send_fin /\ a.out = g.out /\ a.failed = g.failed
    BY <1>4, <1>5, <1>6 DEF Block
  <2> QED
    BY <2>1, <2>2
<1>8. PICK b : b = selectInitialSeqNum(a, n)
  OBVIOUS
<1>9. Anew(a, n, b) /\ b.send_fin = a.send_fin
  BY <1>6, <1>8, selectInitialSeqNumAnew, selectInitialSeqNumSelects DEF Selects
<1>10. b \in Block
  BY <1>9 DEF Anew
<1>11. Greeted(s, seg, b)
  <2>1. Closings(a) = Closings(s)
    BY <1>7 DEF Closings
  <2> QED
    BY <1>1, <1>2, <1>7, <1>9, <2>1 DEF Anew, SameEars, Greeted
<1>12. PICK w : w = updateWindow(b, i, n)
  OBVIOUS
<1>13. Mute(b, w) /\ w \in Block
  BY <1>10, <1>12, updateWindowMute, updateWindowIs DEF Emits, Sends
<1>14. PICK c : c = sendSynAck(w)
  OBVIOUS
<1>15. Hushed(w, c) /\ c \in Block
  BY <1>13, <1>14, sendSynHushed, sendSynIs DEF SynSent, Sends
<1>16. PICK d : d = startSynRexmitTimer(c)
  OBVIOUS
<1>17. Mute(c, d) /\ d \in Block
  BY <1>15, <1>16, startSynRexmitTimerMute
<1>18. PICK e : e = scheduleTimeout(d, "CONN_ESTAB")
  OBVIOUS
<1>19. Mute(d, e) /\ e \in Block
  BY <1>17, <1>18, scheduleTimeoutMute DEF TimerName
<1>20. PICK f : f = IF "CONN_ESTAB" \in d.timers THEN d ELSE e
  OBVIOUS
<1>21. f \in Block /\ Hushed(d, f)
  BY <1>17, <1>19, <1>20, MuteHushed, SpeaksItself
<1>22. PICK h : h = Event(f, "RCV_SYN")
  OBVIOUS
<1>23. Mute(f, h) /\ h.ev = "RCV_SYN"
  BY <1>21, <1>22, EventMute, EventKeeps DEF EventName
<1>24. Hushed(b, h)
  <2>1. Hushed(b, c)
    BY <1>13, <1>15, MuteHushed, HushedTransitive
  <2>2. Hushed(c, f)
    BY <1>17, <1>21, MuteHushed, HushedTransitive
  <2>3. Hushed(f, h)
    BY <1>23, MuteHushed
  <2> QED
    BY <2>1, <2>2, <2>3, HushedTransitive
<1>25. PICK x : x = sendRst(s, seg.ackNo)
  OBVIOUS
<1>26. Hushed(s, x) /\ x.ev = s.ev /\ \A q \in x.out : q \in s.out \/ q.rst
  <2>1. seg.ackNo \in SeqNo
    BY Segments
  <2>2. Emits(s, x)
    BY <1>25, <2>1, sendRstEmits
  <2>3. \A q \in x.out : q \in s.out \/ q.rst
    BY <1>25, sendRstOnly
  <2> QED
    BY <1>25, <2>1, <2>2, <2>3, sendRstHushed DEF Emits, Sends
<1>27. Hushed(s, s)
  BY SpeaksItself
<1>28. PICK t : t = processSegmentInListen(s, seg, n)
  OBVIOUS
<1>29. t \in {s, x} \/ (t = h /\ seg.syn /\ ~ seg.rst)
  <2>1. a = [s EXCEPT !.rcv_nxt = m, !.irs = i, !.remote = TRUE]
    BY <1>3, <1>5 DEF Block
  <2> QED
    BY <1>1, <1>2, <1>8, <1>12, <1>14, <1>16, <1>18, <1>20, <1>22, <1>25, <1>28, <2>1
       DEF processSegmentInListen
<1>30. CASE t \in {s, x}
  <2>1. \A q \in s.out : q \in s.out \/ q.rst
    OBVIOUS
  <2> QED
    BY <1>26, <1>27, <1>28, <1>30, <2>1
<1>31. CASE t = h /\ seg.syn /\ ~ seg.rst
  BY <1>11, <1>23, <1>24, <1>28, <1>31
<1> QED
  BY <1>29, <1>30, <1>31

\* A segment.
LEMMA SegmentLink ==
  ASSUME NEW N \in [End -> SeqNo], Fits, Going(N), NEW e \in End, NEW seg \in net[e], NEW t,
         Finish(e, t, net[e] \ {seg}),
         \A f \in Far : Ready(conn[e], f) /\ Comes(seg, N[e], f)
                          => Hears(conn[e], t, nextState(t), f)
  PROVE  Link(N)'
<1>1. aborted = "no"
  BY DEF Finish
<1>2. IInv /\ Once(N) /\ Link(N)
  BY DEF Going
<1>3. PICK f \in Far : /\ Pair(conn[e], conn[Peer(e)], net[e], TRUE, N[e], N[Peer(e)], f)
                       /\ Ready(conn[e], f)
  BY <1>1, <1>2, LinkReady
<1>4. Comes(seg, N[e], f)
  BY <1>3 DEF Pair
<1>5. Hears(conn[e], t, nextState(t), f)
  BY <1>3, <1>4
<1>6. PICK rest : rest = net[e] \ {seg}
  OBVIOUS
<1>7. rest \subseteq net[e] /\ Finish(e, t, rest)
  BY <1>6
<1> QED
  BY <1>3, <1>5, <1>7, FinishLink DEF Going

LEMMA ClosedRsts ==
  ASSUME NEW seg, NEW g \in segmentArrivalWhileClosed(seg)
  PROVE  g.rst
BY DEF segmentArrivalWhileClosed, NoFlags

LEMMA ArriveClosedLink ==
  ASSUME NEW N \in [End -> SeqNo], Fits, Going(N), NEW e \in End, NEW seg \in net[e],
         UNCHANGED <<conn, aborted>>, Send(e, segmentArrivalWhileClosed(seg), net[e] \ {seg})
  PROVE  Link(N)'
<1>1. PICK q \in End : q = Peer(e) /\ Peer(q) = e /\ q # e /\ \A g \in End : g = e \/ g = q
  BY Peers
<1>2. IInv /\ TypeInv /\ Link(N)
  BY DEF Going, IInv
<1>3. seg \in TCPSegment
  BY <1>2 DEF TypeInv
<1>4. PICK out : out = segmentArrivalWhileClosed(seg)
  OBVIOUS
<1>5. out \subseteq TCPSegment /\ \A g \in out : g.rst
  BY <1>3, <1>4, ClosedAnswers, ClosedRsts
<1>6. PICK rest : rest = net[e] \ {seg}
  OBVIOUS
<1>7. rest \subseteq net[e] /\ Send(e, out, rest)
  BY <1>4, <1>6
<1>8. net'[e] \subseteq net[e] /\ net'[q] \subseteq net[q] \cup out
  BY <1>1, <1>2, <1>5, <1>7, SendNet
<1>9. ASSUME NEW c \in End
      PROVE  Linked(conn'[c], conn'[Peer(c)], net'[c], aborted' = "no", N[c], N[Peer(c)])
  <2>1. PICK f \in Far : Pair(conn[c], conn[Peer(c)], net[c], aborted = "no", N[c], N[Peer(c)], f)
    BY <1>2 DEF Link, Linked
  <2>2. \A g \in net'[c] : g \in net[c] \/ g.rst
    BY <1>1, <1>5, <1>8
  <2>3. aborted = "no" => \A g \in net'[c] : Comes(g, N[c], f)
    BY <2>1, <2>2 DEF Pair, Comes
  <2>4. Pair(conn'[c], conn'[Peer(c)], net'[c], aborted' = "no", N[c], N[Peer(c)], f)
    BY <2>1, <2>3 DEF Pair
  <2> QED
    BY <2>4 DEF Linked
<1> QED
  BY <1>9 DEF Link, Linked, Pair, Offers, Takes, Has, Listens, Fresh, Acked, Heard, Ended, Closings

LEMMA ArriveListenLink ==
  ASSUME NEW N \in [End -> SeqNo], Fits, Going(N), NEW e \in End, NEW seg \in net[e],
         conn[e].st = "LISTEN", NEW n \in ISS[e],
         Finish(e, processSegmentInListen(conn[e], seg, n), net[e] \ {seg})
  PROVE  Link(N)'
<1>1. PICK s : s = conn[e]
  OBVIOUS
<1>2. /\ s \in Block /\ s.out = {} /\ s.ev = "IGNORE" /\ s.st = "LISTEN" /\ IInv
      /\ seg \in TCPSegment /\ n \in SeqNo
  <2>1. IInv
    BY DEF Going
  <2>2. seg \in TCPSegment
    BY <2>1 DEF IInv, TypeInv
  <2>3. n \in SeqNo
    BY ParamAssumption DEF SeqNo
  <2> QED
    BY <1>1, <2>1, <2>2, <2>3, Rest DEF AtRest
<1>3. PICK t : t = processSegmentInListen(s, seg, n)
  OBVIOUS
<1>4. t \in Block /\ t.st = "LISTEN"
  <2>1. Ignores(s, t) \/ Begins(s, n, t)
    BY <1>2, <1>3, processSegmentInListenBegins
  <2> QED
    BY <1>2, <2>1 DEF Ignores, Keeps, Begins
<1>5. PICK i \in SeqNo : i = N[e]
  OBVIOUS
<1>6. ASSUME NEW f \in Far, Ready(s, f), Comes(seg, i, f)
      PROVE  Hears(s, t, nextState(t), f)
  <2>1. CASE Hushed(s, t) /\ t.ev = s.ev /\ \A g \in t.out : g \in s.out \/ g.rst
    <3>1. nextState(t) = "LISTEN"
      BY <1>2, <1>4, <2>1, IgnoredNext
    <3>2. \A g \in t.out : g.rst
      BY <1>2, <2>1
    <3> QED
      BY <1>2, <1>4, <1>6, <2>1, <3>1, <3>2, SpeaksHears DEF Synchronized, Hushed
  <2>2. ASSUME t.ev = "RCV_SYN", seg.syn, ~ seg.rst, NEW b, Greeted(s, seg, b), Hushed(b, t)
        PROVE  Hears(s, t, nextState(t), f)
    <3>1. ~ Resets(t)
      BY <2>2 DEF Resets
    <3>2. <<"LISTEN", "RCV_SYN", "SYN_RCVD">> \in Transition
      BY DEF Transition
    <3>3. nextState(t) = "SYN_RCVD"
      BY <1>4, <2>2, <3>1, <3>2, nextStateIs, SMTT(60) DEF Transition
    <3> QED
      BY <1>2, <1>4, <1>6, <2>2, <3>3, GreetedHears
  <2> QED
    BY <1>2, <1>3, <2>1, <2>2, processSegmentInListenGreets
<1>7. Finish(e, t, net[e] \ {seg})
  BY <1>1, <1>3
<1> QED
  BY <1>1, <1>5, <1>6, <1>7, SegmentLink

LEMMA MetHears ==
  ASSUME NEW s, NEW f \in Far, Ready(s, f), s.st = "SYN_SENT",
         NEW g, Comes(g, s.iss, f), g.syn, g.ack, ~ g.rst,
         NEW w \in Block, Met(s, g, w), NEW t \in Block, t.st = s.st, Speaks(w, t)
  PROVE  Hears(s, t, "ESTABLISHED", f)
<1>1. s \in Block /\ Takes(s, f) /\ s.out = {}
  BY DEF Ready, AtRest
<1>2. Has(s, f) /\ Fresh(s)
  BY <1>1 DEF Takes, Early
<1>3. Ended(w) <=> Ended(s)
  BY DEF Met, Ended
<1>4. ~ Ended(w) /\ w.rcvd = 0 /\ Heard(w) = 1 /\ Heard(s) = 1
  BY <1>2, <1>3 DEF Met, Fresh, Heard
<1>5. Has(w, f)
  BY <1>2, <1>3, <1>4 DEF Met, Has, Fresh
<1>6. Listens(w, f)
  <2>1. g.seq = f.iss
    BY DEF Comes
  <2> QED
    BY <1>2, <1>4, <2>1 DEF Met, Fresh, Listens
<1>7. Acked(w, f)
  <2>1. PICK k \in 1 .. f.heard : g.ackNo = Plus(s.iss, k)
    BY DEF Comes
  <2>2. k \in 0 .. f.heard
    BY FarType, Windows
  <2> QED
    BY <2>1, <2>2 DEF Met, Acked
<1>8. Whole(w, f)
  BY <1>1, <1>5, <1>6, <1>7 DEF Whole, Faithful, Met
<1>9. Whole(t, f) /\ Grows(w, t)
  BY <1>8, SpeaksWhole
<1>10. t.iss = s.iss /\ t.qEnd = s.qEnd /\ t.send_fin = s.send_fin
  BY DEF Speaks, SameNotes, Met
<1>11. Heard(s) <= Heard(t) /\ ~ Ended(s)
  BY <1>2, <1>4, <1>9 DEF Grows, Fresh
<1>12. /\ "ESTABLISHED" \notin Early /\ s.st \in Live /\ s.st \notin Synchronized /\ s.st # "CLOSED"
       /\ "ESTABLISHED" \in Live
  BY DEF Early, Live, Handshake, Synchronized
<1>13. Extends(s, t)
  BY <1>10 DEF Extends
<1> QED
  BY <1>9, <1>10, <1>11, <1>12, <1>13 DEF Hears, Whole

LEMMA processSegmentInSynSentSays ==
  ASSUME NEW s \in Block, s.st = "SYN_SENT", NEW seg \in TCPSegment
  PROVE  LET t == processSegmentInSynSent(s, seg)
         IN  \/ /\ Hushed(s, t) /\ t.ev \in {s.ev, "RCV_RST"}
                /\ \A g \in t.out : g \in s.out \/ g.rst
             \/ /\ t.ev = "RCV_SYN" /\ seg.syn /\ ~ seg.rst
                /\ \E b : Greeted(s, seg, b) /\ Hushed(b, t)
             \/ /\ t.ev = "RCV_SYN_ACK" /\ seg.syn /\ ~ seg.rst /\ seg.ack /\ ~ BadAck(s, seg)
                /\ \E w : /\ Met(s, seg, w) /\ Connects(s, seg.ackNo, w)
                          /\ t = Event(established(w, TRUE), "RCV_SYN_ACK")
<1>1. PICK m \in SeqNo : m = Plus(seg.seq, 1)
  BY Segments, PlusType
<1>2. PICK i \in SeqNo : i = seg.seq
  BY Segments
<1>3. PICK n \in SeqNo : n = seg.ackNo
  BY Segments
<1>4. PICK g : g = [s EXCEPT !.rcv_nxt = m, !.irs = i]
  OBVIOUS
<1>5. Keeps(s, g) /\ g.timers = s.timers /\ g.failed = s.failed /\ g.fin_rcvd = s.fin_rcvd
      /\ g \in Block
  <2>1. Keeps(s, g) /\ g.timers = s.timers /\ g.failed = s.failed /\ g.fin_rcvd = s.fin_rcvd
    BY <1>4, ReceivedSyn
  <2> QED
    BY <2>1 DEF Keeps
<1>6. /\ g.irs = i /\ g.rcv_nxt = m /\ g.rcvd = s.rcvd /\ g.buf = s.buf /\ g.told = s.told
      /\ g.fin_ack_rcvd = s.fin_ack_rcvd /\ g.send_fin = s.send_fin /\ g.out = s.out
      /\ g.iss = s.iss /\ g.snd_una = s.snd_una /\ g.qEnd = s.qEnd /\ g.st = s.st
      /\ g.snd_max = s.snd_max /\ g.qBegin = s.qBegin /\ g.snd_fin_seq = s.snd_fin_seq
  BY <1>4, <1>5 DEF Block
<1>7. Closings(g) = Closings(s)
  BY <1>6 DEF Closings
<1>8. Greeted(s, seg, g)
  <2>1. g.iss \in SeqNo
    BY <1>5, NumbersIn
  <2> QED
    BY <1>1, <1>2, <1>5, <1>6, <1>7, <2>1 DEF Greeted
<1>9. PICK a : a = [g EXCEPT !.snd_una = n]
  OBVIOUS
<1>10. a \in Block
  BY <1>5, <1>9, ZenonT(60) DEF Block
<1>11. /\ a.irs = g.irs /\ a.rcv_nxt = g.rcv_nxt /\ a.rcvd = g.rcvd /\ a.buf = g.buf
       /\ a.told = g.told /\ a.fin_ack_rcvd = g.fin_ack_rcvd /\ a.send_fin = g.send_fin
       /\ a.out = g.out /\ a.iss = g.iss /\ a.snd_una = n /\ a.qEnd = g.qEnd /\ a.st = g.st
       /\ a.fin_rcvd = g.fin_rcvd /\ a.timers = g.timers /\ a.snd_max = g.snd_max
       /\ a.qBegin = g.qBegin /\ a.snd_fin_seq = g.snd_fin_seq /\ a.failed = g.failed
  BY <1>5, <1>9, <1>10 DEF Block
<1>12. PICK d : d = discardUpTo(a, n)
  OBVIOUS
<1>13. Mute(a, d) /\ d \in Block
  BY <1>10, <1>12, discardUpToMute
<1>14. PICK w : w = updateWindow(d, i, n)
  OBVIOUS
<1>15. Mute(d, w) /\ Emits(d, w) /\ w \in Block
  <2>1. Emits(d, w)
    BY <1>13, <1>14, updateWindowIs
  <2>2. Mute(d, w)
    BY <1>13, <1>14, updateWindowMute
  <2> QED
    BY <2>1, <2>2 DEF Emits, Sends
<1>16. Met(s, seg, w)
  <2>1. Closings(w) = Closings(g)
    BY <1>11, <1>13, <1>15 DEF Mute, Closings
  <2> QED
    BY <1>1, <1>2, <1>3, <1>5, <1>6, <1>7, <1>11, <1>13, <1>15, <2>1 DEF Mute, Met
<1>17. PICK v : v = Event(established(w, TRUE), "RCV_SYN_ACK")
  OBVIOUS
<1>18. PICK c : c = sendSynAck(g)
  OBVIOUS
<1>19. Hushed(g, c) /\ c \in Block
  BY <1>5, <1>18, sendSynHushed, sendSynIs DEF SynSent, Sends
<1>20. PICK e : e = startSynRexmitTimer(c)
  OBVIOUS
<1>21. Mute(c, e) /\ e \in Block
  BY <1>19, <1>20, startSynRexmitTimerMute
<1>22. PICK h : h = Event(e, "RCV_SYN")
  OBVIOUS
<1>23. Mute(e, h) /\ h.ev = "RCV_SYN"
  BY <1>21, <1>22, EventMute, EventKeeps DEF EventName
<1>24. Hushed(g, h)
  BY <1>19, <1>21, <1>23, MuteHushed, HushedTransitive
<1>25. PICK x : x = sendRst(s, n)
  OBVIOUS
<1>26. Hushed(s, x) /\ x.ev = s.ev /\ \A q \in x.out : q \in s.out \/ q.rst
  <2>1. Emits(s, x)
    BY <1>25, sendRstEmits
  <2>2. \A q \in x.out : q \in s.out \/ q.rst
    BY <1>25, sendRstOnly
  <2> QED
    BY <1>25, <2>1, <2>2, sendRstHushed DEF Emits, Sends
<1>27. PICK y : y = Event(Tell(s, "CONNECTION_RESET"), "RCV_RST")
  OBVIOUS
<1>28. Hushed(s, y) /\ y.ev = "RCV_RST" /\ y.out = s.out
  <2>1. PICK b : b = Tell(s, "CONNECTION_RESET")
    OBVIOUS
  <2>2. b \in Block /\ b.out = s.out /\ Hushed(s, b)
    <3>1. "CONNECTION_RESET" \in Indication /\ "CONNECTION_RESET" # "PEER_CLOSED"
      BY DEF Indication
    <3>2. Keeps(s, b) /\ Hushed(s, b)
      BY <2>1, <3>1, TellKeeps, TellHushed
    <3> QED
      BY <2>1, <3>2 DEF Keeps, Tell, Block
  <2>3. Mute(b, y) /\ y.ev = "RCV_RST"
    BY <1>27, <2>1, <2>2, EventMute, EventKeeps DEF EventName
  <2> QED
    BY <2>2, <2>3, MuteHushed, HushedTransitive DEF Mute
<1>29. Hushed(s, s)
  BY SpeaksItself
<1>30. PICK bad \in BOOLEAN : bad <=> BadAck(s, seg)
  OBVIOUS
<1>31. PICK z : z = processSegmentInSynSent(s, seg)
  OBVIOUS
<1>32. \/ z \in {s, x, y}
       \/ z = h /\ seg.syn /\ ~ seg.rst
       \/ z = v /\ seg.ack /\ ~ bad /\ seg.syn /\ ~ seg.rst
  <2>1. [g EXCEPT !.snd_una = seg.ackNo] = a
    BY <1>3, <1>9
  <2>2. z = CASE bad -> x
              [] ~ bad /\ seg.rst -> IF seg.ack THEN y ELSE s
              [] ~ bad /\ ~ seg.rst /\ seg.syn -> IF seg.ack THEN v ELSE h
              [] OTHER -> s
    BY <1>1, <1>2, <1>3, <1>4, <1>12, <1>14, <1>17, <1>18, <1>20, <1>22, <1>25,
       <1>27, <1>30, <1>31, <2>1 DEF processSegmentInSynSent, BadAck
  <2> QED
    BY <2>2
<1>33. CASE z \in {s, x, y}
  BY <1>26, <1>28, <1>29, <1>31, <1>33
<1>34. CASE z = h /\ seg.syn /\ ~ seg.rst
  BY <1>8, <1>23, <1>24, <1>31, <1>34
<1>35. CASE z = v /\ seg.ack /\ ~ bad /\ seg.syn /\ ~ seg.rst
  <2>1. Connects(s, n, w)
    <3>1. PICK p \in Failure :
            /\ p = IF a.failed # "no" \/ (seqLE(a.qBegin, n) /\ seqLE(n, a.qEnd))
                   THEN a.failed ELSE "discardUpTo"
            /\ d = [a EXCEPT !.qBegin = n, !.failed = p]
      BY <1>10, <1>12, discardUpToIs, Zenon
    <3>2. /\ d.st = a.st /\ d.iss = a.iss /\ d.snd_max = a.snd_max /\ d.qEnd = a.qEnd
          /\ d.send_fin = a.send_fin /\ d.snd_fin_seq = a.snd_fin_seq
          /\ d.fin_rcvd = a.fin_rcvd /\ d.timers = a.timers /\ d.snd_una = a.snd_una
          /\ d.qBegin = n /\ d.failed = p /\ d.out = a.out
      BY <1>10, <3>1 DEF Block
    <3>3. FinsSent(s) => FinsSent(d)
      BY <1>6, <1>11, <3>2 DEF FinsSent, EndsStream
    <3>4. p = IF s.failed # "no" \/ (seqLE(s.qBegin, n) /\ seqLE(n, s.qEnd))
              THEN s.failed ELSE "discardUpTo"
      BY <1>5, <1>6, <1>11, <3>1
    <3>5. Connects(s, n, d)
      BY <1>5, <1>6, <1>11, <1>13, <3>2, <3>3, <3>4 DEF Connects
    <3> QED
      BY <1>15, <3>5 DEF Connects, Emits, Sends
  <2>2. z.ev = "RCV_SYN_ACK"
    <3>1. established(w, TRUE) \in Block
      BY <1>15, establishedPushes DEF Pushes, Sends
    <3> QED
      BY <1>17, <1>35, <3>1, EventKeeps DEF EventName
  <2> QED
    BY <1>3, <1>16, <1>17, <1>30, <1>31, <1>35, <2>1, <2>2
<1> QED
  BY <1>31, <1>32, <1>33, <1>34, <1>35

LEMMA SynSentSame ==
  ASSUME NEW s \in Block, NEW seg \in TCPSegment, s.ev = "IGNORE"
  PROVE  LET t == processSegmentInSynSent(s, seg) IN t \in Block /\ t.st = s.st
<1>1. PICK t : t = processSegmentInSynSent(s, seg)
  OBVIOUS
<1>2. \/ Ignores(s, t) /\ t.ev \in {"IGNORE", "RCV_RST"}
      \/ \E g : Ignores(g, t) /\ Repeats(s, g) /\ t.ev = "RCV_SYN"
      \/ \E r, u : /\ Connects(s, seg.ackNo, r) /\ Pushes(r, u) /\ Ignores(u, t)
                   /\ t.ev = "RCV_SYN_ACK" /\ seg.ack /\ ~ BadAck(s, seg)
  BY <1>1, processSegmentInSynSentIs
<1>3. CASE Ignores(s, t)
  BY <1>1, <1>3 DEF Ignores, Keeps
<1>4. ASSUME NEW g, Ignores(g, t), Repeats(s, g)
      PROVE  t \in Block /\ t.st = s.st
  BY <1>4 DEF Ignores, Keeps, Repeats
<1>5. ASSUME NEW r, NEW u, Connects(s, seg.ackNo, r), Pushes(r, u), Ignores(u, t)
      PROVE  t \in Block /\ t.st = s.st
  BY <1>5 DEF Ignores, Keeps, Connects, Pushes, Sends
<1> QED
  BY <1>1, <1>2, <1>3, <1>4, <1>5

LEMMA MetSpeaks ==
  ASSUME NEW s, AtRest(s), Sound(s), s.st = "SYN_SENT", Order(s),
         NEW seg \in TCPSegment, seg.ack, ~ BadAck(s, seg),
         NEW w, Connects(s, seg.ackNo, w), NEW t, t = Event(established(w, TRUE), "RCV_SYN_ACK")
  PROVE  w \in Block /\ Speaks(w, t)
<1>1. s \in Block /\ s.failed = "no" /\ OnlySyn(s)
  BY DEF AtRest, Sound, Handshake
<1>2. seg.ackNo = Plus(s.iss, 1)
  BY <1>1, OnlySynAcked
<1>3. Connects(s, Plus(s.iss, 1), w)
  BY <1>2
<1>4. Order(w)
  BY <1>1, <1>3, ConnectsOrder
<1>5. w \in Block
  BY DEF Connects
<1>6. PICK v : v = established(w, TRUE)
  OBVIOUS
<1>7. Speaks(w, v)
  BY <1>4, <1>5, <1>6, OrderQueued, establishedSpeaks
<1>8. v \in Block
  BY <1>5, <1>6, establishedPushes DEF Pushes, Sends
<1>9. Speaks(v, t)
  BY <1>6, <1>8, EventMute DEF EventName
<1> QED
  BY <1>5, <1>7, <1>9, SpeaksTransitive

LEMMA ArriveSynSentLink ==
  ASSUME NEW N \in [End -> SeqNo], Fits, Going(N), NEW e \in End, NEW seg \in net[e],
         conn[e].st = "SYN_SENT",
         Finish(e, processSegmentInSynSent(conn[e], seg), net[e] \ {seg})
  PROVE  Link(N)'
<1>1. PICK s : s = conn[e]
  OBVIOUS
<1>2. /\ s \in Block /\ s.out = {} /\ s.ev = "IGNORE" /\ s.st = "SYN_SENT" /\ IInv
      /\ seg \in TCPSegment /\ AtRest(s) /\ Sound(s)
  <2>1. IInv
    BY DEF Going
  <2>2. seg \in TCPSegment
    BY <2>1 DEF IInv, TypeInv
  <2> QED
    BY <1>1, <2>1, <2>2, Rest DEF AtRest
<1>3. PICK t : t = processSegmentInSynSent(s, seg)
  OBVIOUS
<1>4. t \in Block /\ t.st = "SYN_SENT"
  BY <1>2, <1>3, SynSentSame
<1>5. PICK i \in SeqNo : i = N[e]
  OBVIOUS
<1>6. s.iss = i
  BY <1>1, <1>2, <1>5 DEF Going, Once, Live, Handshake
<1>7. ASSUME NEW f \in Far, Ready(s, f), Comes(seg, i, f)
      PROVE  Hears(s, t, nextState(t), f)
  <2>1. CASE Hushed(s, t) /\ t.ev \in {s.ev, "RCV_RST"} /\ \A g \in t.out : g \in s.out \/ g.rst
    <3>1. nextState(t) \in {"SYN_SENT", "CLOSED"}
      BY <1>2, <1>4, <2>1, IgnoredNext
    <3>2. \A g \in t.out : g.rst
      BY <1>2, <2>1
    <3> QED
      BY <1>2, <1>4, <1>7, <2>1, <3>1, <3>2, SpeaksHears DEF Synchronized, Hushed
  <2>2. ASSUME t.ev = "RCV_SYN", seg.syn, ~ seg.rst, NEW b, Greeted(s, seg, b), Hushed(b, t)
        PROVE  Hears(s, t, nextState(t), f)
    <3>1. ~ Resets(t)
      BY <1>4, <2>2 DEF Resets
    <3>2. <<"SYN_SENT", "RCV_SYN", "SYN_RCVD">> \in Transition
      BY DEF Transition
    <3>3. nextState(t) = "SYN_RCVD"
      BY <1>4, <2>2, <3>1, <3>2, nextStateIs, SMTT(60) DEF Transition
    <3> QED
      BY <1>2, <1>4, <1>7, <2>2, <3>3, GreetedHears
  <2>3. ASSUME t.ev = "RCV_SYN_ACK", seg.syn, ~ seg.rst, seg.ack, ~ BadAck(s, seg),
               NEW w, Met(s, seg, w), Connects(s, seg.ackNo, w),
               t = Event(established(w, TRUE), "RCV_SYN_ACK")
        PROVE  Hears(s, t, nextState(t), f)
    <3>1. ~ Resets(t)
      BY <1>4, <2>3 DEF Resets
    <3>2. <<"SYN_SENT", "RCV_SYN_ACK", "ESTABLISHED">> \in Transition
      BY DEF Transition
    <3>3. nextState(t) = "ESTABLISHED"
      <4>1. t.ev = "RCV_SYN_ACK"
        BY <2>3
      <4> QED
        BY <1>4, <3>1, <3>2, <4>1, nextStateIs, SMTT(60) DEF Transition
    <3>4. Order(s)
      BY <1>2, <1>7 DEF Ready, Live, Handshake
    <3>5. w \in Block /\ Speaks(w, t)
      BY <1>2, <2>3, <3>4, MetSpeaks
    <3>6. Comes(seg, s.iss, f)
      BY <1>6, <1>7
    <3> QED
      BY <1>2, <1>4, <1>7, <2>3, <3>3, <3>5, <3>6, MetHears
  <2>4. \/ /\ Hushed(s, t) /\ t.ev \in {s.ev, "RCV_RST"}
           /\ \A g \in t.out : g \in s.out \/ g.rst
        \/ /\ t.ev = "RCV_SYN" /\ seg.syn /\ ~ seg.rst
           /\ \E b : Greeted(s, seg, b) /\ Hushed(b, t)
        \/ /\ t.ev = "RCV_SYN_ACK" /\ seg.syn /\ ~ seg.rst /\ seg.ack /\ ~ BadAck(s, seg)
           /\ \E w : /\ Met(s, seg, w) /\ Connects(s, seg.ackNo, w)
                     /\ t = Event(established(w, TRUE), "RCV_SYN_ACK")
    BY <1>2, <1>3, processSegmentInSynSentSays
  <2> QED
    BY <2>1, <2>2, <2>3, <2>4
<1>8. Finish(e, t, net[e] \ {seg})
  BY <1>1, <1>3
<1> QED
  BY <1>1, <1>5, <1>7, <1>8, SegmentLink

LEMMA HandlesSame ==
  ASSUME NEW s, NEW seg, NEW t, Handles(s, seg, t)
  PROVE  t \in Block /\ t.st = s.st /\ t.send_fin = s.send_fin
<1>1. CASE Ignores(s, t)
  BY <1>1 DEF Ignores, Keeps
<1>2. CASE Discards(s, t)
  BY <1>2 DEF Discards
<1>3. CASE Processes(s, seg, t)
  <2>1. PICK g, h : Keeps(s, g) /\ Acknowledges(g, seg, h) /\ Keeps(h, t)
    BY <1>3 DEF Processes
  <2>2. g.st = s.st /\ g.send_fin = s.send_fin
    BY <2>1 DEF Keeps
  <2>3. h.st = g.st /\ h.send_fin = g.send_fin
    <3>1. CASE Sends(g, h)
      BY <3>1 DEF Sends
    <3>2. ASSUME NEW r, Acks(g, seg.ackNo, r), Answers(r, h)
          PROVE  h.st = g.st /\ h.send_fin = g.send_fin
      BY <3>2 DEF Acks, Answers, Sends
    <3> QED
      BY <2>1, <3>1, <3>2 DEF Acknowledges
  <2>4. t \in Block /\ t.st = h.st /\ t.send_fin = h.send_fin
    BY <2>1 DEF Keeps
  <2> QED
    BY <2>2, <2>3, <2>4
<1> QED
  BY <1>1, <1>2, <1>3 DEF Handles

\* A segment in SYN_RCVD acknowledges the SYN, or changes nothing that was heard.
LEMMA HandlesNext ==
  ASSUME NEW s, AtRest(s), Sound(s), s.st = "SYN_RCVD",
         NEW seg \in TCPSegment, NEW t, Handles(s, seg, t)
  PROVE  \/ nextState(t) \in {"ESTABLISHED", "CLOSE_WAIT"}
         \/ t.ev \notin {"RCV_ACK", "RCV_FIN"} /\ nextState(t) \in {"SYN_RCVD", "LISTEN", "CLOSED"}
<1>1. s \in Block /\ OnlySyn(s)
  BY DEF AtRest, Sound, Handshake
<1>2. t.st = "SYN_RCVD"
  BY HandlesSame
<1>3. CASE t.ev \in {"IGNORE", "RCV_RST", "RCV_UNEXP_SYN"}
  BY <1>2, <1>3, IgnoredNext
<1>4. CASE /\ seqLE(s.snd_una, seg.ackNo) /\ seqLE(seg.ackNo, s.snd_nxt)
           /\ ~ seqLess(s.snd_max, seg.ackNo) => t.ev \in {"RCV_ACK", "RCV_FIN"}
  <2>1. seqLE(seg.ackNo, s.snd_max)
    BY <1>1, <1>4 DEF OnlySyn
  <2>2. seg.ackNo \in SeqNo /\ s.snd_max \in SeqNo
    BY <1>1, NumbersIn, Segments
  <2>3. ~ seqLess(s.snd_max, seg.ackNo)
    BY <2>1, <2>2, OneOrder
  <2>4. t.ev \in {"RCV_ACK", "RCV_FIN"}
    BY <1>4, <2>3
  <2> QED
    BY <1>2, <2>4, ProcessedNext
<1> QED
  BY <1>3, <1>4 DEF Handles

LEMMA ArriveConnectedLink ==
  ASSUME NEW N \in [End -> SeqNo], Fits, Going(N), NEW e \in End, NEW seg \in net[e],
         conn[e].st \in Synchronized \cup {"SYN_RCVD"},
         Finish(e, processSegment1stThru8th(conn[e], seg), net[e] \ {seg})
  PROVE  Link(N)'
<1>1. PICK s : s = conn[e]
  OBVIOUS
<1>2. /\ s \in Block /\ s.out = {} /\ s.ev = "IGNORE" /\ s.failed = "no" /\ IInv
      /\ seg \in TCPSegment /\ AtRest(s) /\ Sound(s)
  <2>1. IInv
    BY DEF Going
  <2>2. seg \in TCPSegment
    BY <2>1 DEF IInv, TypeInv
  <2> QED
    BY <1>1, <2>1, <2>2, Rest DEF AtRest
<1>3. PICK t : t = processSegment1stThru8th(s, seg)
  OBVIOUS
<1>4. Handles(s, seg, t)
  BY <1>2, <1>3, processSegmentHandles
<1>5. t \in Block /\ t.st = s.st /\ t.send_fin = s.send_fin
  BY <1>4, HandlesSame
<1>6. PICK i \in SeqNo : i = N[e]
  OBVIOUS
<1>7. s.iss = i
  BY <1>1, <1>6 DEF Going, Once, Live, Handshake
<1>8. s.st \in Synchronized \cup {"SYN_RCVD"}
  BY <1>1
<1>9. PICK x : x = nextState(t)
  OBVIOUS
<1>10. s.st \in Synchronized => x \in Synchronized \cup {"CLOSED"}
  BY <1>5, <1>9, SynchronizedNext
<1>11. s.st = "SYN_RCVD" =>
         \/ x \in {"ESTABLISHED", "CLOSE_WAIT"}
         \/ t.ev \notin {"RCV_ACK", "RCV_FIN"} /\ x \in {"SYN_RCVD", "LISTEN", "CLOSED"}
  BY <1>2, <1>4, <1>9, HandlesNext
<1>12. ASSUME NEW f \in Far, Ready(s, f), Comes(seg, i, f)
       PROVE  Hears(s, t, x, f)
  <2>1. Order(s) /\ Final(s, f) /\ Takes(s, f)
    BY <1>8, <1>12 DEF Ready, Live, Handshake
  <2>2. Whole(s, f)
    <3>1. Faithful(s, f)
      BY <1>2 DEF Faithful
    <3> QED
      BY <1>8, <2>1, <3>1 DEF Takes, Whole, Live, Handshake
  <2>3. s.st = "SYN_RCVD" => OnlySyn(s)
    BY <1>2 DEF Sound, Handshake
  <2>4. Comes(seg, s.iss, f)
    BY <1>7, <1>12
  <2>5. /\ Whole(t, f) /\ Grows(s, t)
        /\ s.st = "SYN_RCVD" /\ t.ev \notin {"RCV_ACK", "RCV_FIN"} => Hushed(s, t)
    BY <1>2, <1>3, <2>1, <2>2, <2>3, <2>4, processSegmentWhole
  <2>6. s.st = "SYN_RCVD" =>
          \/ x \in Synchronized
          \/ Hushed(s, t) /\ x \in {"SYN_RCVD", "LISTEN", "CLOSED"}
    BY <1>11, <2>5 DEF Synchronized
  <2> QED
    BY <1>5, <1>8, <1>10, <1>12, <2>5, <2>6, WholeHears
<1>13. Finish(e, t, net[e] \ {seg})
  BY <1>1, <1>3
<1> QED
  BY <1>1, <1>6, <1>9, <1>12, <1>13, SegmentLink

LEMMA ArriveLink ==
  ASSUME NEW N \in [End -> SeqNo], Fits, Going(N), NEW e \in End, NEW seg \in net[e],
         Arrive(e, seg)
  PROVE  Link(N)'
<1>1. conn[e].st \in State
  <2>1. conn[e] \in Block
    BY Rest DEF Going
  <2> QED
    BY <2>1 DEF Block
<1>2. CASE conn[e].st \in {"INIT", "CLOSED"}
  <2>1. UNCHANGED <<conn, aborted>> /\ Send(e, segmentArrivalWhileClosed(seg), net[e] \ {seg})
    BY <1>2 DEF Arrive
  <2> QED
    BY <2>1, ArriveClosedLink
<1>3. CASE conn[e].st = "LISTEN"
  <2>1. PICK n \in ISS[e] : Finish(e, processSegmentInListen(conn[e], seg, n), net[e] \ {seg})
    BY <1>3 DEF Arrive
  <2> QED
    BY <1>3, <2>1, ArriveListenLink
<1>4. CASE conn[e].st = "SYN_SENT"
  <2>1. Finish(e, processSegmentInSynSent(conn[e], seg), net[e] \ {seg})
    BY <1>4 DEF Arrive
  <2> QED
    BY <1>4, <2>1, ArriveSynSentLink
<1>5. CASE conn[e].st \notin {"INIT", "CLOSED", "LISTEN", "SYN_SENT"}
  <2>1. conn[e].st \in Synchronized \cup {"SYN_RCVD"}
    BY <1>1, <1>5 DEF State, Synchronized
  <2>2. Finish(e, processSegment1stThru8th(conn[e], seg), net[e] \ {seg})
    BY <1>5 DEF Arrive
  <2> QED
    BY <2>1, <2>2, ArriveConnectedLink
<1> QED
  BY <1>2, <1>3, <1>4, <1>5

-----------------------------------------------------------------------------
(* The stream is exact. *)

LEMMA InitLink ==
  ASSUME NEW N \in [End -> SeqNo], Fits, Init
  PROVE  Link(N)
<1>1. PICK c : c = NewConnection
  OBVIOUS
<1>2. /\ c.st = "INIT" /\ c.rcvd = 0 /\ c.told = <<>> /\ c.buf = {} /\ ~ c.fin_rcvd
      /\ ~ c.fin_ack_rcvd /\ ~ c.send_fin
  BY <1>1 DEF NewConnection
<1>3. Closings(c) = {}
  <2>1. DOMAIN c.told = {}
    BY <1>2
  <2> QED
    BY <2>1 DEF Closings
<1>4. ~ Ended(c) /\ Heard(c) = 1
  BY <1>2, <1>3 DEF Ended, Heard
<1>5. ASSUME NEW e \in End
      PROVE  Linked(conn[e], conn[Peer(e)], net[e], aborted = "no", N[e], N[Peer(e)])
  <2>1. PICK q \in End : q = Peer(e)
    BY <1>5, Peers
  <2>2. conn[e] = c /\ conn[q] = c /\ net[e] = {}
    BY <1>1, <2>1 DEF Init
  <2>3. PICK f : f = [iss |-> N[q], n |-> 1, closed |-> FALSE, heard |-> 1, ended |-> FALSE]
    OBVIOUS
  <2>4. 1 \in 1 .. SeqMod \div 2 - 2 /\ 1 \in 1 .. SeqMod \div 2 - 1
    BY FitsHalf, Windows
  <2>5. f \in Far
    BY <2>1, <2>3, <2>4 DEF Far
  <2>6. /\ f.iss = N[q] /\ f.n = 1 /\ ~ f.closed /\ f.heard = 1 /\ ~ f.ended
    BY <2>3
  <2>7. f.closed = FALSE /\ f.ended = FALSE
    BY <2>3
  <2>8. Offers(c, N[q], f.n, f.closed)
    BY <2>6 DEF Offers
  <2>9. Has(c, f)
    BY <1>2, <1>3, <1>4, <2>6 DEF Has
  <2>10. Takes(c, f)
    BY <1>2, <1>4, <2>9 DEF Takes, Fresh, Live, Handshake, Synchronized
  <2>11. Ended(c) = FALSE
    BY <1>4 DEF Ended
  <2>12. Pair(conn[e], conn[q], net[e], aborted = "no", N[e], N[q], f)
    BY <1>4, <2>2, <2>6, <2>7, <2>8, <2>10, <2>11 DEF Pair
  <2> QED
    BY <2>1, <2>5, <2>12 DEF Linked
<1> QED
  BY <1>5 DEF Link

LEMMA NextLink ==
  ASSUME NEW N \in [End -> SeqNo], Fits, Going(N), [Next]_vars
  PROVE  Link(N)'
<1>1. CASE UNCHANGED vars
  <2>1. conn' = conn /\ net' = net /\ aborted' = aborted
    BY <1>1 DEF vars
  <2>2. Link(N)
    BY DEF Going
  <2> QED
    BY <2>1, <2>2 DEF Link, Linked, Pair, Offers, Takes, Has, Listens, Fresh, Acked, Heard, Ended,
                      Closings, Comes
<1>2. ASSUME NEW e \in End, OpenActive(e)
      PROVE  Link(N)'
  BY <1>2, OpenActiveLink
<1>3. ASSUME NEW e \in End, OpenPassive(e)
      PROVE  Link(N)'
  BY <1>3, OpenPassiveLink
<1>4. ASSUME NEW e \in End, CloseCommand(e)
      PROVE  Link(N)'
  BY <1>4, CloseCommandLink
<1>5. ASSUME NEW e \in End, AbortCommand(e)
      PROVE  Link(N)'
  BY <1>5, AbortCommandLink
<1>6. ASSUME NEW e \in End, NEW n \in Message[e], SendCommand(e, n)
      PROVE  Link(N)'
  BY <1>6, SendCommandLink
<1>7. ASSUME NEW e \in End, NEW seg \in net[e], Arrive(e, seg)
      PROVE  Link(N)'
  BY <1>7, ArriveLink
<1>8. ASSUME NEW e \in End, Timeout(e)
      PROVE  Link(N)'
  BY <1>8, TimeoutConnEstabLink, Timeout2MSLLink, TimeoutSynRexmitLink, TimeoutRexmitLink DEF Timeout
<1> QED
  BY <1>1, <1>2, <1>3, <1>4, <1>5, <1>6, <1>7, <1>8 DEF Next

\* Whatever is lost and whenever a timer expires, each segment on its way, and everything an
\* end has heard, still belongs to what the other one wrote (sendSegment, processSegment1stThru8th),
\* as long as every end keeps to one initial sequence number.
THEOREM LinkedAlways ==
  ASSUME NEW CONSTANT N \in [End -> SeqNo], Fits
  PROVE  Spec /\ []Once(N) => [](IInv /\ Link(N))
<1>1. Init => Link(N)
  BY InitLink
<1>2. IInv /\ IInv' /\ Once(N) /\ Once(N)' /\ Link(N) /\ [Next]_vars => Link(N)'
  BY NextLink DEF Going
<1> QED
  BY <1>1, <1>2, Inductive, PTL DEF Spec

\* What was written lies between the initial sequence number and the end of the queue.
LEMMA WrittenIs ==
  ASSUME NEW i \in SeqNo, NEW n \in 1 .. SeqMod \div 2 - 2, NEW o, o.iss = i, o.qEnd = Plus(i, n)
  PROVE  Written(o) = n - 1
<1>1. 1 \in SeqNo /\ n \in SeqNo /\ 1 <= n
  BY Windows DEF SeqNo
<1>2. PICK d : d = Dist(Plus(i, 1), Plus(i, n))
  OBVIOUS
<1>3. d = n - 1
  BY <1>1, <1>2, DistFrom
<1> QED
  BY <1>2, <1>3 DEF Written

LEMMA OnceCounted ==
  ASSUME NEW C, \A i, j \in C : i = j
  PROVE  Cardinality(C) <= 1
<1>1. CASE C = {}
  BY <1>1, FS_EmptySet
<1>2. ASSUME NEW i \in C
      PROVE  Cardinality(C) <= 1
  <2>1. C = {i}
    OBVIOUS
  <2>2. Cardinality({i}) = 1
    BY FS_Singleton
  <2> QED
    BY <2>1, <2>2
<1> QED
  BY <1>1, <1>2

LEMMA LinkExact ==
  ASSUME NEW N \in [End -> SeqNo], IInv, Link(N)
  PROVE  StreamIsExact
<1>1. SUFFICES ASSUME NEW e \in End
               PROVE  /\ conn[e].rcvd > 0 => /\ conn[e].irs = conn[Peer(e)].iss
                                             /\ conn[e].rcvd <= Written(conn[Peer(e)])
                      /\ Told(e, "PEER_CLOSED") => /\ conn[Peer(e)].send_fin
                                                   /\ conn[e].rcvd = Written(conn[Peer(e)])
                      /\ Cardinality({i \in DOMAIN conn[e].told :
                                        conn[e].told[i] = "PEER_CLOSED"}) <= 1
  BY DEF StreamIsExact
<1>2. PICK s : s = conn[e]
  OBVIOUS
<1>3. PICK p \in End : p = Peer(e)
  BY Peers
<1>4. PICK o : o = conn[p]
  OBVIOUS
<1>5. s \in Block
  BY <1>2, Rest
<1>6. PICK f \in Far : Pair(s, o, net[e], aborted = "no", N[e], N[p], f)
  BY <1>2, <1>3, <1>4 DEF Link, Linked
<1>7. f.iss = N[p] /\ Offers(o, N[p], f.n, f.closed) /\ Has(s, f)
  BY <1>6 DEF Pair, Takes
<1>8. PICK i \in SeqNo : i = N[p]
  BY <1>3
<1>9. f.n \in 1 .. SeqMod \div 2 - 2 /\ f.n \in Int /\ s.rcvd \in Nat
  BY <1>5, FarType, Windows DEF Block
<1>10. f.closed \/ f.n > 1 => o.iss = i /\ Written(o) = f.n - 1
  <2>1. f.closed \/ f.n > 1 => o.iss = i /\ o.qEnd = Plus(i, f.n)
    BY <1>7, <1>8 DEF Offers
  <2> QED
    BY <1>8, <1>9, <2>1, WrittenIs
<1>11. s.rcvd > 0 => s.irs = o.iss /\ s.rcvd <= Written(o)
  <2>1. s.rcvd > 0 => s.irs = i /\ f.n > 1 /\ s.rcvd <= f.n - 1
    BY <1>7, <1>8, <1>9 DEF Has
  <2> QED
    BY <1>9, <1>10, <2>1
<1>12. Ended(s) => o.send_fin /\ s.rcvd = Written(o)
  <2>1. Ended(s) => f.closed /\ s.rcvd = f.n - 1
    BY <1>7, <1>9 DEF Has
  <2>2. f.closed => o.send_fin
    BY <1>7 DEF Offers
  <2> QED
    BY <1>10, <2>1, <2>2
<1>13. Told(e, "PEER_CLOSED") => Ended(s)
  BY <1>2 DEF Told, Ended, Closings
<1>14. Cardinality(Closings(s)) <= 1
  BY <1>7, OnceCounted DEF Has
<1> QED
  BY <1>2, <1>3, <1>4, <1>11, <1>12, <1>13, <1>14 DEF Closings

\* The bytes of s in front of the queue were heard by o.
LEMMA AckedHeard ==
  ASSUME NEW s \in Block, NEW o \in Block, Order(s), NEW f \in Far, NEW g \in Far,
         Acked(s, f), s.snd_una # s.iss, f.heard = Heard(o), Has(o, g),
         Offers(s, s.iss, g.n, g.closed)
  PROVE  Dist(Plus(s.iss, 1), s.qBegin) <= o.rcvd
<1>1. PICK i \in SeqNo : i = s.iss
  BY NumbersIn
<1>2. PICK u \in Nat, m \in Nat, n \in Nat : Offsets(s, u, m, n)
  BY DEF Order
<1>3. PICK h \in Nat : h = SeqMod \div 2 /\ SeqMod = 2 * h
  BY Windows
<1>4. /\ u <= n + 1 /\ 1 <= n /\ n + 1 < h /\ s.snd_una = Plus(i, u) /\ s.qEnd = Plus(i, n)
      /\ s.qBegin = Plus(i, QueueFrom(u, n))
  BY <1>1, <1>2, <1>3 DEF Offsets
<1>5. f.heard \in 1 .. h - 1 /\ g.n \in 1 .. h - 2 /\ o.rcvd \in Nat
  BY <1>3, FarType DEF Block
<1>6. PICK x \in 0 .. f.heard : s.snd_una = Plus(i, x)
  BY <1>1 DEF Acked
<1>7. u \in 0 .. SeqMod \div 2 - 1 /\ x \in 0 .. SeqMod \div 2 - 1 /\ n \in 0 .. SeqMod \div 2 - 1
      /\ g.n \in 0 .. SeqMod \div 2 - 1
  BY <1>3, <1>4, <1>5, <1>6
<1>8. u = x
  BY <1>4, <1>6, <1>7, SamePlace
<1>9. u # 0
  <2>1. Plus(i, 0) = i
    BY Mod, Windows DEF Plus, SeqNo
  <2> QED
    BY <1>1, <1>4, <2>1
<1>10. Ended(o) => n = o.rcvd + 1
  <2>1. Ended(o) => s.qEnd = Plus(i, g.n) /\ o.rcvd + 1 = g.n
    BY <1>1 DEF Has, Offers
  <2>2. s.qEnd = Plus(i, g.n) => n = g.n
    BY <1>4, <1>7, SamePlace
  <2> QED
    BY <2>1, <2>2
<1>11. PICK b : b = QueueFrom(u, n)
  OBVIOUS
<1>12. b = IF u = n + 1 THEN n ELSE u
  BY <1>9, <1>11 DEF QueueFrom
<1>13. u <= IF Ended(o) THEN o.rcvd + 2 ELSE o.rcvd + 1
  BY <1>5, <1>6, <1>8 DEF Heard
<1>14. 1 <= b /\ b <= n /\ b - 1 <= o.rcvd /\ b \in Nat
  BY <1>4, <1>5, <1>9, <1>10, <1>12, <1>13
<1>15. b \in SeqNo /\ 1 \in SeqNo
  BY <1>3, <1>4, <1>14 DEF SeqNo
<1>16. PICK d : d = Dist(Plus(i, 1), Plus(i, b))
  OBVIOUS
<1>17. d = b - 1
  BY <1>14, <1>15, <1>16, DistFrom
<1> QED
  BY <1>1, <1>4, <1>11, <1>14, <1>16, <1>17

LEMMA LinkAcked ==
  ASSUME NEW N \in [End -> SeqNo], Fits, IInv, Once(N), Link(N)
  PROVE  AckedWasDelivered
<1>1. SUFFICES ASSUME NEW e \in End
               PROVE  /\ conn[e].st \in Synchronized /\ conn[e].snd_una # conn[e].iss =>
                           Dist(Plus(conn[e].iss, 1), conn[e].qBegin) <= conn[Peer(e)].rcvd
                      /\ conn[e].fin_ack_rcvd => Told(Peer(e), "PEER_CLOSED")
  BY DEF AckedWasDelivered
<1>2. PICK s : s = conn[e]
  OBVIOUS
<1>3. PICK p \in End : p = Peer(e) /\ Peer(p) = e
  BY Peers
<1>4. PICK o : o = conn[p]
  OBVIOUS
<1>5. s \in Block /\ o \in Block /\ Sound(s)
  BY <1>2, <1>4, Rest
<1>6. PICK f \in Far : Pair(s, o, net[e], aborted = "no", N[e], N[p], f)
  BY <1>2, <1>3, <1>4 DEF Link, Linked
<1>7. PICK g \in Far : Pair(o, s, net[p], aborted = "no", N[p], N[e], g)
  BY <1>2, <1>3, <1>4 DEF Link, Linked
<1>8. /\ f.heard = Heard(o) /\ f.ended = Ended(o) /\ Takes(s, f)
      /\ Has(o, g) /\ Offers(s, N[e], g.n, g.closed)
  BY <1>6, <1>7 DEF Pair, Takes
<1>9. s.st \in Synchronized => Order(s) /\ Acked(s, f) /\ s.iss = N[e]
  BY <1>2, <1>5, <1>8 DEF Sound, InOrder, Takes, Live, Once
<1>10. s.st \in Synchronized /\ s.snd_una # s.iss =>
         Dist(Plus(s.iss, 1), s.qBegin) <= o.rcvd
  BY <1>5, <1>8, <1>9, AckedHeard
<1>11. s.fin_ack_rcvd => Ended(o)
  BY <1>8 DEF Takes, Has
<1>12. Ended(o) => Told(p, "PEER_CLOSED")
  BY <1>4 DEF Told, Ended, Closings
<1> QED
  BY <1>2, <1>3, <1>4, <1>10, <1>11, <1>12

\* What processSegment1stThru8th passes up is what the peer wrote, byte for byte and once, and
\* PEER_CLOSED comes once, behind the last byte: for every size of the sequence number space,
\* whatever is written and lost, as long as what is written fits in half of that space and
\* every end keeps to one initial sequence number (selectInitialSeqNum).
THEOREM ExactAlways ==
  ASSUME NEW CONSTANT N \in [End -> SeqNo], Fits
  PROVE  Spec /\ []Once(N) => []StreamIsExact
<1>1. IInv /\ Link(N) => StreamIsExact
  BY LinkExact
<1> QED
  BY <1>1, LinkedAlways, PTL

\* What processAck drops from the send queue was passed up to the peer's application, and a FIN
\* that it takes as acknowledged was signalled there, under the same conditions.
THEOREM DeliveredAlways ==
  ASSUME NEW CONSTANT N \in [End -> SeqNo], Fits
  PROVE  Spec /\ []Once(N) => []AckedWasDelivered
<1>1. IInv /\ Once(N) /\ Link(N) => AckedWasDelivered
  BY LinkAcked
<1> QED
  BY <1>1, LinkedAlways, PTL

-----------------------------------------------------------------------------
(* Ends with one initial sequence number. *)

LEMMA FinishOnce ==
  ASSUME NEW N \in [End -> SeqNo], IInv, Once(N), NEW e \in End, NEW t \in Block,
         t.st = conn[e].st, t.st # "CLOSED", NEW rest, rest \subseteq net[e], Finish(e, t, rest),
         nextState(t) \in Live => t.iss = N[e]
  PROVE  Once(N)'
<1>1. PICK q \in End : q = Peer(e) /\ q # e /\ \A g \in End : g = e \/ g = q
  BY Peers
<1>2. PICK x : x = nextState(t)
  OBVIOUS
<1>3. PICK r : r = conn'[e]
  OBVIOUS
<1>4. Becomes(t, x, r) /\ conn'[q] = conn[q]
  BY <1>1, <1>2, <1>3, FinishIs
<1>5. r.st \in Live => r.iss = N[e]
  BY <1>2, <1>4 DEF Becomes
<1>6. conn'[q].st \in Live => conn'[q].iss = N[q]
  BY <1>4 DEF Once
<1> QED
  BY <1>1, <1>3, <1>5, <1>6 DEF Once

\* A handler that keeps the number of a connection and begins none.
LEMMA KeepsOnce ==
  ASSUME NEW N \in [End -> SeqNo], IInv, Once(N), NEW e \in End, NEW t \in Block,
         t.st = conn[e].st, t.st # "CLOSED", NEW rest, rest \subseteq net[e], Finish(e, t, rest),
         \/ nextState(t) \notin Live
         \/ conn[e].st \in Live /\ t.iss = conn[e].iss
  PROVE  Once(N)'
<1>1. nextState(t) \in Live => t.iss = N[e]
  BY DEF Once
<1> QED
  BY <1>1, FinishOnce

LEMMA NotLive ==
  /\ "INIT" \notin Live /\ "LISTEN" \notin Live /\ "CLOSED" \notin Live
  /\ {"SYN_SENT", "SYN_RCVD"} \subseteq Live /\ Synchronized \subseteq Live
  /\ "CLOSED" \notin Synchronized
BY DEF Live, Handshake, Synchronized

LEMMA OpenOnce ==
  ASSUME NEW N \in [End -> SeqNo], OneISS(N), IInv, Once(N), NEW e \in End,
         OpenActive(e) \/ OpenPassive(e)
  PROVE  Once(N)'
<1>1. PICK c : c = conn[e]
  OBVIOUS
<1>2. c.st \in {"INIT", "LISTEN"} /\ c \in Block
  BY <1>1, Rest DEF OpenActive, OpenPassive
<1>3. CASE OpenActive(e)
  <2>1. PICK n \in ISS[e] :
          Finish(e, Event(Active([conn[e] EXCEPT !.remote = TRUE], n), "OPEN_ACTIVE"), net[e])
    BY <1>3 DEF OpenActive
  <2>2. n \in SeqNo /\ n = N[e]
    BY ParamAssumption DEF SeqNo, OneISS
  <2>3. PICK r : r = [c EXCEPT !.remote = TRUE]
    OBVIOUS
  <2>4. r \in Block /\ r.st = c.st
    BY <1>2, <2>3, RemoteIs, ZenonT(60)
  <2>5. PICK a : a = Active(r, n)
    OBVIOUS
  <2>6. Begins(r, n, a)
    BY <2>2, <2>4, <2>5, ActiveBegins
  <2>7. a \in Block /\ a.st = c.st /\ a.iss = n
    BY <2>4, <2>6 DEF Begins
  <2>8. PICK t : t = Event(a, "OPEN_ACTIVE")
    OBVIOUS
  <2>9. Keeps(a, t)
    BY <2>7, <2>8, EventKeeps DEF EventName
  <2>10. t \in Block /\ t.st = c.st /\ t.iss = n
    BY <2>7, <2>9 DEF Keeps
  <2>11. Finish(e, t, net[e])
    BY <1>1, <2>1, <2>3, <2>5, <2>8
  <2> QED
    BY <1>1, <1>2, <2>2, <2>10, <2>11, FinishOnce
<1>4. CASE OpenPassive(e)
  <2>1. PICK a : a = [c EXCEPT !.active = FALSE, !.remote = FALSE]
    OBVIOUS
  <2>2. a \in Block /\ a.st = c.st
    BY <1>2, <2>1, RemoteIs, ZenonT(60)
  <2>3. PICK t : t = Event(a, "OPEN_PASSIVE")
    OBVIOUS
  <2>4. Keeps(a, t)
    BY <2>2, <2>3, EventKeeps DEF EventName
  <2>5. t \in Block /\ t.st = c.st
    BY <2>2, <2>4 DEF Keeps
  <2>6. nextState(t) = "LISTEN"
    BY <1>2, <2>2, <2>3, Row
  <2>7. Finish(e, t, net[e])
    BY <1>1, <1>4, <2>1, <2>3 DEF OpenPassive
  <2> QED
    BY <1>1, <1>2, <2>5, <2>6, <2>7, KeepsOnce, NotLive
<1> QED
  BY <1>3, <1>4

LEMMA SendCommandOnce ==
  ASSUME NEW N \in [End -> SeqNo], OneISS(N), IInv, Once(N), NEW e \in End, NEW n \in Message[e],
         SendCommand(e, n)
  PROVE  Once(N)'
<1>1. PICK c : c = conn[e]
  OBVIOUS
<1>2. c \in Block /\ n \in Nat
  BY <1>1, Rest, MessageLength
<1>3. CASE c.st = "LISTEN" /\ \E i \in ISS[e] :
             Finish(e, Event(enqueueAppData(Active(c, i), n), "SEND"), net[e])
  <2>1. PICK i \in ISS[e] : Finish(e, Event(enqueueAppData(Active(c, i), n), "SEND"), net[e])
    BY <1>3
  <2>2. i \in SeqNo /\ i = N[e]
    BY ParamAssumption DEF SeqNo, OneISS
  <2>3. PICK a : a = Active(c, i)
    OBVIOUS
  <2>4. a \in Block /\ a.st = c.st /\ a.iss = i
    <3>1. Begins(c, i, a)
      BY <1>2, <2>2, <2>3, ActiveBegins
    <3> QED
      BY <3>1 DEF Begins
  <2>5. PICK b : b = enqueueAppData(a, n)
    OBVIOUS
  <2>6. b \in Block /\ b.st = c.st /\ b.iss = i
    <3>1. Enqueues(a, n, b)
      BY <1>2, <2>4, <2>5, enqueueAppDataEnqueues
    <3> QED
      BY <2>4, <3>1 DEF Enqueues
  <2>7. PICK t : t = Event(b, "SEND")
    OBVIOUS
  <2>8. t \in Block /\ t.st = c.st /\ t.iss = i
    <3>1. Keeps(b, t)
      BY <2>6, <2>7, EventKeeps DEF EventName
    <3> QED
      BY <2>6, <3>1 DEF Keeps
  <2>9. Finish(e, t, net[e])
    BY <2>1, <2>3, <2>5, <2>7
  <2> QED
    BY <1>1, <1>3, <2>2, <2>8, <2>9, FinishOnce
<1>4. PICK b : b = enqueueAppData(c, n)
  OBVIOUS
<1>5. b \in Block /\ b.st = c.st /\ b.iss = c.iss
  <2>1. Enqueues(c, n, b)
    BY <1>2, <1>4, enqueueAppDataEnqueues
  <2> QED
    BY <2>1 DEF Enqueues
<1>6. PICK d : d = sendData(b)
  OBVIOUS
<1>7. d \in Block /\ d.st = c.st /\ d.iss = c.iss
  <2>1. Pushes(b, d)
    BY <1>5, <1>6, sendDataPushes
  <2> QED
    BY <1>5, <2>1 DEF Pushes, Sends
<1>8. ASSUME NEW a \in {b, d}, c.st \in {"SYN_SENT", "SYN_RCVD", "ESTABLISHED", "CLOSE_WAIT"},
             Finish(e, Event(a, "SEND"), net[e])
      PROVE  Once(N)'
  <2>1. PICK t : t = Event(a, "SEND")
    OBVIOUS
  <2>2. a \in Block /\ a.st = c.st /\ a.iss = c.iss
    BY <1>5, <1>7, <1>8
  <2>3. t \in Block /\ t.st = c.st /\ t.iss = c.iss
    <3>1. Keeps(a, t)
      BY <2>1, <2>2, EventKeeps DEF EventName
    <3> QED
      BY <2>2, <3>1 DEF Keeps
  <2>4. c.st \in Live /\ c.st # "CLOSED"
    BY <1>8 DEF Live, Handshake, Synchronized
  <2> QED
    BY <1>1, <1>8, <2>1, <2>3, <2>4, KeepsOnce
<1> QED
  BY <1>1, <1>3, <1>4, <1>6, <1>8 DEF SendCommand

LEMMA CloseCommandOnce ==
  ASSUME NEW N \in [End -> SeqNo], IInv, Once(N), NEW e \in End, CloseCommand(e)
  PROVE  Once(N)'
<1>1. PICK c : c = conn[e]
  OBVIOUS
<1>2. AtRest(c) /\ c \in Block /\ ~ c.send_fin
  BY <1>1, Rest DEF CloseCommand
<1>3. CASE c.st \in {"LISTEN", "SYN_SENT"} /\ Finish(e, Event(c, "CLOSE"), net[e])
  <2>1. PICK t : t = Event(c, "CLOSE")
    OBVIOUS
  <2>2. t \in Block /\ t.st = c.st
    <3>1. Keeps(c, t)
      BY <1>2, <2>1, EventKeeps DEF EventName
    <3> QED
      BY <3>1 DEF Keeps
  <2>3. nextState(t) = "CLOSED"
    BY <1>2, <1>3, <2>1, Row
  <2> QED
    BY <1>1, <1>3, <2>1, <2>2, <2>3, KeepsOnce, NotLive
<1>4. CASE c.st \in {"SYN_RCVD", "ESTABLISHED", "CLOSE_WAIT"} /\ Finish(e, process_CLOSE(c), net[e])
  <2>1. PICK t : t = process_CLOSE(c)
    OBVIOUS
  <2>2. Ends(c, t)
    BY <1>2, <2>1, processCloseEnds
  <2>3. t \in Block /\ t.st = c.st /\ t.iss = c.iss
    BY <2>2 DEF Ends
  <2>4. c.st \in Live /\ c.st # "CLOSED"
    BY <1>4 DEF Live, Handshake, Synchronized
  <2> QED
    BY <1>1, <1>4, <2>1, <2>3, <2>4, KeepsOnce
<1> QED
  BY <1>1, <1>3, <1>4 DEF CloseCommand

LEMMA AbortCommandOnce ==
  ASSUME NEW N \in [End -> SeqNo], IInv, Once(N), NEW e \in End, AbortCommand(e)
  PROVE  Once(N)'
<1>1. PICK c : c = conn[e]
  OBVIOUS
<1>2. c \in Block /\ c.st # "CLOSED"
  BY <1>1, Rest DEF AbortCommand
<1>3. PICK a : a = sendRst(c, c.snd_nxt)
  OBVIOUS
<1>4. PICK n \in SeqNo : n = c.snd_nxt
  BY <1>2, NumbersIn
<1>5. Emits(c, a)
  BY <1>2, <1>3, <1>4, sendRstEmits
<1>6. PICK b \in {a, c} : Finish(e, Event(b, "ABORT"), net[e])
  BY <1>1, <1>3 DEF AbortCommand
<1>7. b \in Block /\ b.st = c.st
  BY <1>2, <1>5, <1>6 DEF Emits, Sends
<1>8. PICK t : t = Event(b, "ABORT")
  OBVIOUS
<1>9. Keeps(b, t) /\ t.ev = "ABORT"
  BY <1>7, <1>8, EventKeeps DEF EventName
<1>10. t \in Block /\ t.st = c.st
  BY <1>7, <1>9 DEF Keeps
<1>11. nextState(t) = "CLOSED"
  BY <1>9, IgnoredNext
<1> QED
  BY <1>1, <1>2, <1>6, <1>8, <1>10, <1>11, KeepsOnce, NotLive

LEMMA ArriveOnce ==
  ASSUME NEW N \in [End -> SeqNo], OneISS(N), IInv, Once(N), NEW e \in End, NEW seg \in net[e],
         Arrive(e, seg)
  PROVE  Once(N)'
<1>1. PICK c : c = conn[e]
  OBVIOUS
<1>2. AtRest(c) /\ Sound(c) /\ c \in Block /\ c.ev = "IGNORE" /\ c.failed = "no" /\ c.st \in State
  BY <1>1, Rest DEF AtRest, Block
<1>3. seg \in TCPSegment
  BY DEF IInv, TypeInv
<1>4. PICK rest : rest = net[e] \ {seg} /\ rest \subseteq net[e]
  OBVIOUS
<1>5. CASE c.st \in {"INIT", "CLOSED"}
  <2>1. conn' = conn
    BY <1>1, <1>5 DEF Arrive
  <2> QED
    BY <2>1 DEF Once
<1>6. CASE c.st = "LISTEN"
  <2>1. PICK n \in ISS[e] : Finish(e, processSegmentInListen(c, seg, n), rest)
    BY <1>1, <1>4, <1>6 DEF Arrive
  <2>2. n \in SeqNo /\ n = N[e]
    BY ParamAssumption DEF SeqNo, OneISS
  <2>3. PICK t : t = processSegmentInListen(c, seg, n)
    OBVIOUS
  <2>4. Finish(e, t, rest)
    BY <2>1, <2>3
  <2>5. \/ Ignores(c, t) /\ t.ev = "IGNORE"
        \/ Begins(c, n, t)
    BY <1>2, <1>3, <2>2, <2>3, processSegmentInListenBegins
  <2>6. CASE Ignores(c, t) /\ t.ev = "IGNORE"
    <3>1. t \in Block /\ t.st = c.st
      BY <2>6 DEF Ignores, Keeps
    <3>2. nextState(t) = "LISTEN"
      BY <1>6, <2>6, <3>1, IgnoredNext
    <3> QED
      BY <1>1, <1>4, <1>6, <2>4, <3>1, <3>2, KeepsOnce, NotLive
  <2>7. CASE Begins(c, n, t)
    <3>1. t \in Block /\ t.st = c.st /\ t.iss = n
      BY <2>7 DEF Begins
    <3> QED
      BY <1>1, <1>4, <1>6, <2>2, <2>4, <3>1, FinishOnce
  <2> QED
    BY <2>5, <2>6, <2>7
<1>7. CASE c.st = "SYN_SENT"
  <2>1. PICK t : t = processSegmentInSynSent(c, seg)
    OBVIOUS
  <2>2. Finish(e, t, rest)
    BY <1>1, <1>4, <1>7, <2>1 DEF Arrive
  <2>3. \/ Ignores(c, t)
        \/ \E g : Ignores(g, t) /\ Repeats(c, g)
        \/ \E r, u : Connects(c, seg.ackNo, r) /\ Pushes(r, u) /\ Ignores(u, t)
    BY <1>2, <1>3, <2>1, processSegmentInSynSentIs
  <2>4. t \in Block /\ t.st = c.st /\ t.iss = c.iss
    <3>1. CASE Ignores(c, t)
      BY <3>1 DEF Ignores, Keeps
    <3>2. ASSUME NEW g, Ignores(g, t), Repeats(c, g)
          PROVE  t \in Block /\ t.st = c.st /\ t.iss = c.iss
      BY <3>2 DEF Ignores, Keeps, Repeats
    <3>3. ASSUME NEW r, NEW u, Connects(c, seg.ackNo, r), Pushes(r, u), Ignores(u, t)
          PROVE  t \in Block /\ t.st = c.st /\ t.iss = c.iss
      BY <3>3 DEF Ignores, Keeps, Connects, Pushes, Sends
    <3> QED
      BY <2>3, <3>1, <3>2, <3>3
  <2> QED
    BY <1>1, <1>4, <1>7, <2>2, <2>4, KeepsOnce, NotLive
<1>8. CASE c.st \notin {"INIT", "CLOSED", "LISTEN", "SYN_SENT"}
  <2>1. c.st \in Live
    BY <1>2, <1>8 DEF State, Live, Handshake, Synchronized
  <2>2. PICK t : t = processSegment1stThru8th(c, seg)
    OBVIOUS
  <2>3. Finish(e, t, rest)
    BY <1>1, <1>4, <1>8, <2>2 DEF Arrive
  <2>4. Handles(c, seg, t)
    BY <1>2, <1>3, <2>2, processSegmentHandles
  <2>5. t \in Block /\ t.st = c.st /\ t.iss = c.iss
    <3>1. t \in Block /\ t.st = c.st
      BY <2>4, HandlesSame
    <3>2. CASE Ignores(c, t)
      BY <3>1, <3>2 DEF Ignores, Keeps
    <3>3. CASE Discards(c, t)
      BY <3>1, <3>3 DEF Discards
    <3>4. CASE Processes(c, seg, t)
      <4>1. PICK g, h : Keeps(c, g) /\ Acknowledges(g, seg, h) /\ Keeps(h, t)
        BY <3>4 DEF Processes
      <4>2. h.iss = g.iss
        BY <4>1 DEF Acknowledges, Acks, Answers, Sends
      <4> QED
        BY <3>1, <4>1, <4>2 DEF Keeps
    <3> QED
      BY <2>4, <3>2, <3>3, <3>4 DEF Handles
  <2> QED
    BY <1>1, <1>4, <1>8, <2>1, <2>3, <2>5, KeepsOnce
<1> QED
  BY <1>5, <1>6, <1>7, <1>8

LEMMA TimeoutConnEstabOnce ==
  ASSUME NEW N \in [End -> SeqNo], IInv, Once(N), NEW e \in End, TimeoutConnEstab(e)
  PROVE  Once(N)'
<1>1. PICK c : c = conn[e]
  OBVIOUS
<1>2. Sound(c) /\ c \in Block /\ "CONN_ESTAB" \in c.timers
  BY <1>1, Rest DEF TimeoutConnEstab
<1>3. c.st \in {"SYN_RCVD", "SYN_SENT"}
  BY <1>2 DEF Sound, Handshake
<1>4. PICK f : f = Fired(e, "CONN_ESTAB")
  OBVIOUS
<1>5. f \in Block /\ f.st = c.st /\ f.iss = c.iss
  BY <1>1, <1>4, FiredIs DEF Cancels
<1>6. PICK a : a = Tell(f, "TIMED_OUT")
  OBVIOUS
<1>7. a \in Block /\ a.st = c.st /\ a.iss = c.iss
  <2>1. Keeps(f, a)
    BY <1>5, <1>6, TellKeeps DEF Indication
  <2> QED
    BY <1>5, <2>1 DEF Keeps
<1>8. Require(c.st \in {"SYN_RCVD", "SYN_SENT"}, f, "internal error") = f
  BY <1>3 DEF Require
<1>9. PICK b \in {a, f} : Finish(e, Event(b, "CONN_ESTAB"), net[e])
  BY <1>1, <1>4, <1>6, <1>8 DEF TimeoutConnEstab
<1>10. PICK t : t = Event(b, "CONN_ESTAB")
  OBVIOUS
<1>11. t \in Block /\ t.st = c.st /\ t.iss = c.iss
  <2>1. b \in Block /\ b.st = c.st /\ b.iss = c.iss
    BY <1>5, <1>7, <1>9
  <2>2. Keeps(b, t)
    BY <1>10, <2>1, EventKeeps DEF EventName
  <2> QED
    BY <2>1, <2>2 DEF Keeps
<1>12. c.st \in Live /\ c.st # "CLOSED"
  BY <1>3, NotLive
<1> QED
  BY <1>1, <1>9, <1>10, <1>11, <1>12, KeepsOnce

LEMMA Timeout2MSLOnce ==
  ASSUME NEW N \in [End -> SeqNo], IInv, Once(N), NEW e \in End, Timeout2MSL(e)
  PROVE  Once(N)'
<1>1. PICK c : c = conn[e]
  OBVIOUS
<1>2. AtRest(c) /\ Sound(c) /\ c \in Block /\ "2MSL" \in c.timers
  BY <1>1, Rest DEF Timeout2MSL
<1>3. c.st \in {"TIME_WAIT", "CLOSING"}
  BY <1>2 DEF Sound
<1>4. PICK f : f = Fired(e, "2MSL")
  OBVIOUS
<1>5. f \in Block /\ f.st = c.st /\ f.iss = c.iss
  BY <1>1, <1>4, FiredIs DEF Cancels
<1>6. PICK b : b = Require(c.st = "TIME_WAIT", f, "internal error")
  OBVIOUS
<1>7. b \in Block /\ b.st = c.st /\ b.iss = c.iss
  <2>1. PICK g : g = [f EXCEPT !.failed = "internal error"]
    OBVIOUS
  <2>2. g \in Block
    BY <1>5, <2>1, ZenonT(60) DEF Block, Failure
  <2>3. g.st = f.st /\ g.iss = f.iss
    BY <1>5, <2>1 DEF Block
  <2>4. b \in {f, g}
    BY <1>6, <2>1 DEF Require
  <2> QED
    BY <1>5, <2>2, <2>3, <2>4
<1>8. PICK t : t = Event(Tell(b, "CLOSED"), "2MSL")
  OBVIOUS
<1>9. Ignores(b, t)
  BY <1>7, <1>8, TellEventIgnores DEF Indication, EventName
<1>10. t \in Block /\ t.st = c.st /\ t.iss = c.iss
  BY <1>7, <1>9 DEF Ignores, Keeps
<1>11. Finish(e, t, net[e])
  BY <1>1, <1>4, <1>6, <1>8 DEF Timeout2MSL
<1>12. c.st \in Live /\ c.st # "CLOSED"
  BY <1>3 DEF Live, Synchronized
<1> QED
  BY <1>1, <1>10, <1>11, <1>12, KeepsOnce

LEMMA TimeoutSynRexmitOnce ==
  ASSUME NEW N \in [End -> SeqNo], IInv, Once(N), NEW e \in End, TimeoutSynRexmit(e)
  PROVE  Once(N)'
<1>1. PICK c : c = conn[e]
  OBVIOUS
<1>2. Sound(c) /\ c \in Block /\ "SYN_REXMIT" \in c.timers
  BY <1>1, Rest DEF TimeoutSynRexmit
<1>3. c.st \in {"SYN_RCVD", "SYN_SENT"}
  BY <1>2 DEF Sound, Handshake
<1>4. PICK f : f = Fired(e, "SYN_REXMIT")
  OBVIOUS
<1>5. f \in Block /\ f.st = c.st /\ f.iss = c.iss /\ "SYN_REXMIT" \notin f.timers
  BY <1>1, <1>4, FiredIs DEF Cancels
<1>6. Require(c.st \in {"SYN_RCVD", "SYN_SENT"}, f, "internal error") = f
  BY <1>3 DEF Require
<1>7. PICK t : t = SynAgain(f)
  OBVIOUS
<1>8. Finish(e, t, net[e])
  BY <1>1, <1>4, <1>6, <1>7 DEF TimeoutSynRexmit, SynAgain
<1>9. Ignores(f, t) \/ Repeats(f, t)
  BY <1>5, <1>7, SynAgainRepeats
<1>10. t \in Block /\ t.st = c.st /\ t.iss = c.iss
  BY <1>5, <1>9 DEF Ignores, Keeps, Repeats
<1>11. c.st \in Live /\ c.st # "CLOSED"
  BY <1>3, NotLive
<1> QED
  BY <1>1, <1>8, <1>10, <1>11, KeepsOnce

LEMMA TimeoutRexmitOnce ==
  ASSUME NEW N \in [End -> SeqNo], IInv, Once(N), NEW e \in End, TimeoutRexmit(e)
  PROVE  Once(N)'
<1>1. PICK c : c = conn[e]
  OBVIOUS
<1>2. Sound(c) /\ c \in Block /\ "REXMIT" \in c.timers
  BY <1>1, Rest DEF TimeoutRexmit
<1>3. c.st \in Live /\ c.st # "CLOSED"
  BY <1>2 DEF Sound, Live, Synchronized
<1>4. PICK f : f = Fired(e, "REXMIT")
  OBVIOUS
<1>5. f \in Block /\ f.st = c.st /\ f.iss = c.iss /\ "REXMIT" \notin f.timers
  BY <1>1, <1>4, FiredIs DEF Cancels
<1>6. PICK t : t = processRexmitTimer(f)
  OBVIOUS
<1>7. Finish(e, t, net[e])
  BY <1>4, <1>6 DEF TimeoutRexmit
<1>8. Retransmits(f, t)
  BY <1>5, <1>6, processRexmitTimerRetransmits
<1>9. t \in Block /\ t.st = c.st /\ t.iss = c.iss
  BY <1>5, <1>8 DEF Retransmits, Ignores, Keeps, Sends
<1> QED
  BY <1>1, <1>3, <1>7, <1>9, KeepsOnce

LEMMA NextOnce ==
  ASSUME NEW N \in [End -> SeqNo], OneISS(N), IInv, Once(N), [Next]_vars
  PROVE  Once(N)'
<1>1. CASE UNCHANGED vars
  BY <1>1 DEF vars, Once
<1>2. ASSUME NEW e \in End, OpenActive(e) \/ OpenPassive(e)
      PROVE  Once(N)'
  BY <1>2, OpenOnce
<1>3. ASSUME NEW e \in End, CloseCommand(e)
      PROVE  Once(N)'
  BY <1>3, CloseCommandOnce
<1>4. ASSUME NEW e \in End, AbortCommand(e)
      PROVE  Once(N)'
  BY <1>4, AbortCommandOnce
<1>5. ASSUME NEW e \in End, NEW n \in Message[e], SendCommand(e, n)
      PROVE  Once(N)'
  BY <1>5, SendCommandOnce
<1>6. ASSUME NEW e \in End, NEW seg \in net[e], Arrive(e, seg)
      PROVE  Once(N)'
  BY <1>6, ArriveOnce
<1>7. ASSUME NEW e \in End, Timeout(e)
      PROVE  Once(N)'
  BY <1>7, TimeoutConnEstabOnce, Timeout2MSLOnce, TimeoutSynRexmitOnce, TimeoutRexmitOnce DEF Timeout
<1> QED
  BY <1>1, <1>2, <1>3, <1>4, <1>5, <1>6, <1>7 DEF Next

\* An end with one initial sequence number to choose keeps to it (selectInitialSeqNum): the
\* condition of ExactAlways and DeliveredAlways is then met by every run.
THEOREM OnceAlways ==
  ASSUME NEW CONSTANT N \in [End -> SeqNo], OneISS(N)
  PROVE  Spec => []Once(N)
<1>1. Init => Once(N)
  BY NotLive DEF Init, Once, NewConnection
<1>2. IInv /\ Once(N) /\ [Next]_vars => Once(N)'
  BY NextOnce
<1> QED
  BY <1>1, <1>2, Inductive, PTL DEF Spec

\* The stream is exact in every run of ends with one initial sequence number each.
THEOREM ExactWithOneISS ==
  ASSUME NEW CONSTANT N \in [End -> SeqNo], OneISS(N), Fits
  PROVE  Spec => []StreamIsExact
BY OnceAlways, ExactAlways, PTL

\* What is acknowledged was delivered in every run of ends with one initial sequence number each.
THEOREM DeliveredWithOneISS ==
  ASSUME NEW CONSTANT N \in [End -> SeqNo], OneISS(N), Fits
  PROVE  Spec => []AckedWasDelivered
BY OnceAlways, DeliveredAlways, PTL

=============================================================================
