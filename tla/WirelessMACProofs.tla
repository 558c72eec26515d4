--------------------------- MODULE WirelessMACProofs ---------------------------
(***************************************************************************)
(* For any number of stations, whoever hears whom, and for any times,      *)
(* contention windows and retry limit: no assertion of the medium access   *)
(* fails, every node counts right the frames it hears, a frame that is     *)
(* taken for acknowledged has been received, and what is received from a   *)
(* node is in its order and each frame once.                               *)
(***************************************************************************)
EXTENDS WirelessMAC, FiniteSetTheorems, FunctionTheorems, SequenceTheorems, TLAPS

NodeState ==
  [ok : BOOLEAN, state : State, queue : Seq(Frame), retry : 0 .. retryLimit, timeToSend : Nat,
   rx : Nat, input : Frame \cup AckFrame \cup {None}, source : Node \cup {None},
   ackReceived : BOOLEAN, ackTo : Node \cup {None}, tmr : [Timer -> Nat \cup {Off}],
   sequenceNumber : Nat, seen : [Node -> Nat], idleDest : SUBSET Node]

\* The queue holds what a state is about, and only a frame that somebody acknowledges is
\* awaited or sent again.
QueueRight(s) ==
  /\ s.state \in {"Backoff", "BackoffReceive", "Send", "AwaitACK", "AwaitACKReceive"} => s.queue # <<>>
  /\ s.state \in {"AwaitACK", "AwaitACKReceive"} => s.queue[1].addr1 # Broadcast /\ ~ s.ackReceived
  /\ s.retry > 0 => s.queue # <<>> /\ s.queue[1].addr1 # Broadcast

\* A timer runs only in the state that it belongs to, and a node sends one thing at a time.
TimersRight(s) ==
  /\ s.tmr["backoff"] # Off <=> s.state = "Backoff"
  /\ s.tmr["endSendData"] # Off <=> s.state = "Send"
  /\ s.tmr["sendAck"] # Off \/ s.tmr["endSendAck"] # Off =>
       s.state \in {"Receive", "BackoffReceive"} /\ s.input = None
  /\ s.tmr["sendAck"] = Off \/ s.tmr["endSendAck"] = Off
  /\ s.tmr["awaitAck"] # Off => s.state \in {"AwaitACK", "AwaitACKReceive"}
  /\ s.idleDest # {} => s.state = "Send" \/ s.tmr["endSendAck"] # Off

\* What is being taken in is the only frame in the air, and what was interrupted can go on.
SensesRight(s) ==
  /\ s.input # None => s.state \in {"Receive", "BackoffReceive", "AwaitACKReceive"} /\ s.rx = 1
  /\ s.state \in {"Idle", "AwaitACK"} => s.rx = 0
  /\ s.state = "Backoff" /\ s.rx > 0 => s.tmr["backoff"] < RXTXTURNAROUND
  /\ s.state = "Backoff" => s.tmr["backoff"] <= s.timeToSend /\ s.timeToSend > 0

Good(s) == s \in NodeState /\ s.ok /\ QueueRight(s) /\ TimersRight(s) /\ SensesRight(s)

Sending == {"backoff", "sendAck", "endSendAck", "endSendData"}

\* A signal belongs to what its sender has just begun or ended: the sender can send nothing
\* before time passes, when the signal has arrived.
WireRight ==
  \A sig \in wire :
    /\ sig \in [from : Node, to : Node, frame : Frame \cup AckFrame \cup {None}]
    /\ \A t \in Sending : node[sig.from].tmr[t] # 0

NodesInv == node \in [Node -> NodeState] /\ (\A n \in Node : Good(node[n])) /\ WireRight

\* The nodes of whose frames n has heard the start and not the end.
Audible(n) ==
  {m \in Node : \/ n \in node[m].idleDest /\ \A sig \in wire : ~ (sig.from = m /\ sig.to = n)
                \/ Signal(m, n, None) \in wire}

Starts(sig) == sig.frame # None

\* Each node counts what it hears; a start on its way is its sender's only signal to the node.
AirInv ==
  /\ \A n \in Node : node[n].rx = Cardinality(Audible(n))
  /\ \A sig \in wire : Starts(sig) <=> sig.to \in node[sig.from].idleDest
  /\ \A sig, other \in wire : sig.from = other.from /\ sig.to = other.to => sig = other

-----------------------------------------------------------------------------
\* What the functions of a node's state return.

LEMMA Fields ==
  ASSUME NEW s \in NodeState
  PROVE  /\ s.ok \in BOOLEAN /\ s.state \in State /\ s.queue \in Seq(Frame)
         /\ s.retry \in 0 .. retryLimit /\ s.timeToSend \in Nat /\ s.rx \in Nat
         /\ s.input \in Frame \cup AckFrame \cup {None} /\ s.source \in Node \cup {None}
         /\ s.ackReceived \in BOOLEAN /\ s.ackTo \in Node \cup {None}
         /\ s.tmr \in [Timer -> Nat \cup {Off}] /\ s.sequenceNumber \in Nat
         /\ s.seen \in [Node -> Nat] /\ s.idleDest \in SUBSET Node
  BY DEF NodeState

\* Nothing is heard, sent or awaited.
Quiet(s) ==
  /\ s \in NodeState /\ s.ok /\ s.rx = 0 /\ s.idleDest = {}
  /\ \A x \in Timer : s.tmr[x] = Off
  /\ s.retry > 0 => s.queue # <<>> /\ s.queue[1].addr1 # Broadcast

\* The node is idle or has begun to wait for its turn.
Settled(t) ==
  /\ t \in NodeState /\ t.ok /\ t.state \in {"Idle", "Backoff"} /\ t.rx = 0 /\ t.idleDest = {}
  /\ \A x \in Timer \ {"backoff"} : t.tmr[x] = Off
  /\ t.state = "Backoff" => t.queue # <<>> /\ t.tmr["backoff"] = t.timeToSend /\ t.timeToSend > 0
  /\ t.state = "Idle" => t.tmr["backoff"] = Off
  /\ t.retry > 0 => t.queue # <<>> /\ t.queue[1].addr1 # Broadcast

LEMMA Product ==
  ASSUME NEW i \in Nat, NEW j \in Nat
  PROVE  i * j \in Nat
  OBVIOUS

LEMMA Slots ==
  ASSUME NEW i \in Nat, NEW j \in Nat \ {0}
  PROVE  (i \div j) * j \in Nat /\ (i \div j) * j <= i
  OBVIOUS

LEMMA TimeToSendType ==
  ASSUME NEW s \in NodeState, NEW v \in TimeToSend(s)
  PROVE  v \in Nat /\ v > 0
<1>1. CASE s.timeToSend # 0
  <2>1. v = s.timeToSend /\ s.timeToSend \in Nat
    BY <1>1, Fields DEF TimeToSend
  <2> QED  BY <1>1, <2>1
<1>2. CASE ~ (s.timeToSend # 0)
  <2>1. PICK k \in 0 .. CW[s.retry] : v = DIFS + k * SLOTTIME
    BY <1>2 DEF TimeToSend
  <2>2. k \in Nat /\ SLOTTIME \in Nat /\ DIFS \in Nat /\ DIFS > 0
    BY ParamAssumption
  <2>3. k * SLOTTIME \in Nat
    BY <2>2, Product
  <2> QED  BY <2>1, <2>2, <2>3
<1> QED  BY <1>1, <1>2

LEMMA StartBackoffSettles ==
  ASSUME NEW s, Quiet(s), s.queue # <<>>, NEW t \in StartBackoff(s)
  PROVE  Settled(t) /\ t.input = s.input
<1>1. s \in NodeState /\ s.ok /\ s.tmr["backoff"] = Off
  BY DEF Quiet, Timer
<1>2. PICK v \in TimeToSend(s) :
        t = [Asserted(s, s.tmr["backoff"] = Off /\ s.queue # <<>>)
               EXCEPT !.state = "Backoff", !.timeToSend = v, !.tmr["backoff"] = v]
  BY DEF StartBackoff
<1>3. Asserted(s, s.tmr["backoff"] = Off /\ s.queue # <<>>) = s
  BY <1>1 DEF Asserted, NodeState
<1>4. t = [s EXCEPT !.state = "Backoff", !.timeToSend = v, !.tmr["backoff"] = v]
  BY <1>2, <1>3
<1>5. v \in Nat /\ v > 0
  BY <1>1, TimeToSendType
<1>6. PICK f : f = [s.tmr EXCEPT !["backoff"] = v]
  OBVIOUS
<1>7. /\ f \in [Timer -> Nat \cup {Off}] /\ f["backoff"] = v
      /\ \A x \in Timer \ {"backoff"} : f[x] = s.tmr[x]
  BY <1>1, <1>5, <1>6, Fields DEF Timer
<1>8. t = [s EXCEPT !.state = "Backoff", !.timeToSend = v, !.tmr = f]
  BY <1>4, <1>6
<1>9. "Backoff" \in State
  BY DEF State
<1>10. t \in NodeState /\ t.state = "Backoff" /\ t.timeToSend = v /\ t.tmr = f
  BY <1>1, <1>5, <1>7, <1>8, <1>9 DEF NodeState
<1>11. /\ t.ok = s.ok /\ t.queue = s.queue /\ t.rx = s.rx /\ t.idleDest = s.idleDest
       /\ t.retry = s.retry /\ t.input = s.input
  BY <1>1, <1>8 DEF NodeState
<1> QED  BY <1>1, <1>5, <1>7, <1>10, <1>11 DEF Quiet, Settled

LEMMA ChkOutputSettles ==
  ASSUME NEW s, Quiet(s), NEW t \in chkOutputBuffer(s)
  PROVE  Settled(t) /\ t.input = s.input
<1>1. PICK i : i = [s EXCEPT !.state = "Idle"]
  OBVIOUS
<1>2. s \in NodeState /\ "Idle" \in State
  BY DEF Quiet, State
<1>3. /\ i \in NodeState /\ i.state = "Idle" /\ i.ok = s.ok /\ i.queue = s.queue /\ i.rx = s.rx
      /\ i.idleDest = s.idleDest /\ i.retry = s.retry /\ i.tmr = s.tmr /\ i.input = s.input
  BY <1>1, <1>2 DEF NodeState
<1>4. Quiet(i)
  BY <1>3 DEF Quiet
<1>5. CASE s.queue = <<>>
  <2>1. t = i
    BY <1>1, <1>5 DEF chkOutputBuffer
  <2> QED  BY <1>3, <1>4, <2>1 DEF Quiet, Settled, Timer
<1>6. CASE s.queue # <<>>
  <2>1. t \in StartBackoff(i)
    BY <1>1, <1>6 DEF chkOutputBuffer
  <2> QED  BY <1>3, <1>4, <1>6, <2>1, StartBackoffSettles
<1> QED  BY <1>5, <1>6

LEMMA NextStateSettles ==
  ASSUME NEW s, Quiet(s), s.state \in {"Receive", "BackoffReceive"},
         s.state = "BackoffReceive" => s.queue # <<>>, NEW t \in changeNextState(s)
  PROVE  Settled(t) /\ t.input = s.input
<1>1. CASE s.state = "BackoffReceive"
  <2>1. t \in StartBackoff(s)
    BY <1>1 DEF changeNextState
  <2> QED  BY <1>1, <2>1, StartBackoffSettles
<1>2. CASE s.state = "Receive"
  <2>1. t \in chkOutputBuffer(Asserted(s, s.state = "Receive"))
    BY <1>2 DEF changeNextState
  <2>2. Asserted(s, s.state = "Receive") = s
    BY <1>2 DEF Asserted, NodeState, Quiet
  <2> QED  BY <2>1, <2>2, ChkOutputSettles
<1> QED  BY <1>1, <1>2

\* A settled node is as it should be when it has no input.
LEMMA SettledGood ==
  ASSUME NEW s, Settled(s), NEW t, t = NoInput(s)
  PROVE  Good(t) /\ t.rx = 0 /\ t.idleDest = {} /\ \A x \in Timer : t.tmr[x] # 0
<1>1. s \in NodeState
  BY DEF Settled
<1>2. /\ t \in NodeState /\ t.input = None
  BY <1>1 DEF NoInput, NodeState
<1>3. /\ t.ok = s.ok /\ t.state = s.state /\ t.queue = s.queue /\ t.rx = s.rx
      /\ t.idleDest = s.idleDest /\ t.retry = s.retry /\ t.tmr = s.tmr /\ t.timeToSend = s.timeToSend
  BY <1>1 DEF NoInput, NodeState
<1>4. t.timeToSend \in Nat
  BY <1>2, Fields
<1>5. QueueRight(t)
  BY <1>3 DEF Settled, QueueRight
<1>6. TimersRight(t)
  <2>1. t.state = "Backoff" => t.tmr["backoff"] # Off
    BY <1>3, <1>4 DEF Settled, Off
  <2> QED  BY <1>2, <1>3, <2>1 DEF Settled, TimersRight, Timer
<1>7. SensesRight(t)
  BY <1>2, <1>3, <1>4 DEF Settled, SensesRight
<1>8. \A x \in Timer : t.tmr[x] # 0
  <2>1. \A x \in Timer \ {"backoff"} : t.tmr[x] # 0
    BY <1>3 DEF Settled, Off
  <2>2. t.tmr["backoff"] # 0
    BY <1>3, <1>4 DEF Settled, Off
  <2> QED  BY <2>1, <2>2
<1> QED  BY <1>2, <1>3, <1>5, <1>6, <1>7, <1>8 DEF Settled, Good

LEMMA PrepareQuiet ==
  ASSUME NEW s, s \in NodeState, s.ok, s.rx = 0, s.idleDest = {},
         \A x \in Timer : s.tmr[x] = Off
  PROVE  Quiet(prepareNextFrame(s))
<1>1. PICK t : t = prepareNextFrame(s)
  OBVIOUS
<1>2. PICK q : q = IF s.queue = <<>> THEN <<>> ELSE Tail(s.queue)
  OBVIOUS
<1>3. q \in Seq(Frame)
  <2>1. s.queue \in Seq(Frame)
    BY Fields
  <2> QED  BY <1>2, <2>1
<1>4. t = [s EXCEPT !.queue = q, !.retry = 0, !.timeToSend = 0]
  BY <1>1, <1>2 DEF prepareNextFrame
<1>5. 0 \in 0 .. retryLimit /\ 0 \in Nat
  BY ParamAssumption
<1>6. /\ t \in NodeState /\ t.retry = 0
  BY <1>3, <1>4, <1>5 DEF NodeState
<1>7. /\ t.ok = s.ok /\ t.rx = s.rx /\ t.idleDest = s.idleDest /\ t.tmr = s.tmr
  BY <1>4 DEF NodeState
<1>8. ~ (t.retry > 0)
  BY <1>6
<1> QED  BY <1>1, <1>6, <1>7, <1>8 DEF Quiet

\* An interrupted wait keeps what is still to be waited for, and DIFS.
LEMMA Interrupted ==
  ASSUME NEW s \in NodeState, s.ok, s.tmr["backoff"] \in Nat, s.tmr["backoff"] <= s.timeToSend,
         s.timeToSend > 0
  PROVE  \E v \in Nat : contentionInterrupted(s) = [s EXCEPT !.timeToSend = v]
<1>1. PICK e, w, b : e = s.timeToSend - b /\ w = s.timeToSend /\ b = s.tmr["backoff"]
  OBVIOUS
<1>2. w \in Nat /\ b \in Nat /\ e \in Nat /\ e <= w
  BY <1>1, Fields
<1>3. Asserted(s, s.timeToSend > 0) = s
  BY DEF Asserted, NodeState
<1>4. contentionInterrupted(s)
        = [s EXCEPT !.timeToSend = IF e > DIFS THEN w - ((e - DIFS) \div SLOTTIME) * SLOTTIME ELSE w]
  BY <1>1, <1>3 DEF contentionInterrupted
<1>5. CASE e > DIFS
  <2>1. e - DIFS \in Nat /\ SLOTTIME \in Nat \ {0} /\ e - DIFS <= w
    BY <1>2, <1>5, ParamAssumption
  <2>2. ((e - DIFS) \div SLOTTIME) * SLOTTIME \in Nat /\ ((e - DIFS) \div SLOTTIME) * SLOTTIME <= e - DIFS
    BY <2>1, Slots
  <2>3. w - ((e - DIFS) \div SLOTTIME) * SLOTTIME \in Nat
    BY <1>2, <2>1, <2>2
  <2> QED  BY <1>4, <1>5, <2>3
<1>6. CASE ~ (e > DIFS)
  BY <1>2, <1>4, <1>6
<1> QED  BY <1>5, <1>6

-----------------------------------------------------------------------------
\* From one good state to another: r frames are heard, and no timer is set to 0.

Turns(s, r, t) ==
  /\ Good(t) /\ t.rx = r /\ t.idleDest = s.idleDest
  /\ \A x \in Timer : t.tmr[x] = 0 => s.tmr[x] = 0

Sig == [from : Node, to : Node, frame : Frame \cup AckFrame \cup {None}]

\* In a state in which the node neither sends nor awaits anything, and takes nothing in.
LEMMA QuietWhenIdle ==
  ASSUME NEW s, Good(s), s.state = "Idle"
  PROVE  Quiet(s) /\ s.input = None
<1>1. s \in NodeState /\ s.ok /\ s.rx = 0 /\ s.input = None
  BY DEF Good, SensesRight
<1>2. \A x \in Timer : s.tmr[x] = Off
  BY DEF Good, TimersRight, Timer
<1>3. s.idleDest = {}
  BY <1>2 DEF Good, TimersRight, Timer
<1> QED  BY <1>1, <1>2, <1>3 DEF Quiet, Good, QueueRight

\* The settled state after a quiet one.
LEMMA SettledTurns ==
  ASSUME NEW s, s.idleDest = {}, NEW u, Settled(u)
  PROVE  Turns(s, 0, NoInput(u)) /\ (u.input = None => Turns(s, 0, u))
<1>1. PICK t : t = NoInput(u)
  OBVIOUS
<1>2. Good(t) /\ t.rx = 0 /\ t.idleDest = {} /\ \A x \in Timer : t.tmr[x] # 0
  BY <1>1, SettledGood
<1>3. Turns(s, 0, t)
  BY <1>2 DEF Turns
<1>4. u.input = None => NoInput(u) = u
  BY DEF NoInput, Settled, NodeState
<1> QED  BY <1>1, <1>3, <1>4

\* Another frame is queued: the ready one stays first.
LEMMA Queued ==
  ASSUME NEW q \in Seq(Frame), NEW f \in Frame, NEW p,
         p = IF Len(q) <= maxQueueSize THEN Append(q, f)
             ELSE <<Head(q)>> \o Append(SubSeq(q, 3, Len(q)), f)
  PROVE  p \in Seq(Frame) /\ p # <<>> /\ (q # <<>> => p[1] = q[1])
<1>0. Len(q) \in Nat /\ maxQueueSize \in Nat \ {0}
  BY ParamAssumption
<1>1. CASE Len(q) <= maxQueueSize
  <2>1. p = Append(q, f)
    BY <1>1
  <2> QED  BY <2>1
<1>2. CASE ~ (Len(q) <= maxQueueSize)
  <2>1. Len(q) > 1
    BY <1>0, <1>2
  <2>2. PICK r : r = SubSeq(q, 3, Len(q))
    OBVIOUS
  <2>3. r \in Seq(Frame)
    <3>1. \A i \in 3 .. Len(q) : q[i] \in Frame
      BY <1>0, ElementOfSeq
    <3> QED  BY <1>0, <2>2, <3>1, SubSeqProperties
  <2>4. PICK a, b : a = <<Head(q)>> /\ b = Append(r, f)
    OBVIOUS
  <2>5. a \in Seq(Frame) /\ Len(a) = 1 /\ a[1] = q[1] /\ b \in Seq(Frame) /\ Len(b) \in Nat
    BY <2>1, <2>3, <2>4
  <2>6. p = a \o b
    BY <1>2, <2>2, <2>4
  <2>7. p \in Seq(Frame) /\ Len(p) = 1 + Len(b) /\ p[1] = a[1]
    <3>1. p \in Seq(Frame) /\ Len(p) = Len(a) + Len(b)
      BY <2>5, <2>6, ConcatProperties
    <3>4. p[1] = a[1]
      <4>1. ASSUME NEW S, NEW c \in Seq(S), NEW d \in Seq(S), Len(c) = 1  PROVE (c \o d)[1] = c[1]
        <5>1. \A i \in 1 .. Len(c) + Len(d) : (c \o d)[i] = IF i <= Len(c) THEN c[i] ELSE d[i - Len(c)]
          BY ConcatProperties, Zenon
        <5>2. Len(d) \in Nat
          BY LenProperties
        <5>3. 1 \in 1 .. Len(c) + Len(d) /\ 1 <= Len(c)
          BY <4>1, <5>2
        <5> QED  BY <5>1, <5>3, Zenon
      <4> QED  BY <2>5, <2>6, <4>1
    <3> QED  BY <2>5, <3>1, <3>4
  <2>8. p # <<>>
    BY <2>5, <2>7
  <2> QED  BY <2>5, <2>7, <2>8
<1> QED  BY <1>1, <1>2

\* insertFrame and incrementSequenceNumber change nothing that a good state is about.
LEMMA InsertGood ==
  ASSUME NEW s, Good(s), NEW f \in Frame
  PROVE  Turns(s, s.rx, insertFrame(incrementSequenceNumber(s), f))
<1>1. PICK t : t = insertFrame(incrementSequenceNumber(s), f)
  OBVIOUS
<1>2. s \in NodeState /\ s.queue \in Seq(Frame) /\ s.sequenceNumber \in Nat
  BY Fields DEF Good
<1>a. PICK p : p = IF Len(s.queue) <= maxQueueSize THEN Append(s.queue, f)
                   ELSE <<Head(s.queue)>> \o Append(SubSeq(s.queue, 3, Len(s.queue)), f)
  OBVIOUS
<1>3. PICK c : c = (s.sequenceNumber + 1) % 4096
  OBVIOUS
<1>4. p \in Seq(Frame) /\ p # <<>> /\ (s.queue # <<>> => p[1] = s.queue[1])
  <2>1. ASSUME NEW q \in Seq(Frame), q = s.queue
        PROVE  p \in Seq(Frame) /\ p # <<>> /\ (q # <<>> => p[1] = q[1])
    BY <1>a, <2>1, Queued
  <2> QED  BY <1>2, <2>1
<1>5. c \in Nat
  BY <1>2, <1>3
<1>6. PICK i : i = [s EXCEPT !.sequenceNumber = c]
  OBVIOUS
<1>7. incrementSequenceNumber(s) = i /\ i.queue = s.queue
  BY <1>2, <1>3, <1>6 DEF incrementSequenceNumber, NodeState
<1>8. t = [s EXCEPT !.sequenceNumber = c, !.queue = p]
  BY <1>1, <1>a, <1>6, <1>7 DEF insertFrame
<1>9. t \in NodeState /\ t.queue = p
  BY <1>2, <1>4, <1>5, <1>8 DEF NodeState
<1>10. /\ t.ok = s.ok /\ t.state = s.state /\ t.rx = s.rx /\ t.idleDest = s.idleDest
       /\ t.retry = s.retry /\ t.tmr = s.tmr /\ t.timeToSend = s.timeToSend /\ t.input = s.input
       /\ t.ackReceived = s.ackReceived
  BY <1>2, <1>8 DEF NodeState
<1>11. QueueRight(t)
  BY <1>4, <1>9, <1>10 DEF Good, QueueRight
<1>12. TimersRight(t) /\ SensesRight(t)
  BY <1>10 DEF Good, TimersRight, SensesRight
<1> QED  BY <1>1, <1>9, <1>10, <1>11, <1>12 DEF Good, Turns

\* The start of a frame.
LEMMA TakeInGood ==
  ASSUME NEW s, Good(s), NEW sig \in Sig, sig.frame # None, NEW next,
         (s.state = "Idle" /\ next = "Receive") \/ (s.state = "AwaitACK" /\ next = "AwaitACKReceive")
  PROVE  Turns(s, s.rx + 1, TakeIn([s EXCEPT !.rx = @ + 1], sig, next))
<1>1. PICK t : t = TakeIn([s EXCEPT !.rx = @ + 1], sig, next)
  OBVIOUS
<1>2. s \in NodeState /\ s.ok /\ s.rx = 0 /\ s.tmr["backoff"] = Off /\ s.input = None
  BY DEF Good, TimersRight, SensesRight
<1>3. PICK h : h = [s EXCEPT !.rx = 1]
  OBVIOUS
<1>4. h \in NodeState /\ h.ok = s.ok /\ h.tmr = s.tmr /\ h.input = s.input
  BY <1>2, <1>3 DEF NodeState
<1>5. [s EXCEPT !.rx = @ + 1] = h
  BY <1>2, <1>3
<1>6. Asserted(h, h.tmr["backoff"] = Off /\ h.input = None) = h
  BY <1>2, <1>4 DEF Asserted, NodeState
<1>7. t = [h EXCEPT !.input = sig.frame, !.source = sig.from, !.state = next]
  BY <1>1, <1>5, <1>6 DEF TakeIn
<1>8. t = [s EXCEPT !.rx = 1, !.input = sig.frame, !.source = sig.from, !.state = next]
  BY <1>3, <1>7
<1>9. next \in State /\ sig.from \in Node /\ sig.frame \in Frame \cup AckFrame \cup {None}
  BY DEF State, Sig
<1>10. t \in NodeState /\ t.rx = 1 /\ t.input = sig.frame /\ t.state = next
  BY <1>2, <1>8, <1>9 DEF NodeState
<1>11. /\ t.ok = s.ok /\ t.queue = s.queue /\ t.idleDest = s.idleDest /\ t.retry = s.retry
       /\ t.tmr = s.tmr /\ t.ackReceived = s.ackReceived
  BY <1>2, <1>8 DEF NodeState
<1>12. QueueRight(t)
  BY <1>10, <1>11 DEF Good, QueueRight
<1>13. TimersRight(t)
  BY <1>2, <1>10, <1>11 DEF Good, TimersRight
<1>14. SensesRight(t)
  BY <1>10 DEF SensesRight
<1>15. Good(t)
  BY <1>2, <1>10, <1>11, <1>12, <1>13, <1>14 DEF Good
<1>16. t.rx = s.rx + 1
  BY <1>2, <1>10
<1> QED  BY <1>1, <1>11, <1>15, <1>16 DEF Turns

\* The node waits for its turn: it is too late to turn around, or the wait is interrupted.
LEMMA LateGood ==
  ASSUME NEW s, Good(s), s.state = "Backoff", s.tmr["backoff"] < RXTXTURNAROUND, NEW from \in Node
  PROVE  Turns(s, s.rx + 1, [[s EXCEPT !.rx = @ + 1] EXCEPT !.source = from])
<1>1. PICK r : r = s.rx + 1
  OBVIOUS
<1>2. s \in NodeState /\ r \in Nat /\ s.input = None
  BY <1>1, Fields DEF Good, SensesRight
<1>3. PICK t : t = [s EXCEPT !.rx = r, !.source = from]
  OBVIOUS
<1>4. t \in NodeState /\ t.rx = r
  BY <1>2, <1>3 DEF NodeState
<1>5. /\ t.ok = s.ok /\ t.state = s.state /\ t.queue = s.queue /\ t.idleDest = s.idleDest
      /\ t.retry = s.retry /\ t.input = s.input /\ t.timeToSend = s.timeToSend
      /\ t.tmr = s.tmr /\ t.ackReceived = s.ackReceived
  BY <1>2, <1>3 DEF NodeState
<1>6. QueueRight(t) /\ TimersRight(t)
  BY <1>5 DEF Good, QueueRight, TimersRight
<1>7. SensesRight(t)
  BY <1>2, <1>5 DEF Good, SensesRight
<1>8. Turns(s, r, t)
  BY <1>4, <1>5, <1>6, <1>7 DEF Good, Turns
<1>9. [[s EXCEPT !.rx = @ + 1] EXCEPT !.source = from] = t
  BY <1>1, <1>3
<1> QED  BY <1>1, <1>8, <1>9

LEMMA InterruptGood ==
  ASSUME NEW s, Good(s), s.state = "Backoff", ~ (s.tmr["backoff"] < RXTXTURNAROUND),
         NEW sig \in Sig, sig.frame # None
  PROVE  Turns(s, s.rx + 1, TakeIn([contentionInterrupted([s EXCEPT !.rx = @ + 1])
                                      EXCEPT !.tmr["backoff"] = Off], sig, "BackoffReceive"))
<1>1. /\ s \in NodeState /\ s.ok /\ s.rx \in Nat /\ s.input = None
      /\ s.tmr \in [Timer -> Nat \cup {Off}] /\ s.tmr["backoff"] # Off
      /\ s.tmr["backoff"] <= s.timeToSend /\ s.timeToSend > 0
  BY Fields DEF Good, SensesRight, TimersRight
<1>2. s.rx = 0
  BY <1>1 DEF Good, SensesRight
<1>3. s.tmr["backoff"] \in Nat
  BY <1>1 DEF Timer
<1>4. PICK h : h = [s EXCEPT !.rx = 1]
  OBVIOUS
<1>5. [s EXCEPT !.rx = @ + 1] = h
  BY <1>2, <1>4
<1>6. /\ h \in NodeState /\ h.ok = s.ok /\ h.tmr = s.tmr /\ h.timeToSend = s.timeToSend
  BY <1>1, <1>4 DEF NodeState
<1>7. PICK v \in Nat : contentionInterrupted(h) = [h EXCEPT !.timeToSend = v]
  BY <1>1, <1>3, <1>6, Interrupted
<1>8. PICK f : f = [s.tmr EXCEPT !["backoff"] = Off]
  OBVIOUS
<1>9. /\ f \in [Timer -> Nat \cup {Off}] /\ f["backoff"] = Off
      /\ \A x \in Timer \ {"backoff"} : f[x] = s.tmr[x]
  BY <1>1, <1>8 DEF Timer
<1>10. PICK c : c = [s EXCEPT !.rx = 1, !.timeToSend = v, !.tmr = f]
  OBVIOUS
<1>11. [contentionInterrupted(h) EXCEPT !.tmr["backoff"] = Off] = c
  BY <1>1, <1>4, <1>7, <1>8, <1>10 DEF NodeState
<1>12. c \in NodeState /\ c.ok = s.ok /\ c.tmr = f /\ c.input = s.input
  BY <1>1, <1>9, <1>10 DEF NodeState
<1>13. PICK t : t = TakeIn(c, sig, "BackoffReceive")
  OBVIOUS
<1>14. Asserted(c, c.tmr["backoff"] = Off /\ c.input = None) = c
  BY <1>1, <1>9, <1>12 DEF Asserted, NodeState
<1>15. t = [c EXCEPT !.input = sig.frame, !.source = sig.from, !.state = "BackoffReceive"]
  BY <1>13, <1>14 DEF TakeIn
<1>16. /\ "BackoffReceive" \in State /\ sig.from \in Node
       /\ sig.frame \in Frame \cup AckFrame \cup {None}
  BY DEF State, Sig
<1>17. t \in NodeState /\ t.input = sig.frame /\ t.state = "BackoffReceive"
  BY <1>12, <1>15, <1>16 DEF NodeState
<1>18. /\ t.ok = c.ok /\ t.queue = c.queue /\ t.idleDest = c.idleDest /\ t.retry = c.retry
       /\ t.tmr = c.tmr /\ t.rx = c.rx
  BY <1>12, <1>15 DEF NodeState
<1>19. /\ c.queue = s.queue /\ c.idleDest = s.idleDest /\ c.retry = s.retry /\ c.rx = 1
  BY <1>1, <1>10 DEF NodeState
<1>20. QueueRight(t)
  BY <1>17, <1>18, <1>19 DEF Good, QueueRight
<1>21. /\ f["endSendData"] = Off /\ f["sendAck"] = Off /\ f["endSendAck"] = Off
       /\ f["awaitAck"] = Off /\ s.idleDest = {}
  BY <1>9 DEF Good, TimersRight, Timer
<1>22. TimersRight(t)
  BY <1>9, <1>12, <1>17, <1>18, <1>19, <1>21 DEF TimersRight
<1>23. SensesRight(t)
  BY <1>17, <1>18, <1>19 DEF SensesRight
<1>24. Good(t)
  BY <1>1, <1>12, <1>17, <1>18, <1>20, <1>22, <1>23 DEF Good
<1>25. \A x \in Timer : t.tmr[x] = 0 => s.tmr[x] = 0
  BY <1>9, <1>12, <1>18 DEF Off
<1>26. t.rx = s.rx + 1
  BY <1>2, <1>18, <1>19
<1>27. Turns(s, s.rx + 1, t)
  BY <1>18, <1>19, <1>24, <1>25, <1>26 DEF Turns
<1> QED  BY <1>5, <1>11, <1>13, <1>27

\* A frame starts while the node sends, or collides with what the node was hearing.
LEMMA HeardGood ==
  ASSUME NEW s, Good(s), s.state \in {"Send", "Receive", "BackoffReceive", "AwaitACKReceive"},
         NEW t, t = [[s EXCEPT !.rx = @ + 1] EXCEPT !.input = None]
  PROVE  Turns(s, s.rx + 1, t) /\ (s.state = "Send" => [s EXCEPT !.rx = @ + 1] = t)
<1>1. s \in NodeState /\ s.rx + 1 \in Nat
  BY Fields DEF Good
<1>2. t = [s EXCEPT !.rx = s.rx + 1, !.input = None]
  OBVIOUS
<1>3. t \in NodeState /\ t.rx = s.rx + 1 /\ t.input = None
  BY <1>1, <1>2 DEF NodeState
<1>4. /\ t.ok = s.ok /\ t.state = s.state /\ t.queue = s.queue /\ t.idleDest = s.idleDest
      /\ t.retry = s.retry /\ t.timeToSend = s.timeToSend
      /\ t.tmr = s.tmr /\ t.ackReceived = s.ackReceived
  BY <1>1, <1>2 DEF NodeState
<1>5. QueueRight(t) /\ TimersRight(t) /\ SensesRight(t)
  BY <1>3, <1>4 DEF Good, QueueRight, TimersRight, SensesRight
<1>6. s.state = "Send" => s.input = None
  BY DEF Good, SensesRight
<1>7. ASSUME s.state = "Send"  PROVE [s EXCEPT !.rx = @ + 1] = t
  <2>1. PICK h, r : r = s.rx + 1 /\ h = [s EXCEPT !.rx = r]
    OBVIOUS
  <2>2. h \in NodeState /\ h.input = None
    BY <1>1, <1>6, <1>7, <2>1 DEF NodeState
  <2>3. [h EXCEPT !.input = None] = h
    BY <2>2 DEF NodeState
  <2> QED  BY <2>1, <2>3
<1> QED  BY <1>3, <1>4, <1>5, <1>7 DEF Good, Turns

-----------------------------------------------------------------------------
\* The end of a frame.

\* One frame less is heard; what the node takes in is not lost by it.
Less(s, r, t) ==
  /\ t \in NodeState /\ t.rx = r
  /\ t.ok = s.ok /\ t.state = s.state /\ t.queue = s.queue /\ t.idleDest = s.idleDest
  /\ t.retry = s.retry /\ t.timeToSend = s.timeToSend /\ t.input = s.input
  /\ t.tmr = s.tmr /\ t.ackReceived = s.ackReceived /\ t.source = s.source /\ t.seen = s.seen

LEMMA DecState ==
  ASSUME NEW s, Good(s)
  PROVE  \E r \in Nat : /\ Less(s, r, decNoOfRxFrames(s))
                        /\ s.rx > 0 => r = s.rx - 1
                        /\ s.rx = 0 => r = 0
<1>1. s \in NodeState /\ s.rx \in Nat
  BY Fields DEF Good
<1>2. PICK t : t = decNoOfRxFrames(s)
  OBVIOUS
<1>3. CASE s.rx > 0
  <2>1. PICK r : r = s.rx - 1
    OBVIOUS
  <2>2. r \in Nat
    BY <1>1, <1>3, <2>1
  <2>3. t = [s EXCEPT !.rx = r]
    BY <1>2, <1>3, <2>1 DEF decNoOfRxFrames
  <2>4. Less(s, r, t)
    BY <1>1, <2>2, <2>3 DEF NodeState, Less
  <2>5. ~ (s.rx = 0)
    BY <1>3
  <2> QED  BY <1>2, <2>1, <2>2, <2>4, <2>5
<1>4. CASE ~ (s.rx > 0)
  <2>1. s.rx = 0
    BY <1>1, <1>4
  <2>2. s.input = None
    BY <2>1 DEF Good, SensesRight
  <2>3. t = [s EXCEPT !.input = None]
    BY <1>2, <1>4 DEF decNoOfRxFrames
  <2>4. Less(s, 0, t)
    BY <1>1, <2>1, <2>2, <2>3 DEF NodeState, Less
  <2> QED  BY <1>2, <1>4, <2>4
<1> QED  BY <1>3, <1>4

\* The node does not receive, or goes on receiving without an input.
LEMMA LessGood ==
  ASSUME NEW s, Good(s), NEW r \in Nat, NEW u, Less(s, r, u), r <= s.rx
  PROVE  /\ Turns(s, r, NoInput(u))
         /\ s.input = None => NoInput(u) = u
<1>1. PICK t : t = NoInput(u)
  OBVIOUS
<1>2. u \in NodeState /\ s \in NodeState /\ s.rx \in Nat
  BY Fields DEF Less, Good
<1>3. t = [u EXCEPT !.input = None]
  BY <1>1 DEF NoInput
<1>4. t \in NodeState /\ t.rx = u.rx /\ t.input = None
  BY <1>2, <1>3 DEF NodeState
<1>5. /\ t.ok = u.ok /\ t.state = u.state /\ t.queue = u.queue /\ t.idleDest = u.idleDest
      /\ t.retry = u.retry /\ t.timeToSend = u.timeToSend
      /\ t.tmr = u.tmr /\ t.ackReceived = u.ackReceived
  BY <1>2, <1>3 DEF NodeState
<1>6. QueueRight(t) /\ TimersRight(t)
  BY <1>4, <1>5 DEF Less, Good, QueueRight, TimersRight
<1>7. SensesRight(t)
  <2>1. t.rx > 0 => s.rx > 0
    BY <1>2, <1>4 DEF Less
  <2>2. s.rx = 0 => t.rx = 0
    BY <1>2, <1>4 DEF Less
  <2> QED  BY <1>4, <1>5, <2>1, <2>2 DEF Less, Good, SensesRight
<1>8. Turns(s, r, t)
  BY <1>4, <1>5, <1>6, <1>7 DEF Less, Good, Turns
<1>9. s.input = None => NoInput(u) = u
  BY <1>2 DEF NoInput, Less, NodeState
<1> QED  BY <1>1, <1>8, <1>9

\* The receiving node after the last frame, when it does not acknowledge anything.
LEMMA LessQuiet ==
  ASSUME NEW s, Good(s), s.state \in {"Receive", "BackoffReceive"}, NEW u, Less(s, 0, u),
         s.tmr["sendAck"] = Off, s.tmr["endSendAck"] = Off
  PROVE  /\ Quiet(u) /\ u.state \in {"Receive", "BackoffReceive"} /\ s.idleDest = {}
         /\ u.state = "BackoffReceive" => u.queue # <<>>
<1>1. \A x \in Timer : s.tmr[x] = Off
  BY DEF Good, TimersRight, Timer
<1>2. s.idleDest = {}
  BY DEF Good, TimersRight
<1>3. Quiet(u)
  BY <1>1, <1>2 DEF Quiet, Less, Good, QueueRight
<1> QED  BY <1>2, <1>3 DEF Less, Good, QueueRight

\* A node that has taken a frame in hears only that one.
LEMMA WholeAlone ==
  ASSUME NEW s, Good(s), s.input # None
  PROVE  s.rx = 1 /\ s.tmr["sendAck"] = Off /\ s.tmr["endSendAck"] = Off
  BY DEF Good, SensesRight, TimersRight

\* Nothing useful was received.
LEMMA NothingGood ==
  ASSUME NEW s, Good(s), s.state \in {"Receive", "BackoffReceive"}, NEW r \in Nat, NEW u,
         Less(s, r, u), r <= s.rx,
         NEW t \in IF u.input = None /\ u.rx = 0 /\ u.tmr["endSendAck"] = Off /\ u.tmr["sendAck"] = Off
                   THEN changeNextState(u) ELSE {NoInput(u)}
  PROVE  Turns(s, r, t)
<1>1. CASE u.input = None /\ u.rx = 0 /\ u.tmr["endSendAck"] = Off /\ u.tmr["sendAck"] = Off
  <2>1. r = 0 /\ s.tmr["sendAck"] = Off /\ s.tmr["endSendAck"] = Off
    BY <1>1 DEF Less
  <2>2. Less(s, 0, u)
    BY <2>1
  <2>3. /\ Quiet(u) /\ u.state \in {"Receive", "BackoffReceive"} /\ s.idleDest = {}
        /\ u.state = "BackoffReceive" => u.queue # <<>>
    BY <2>1, <2>2, LessQuiet
  <2>4. t \in changeNextState(u)
    BY <1>1
  <2>5. Settled(t) /\ t.input = u.input
    BY <2>3, <2>4, NextStateSettles
  <2>6. Turns(s, 0, t)
    BY <1>1, <2>3, <2>5, SettledTurns
  <2> QED  BY <2>1, <2>6
<1>2. CASE ~ (u.input = None /\ u.rx = 0 /\ u.tmr["endSendAck"] = Off /\ u.tmr["sendAck"] = Off)
  <2>1. t = NoInput(u)
    BY <1>2
  <2> QED  BY <2>1, LessGood
<1> QED  BY <1>1, <1>2

\* A whole frame was received that is not acknowledged, and perhaps noted as seen.
LEMMA IgnoredGood ==
  ASSUME NEW s, Good(s), s.state \in {"Receive", "BackoffReceive"}, s.input # None, NEW u,
         Less(s, 0, u), NEW f \in [Node -> Nat],
         NEW t \in changeNextState(u) \cup changeNextState([u EXCEPT !.seen = f])
  PROVE  Turns(s, 0, NoInput(t))
<1>1. s.tmr["sendAck"] = Off /\ s.tmr["endSendAck"] = Off
  BY WholeAlone
<1>2. /\ Quiet(u) /\ u.state \in {"Receive", "BackoffReceive"} /\ s.idleDest = {}
      /\ u.state = "BackoffReceive" => u.queue # <<>>
  BY <1>1, LessQuiet
<1>3. PICK w : w = [u EXCEPT !.seen = f]
  OBVIOUS
<1>4. u \in NodeState
  BY <1>2 DEF Quiet
<1>5. w \in NodeState
  BY <1>3, <1>4 DEF NodeState
<1>6. /\ w.ok = u.ok /\ w.state = u.state /\ w.queue = u.queue /\ w.idleDest = u.idleDest
      /\ w.retry = u.retry /\ w.tmr = u.tmr /\ w.rx = u.rx
  BY <1>3, <1>4 DEF NodeState
<1>7. /\ Quiet(w) /\ w.state \in {"Receive", "BackoffReceive"}
      /\ w.state = "BackoffReceive" => w.queue # <<>>
  BY <1>2, <1>5, <1>6 DEF Quiet
<1>8. Settled(t)
  <2>1. CASE t \in changeNextState(u)
    BY <1>2, <2>1, NextStateSettles
  <2>2. CASE t \in changeNextState(w)
    BY <1>7, <2>2, NextStateSettles
  <2> QED  BY <1>3, <2>1, <2>2
<1> QED  BY <1>2, <1>8, SettledTurns

\* The node will acknowledge the frame it has received; a frame may have been queued.
AckPending(s, w) ==
  /\ w \in NodeState /\ w.ok /\ w.state = s.state /\ w.rx = 0 /\ w.idleDest = s.idleDest
  /\ w.retry = s.retry /\ w.tmr["sendAck"] = SIFS
  /\ \A x \in Timer \ {"sendAck"} : w.tmr[x] = s.tmr[x]
  /\ s.queue # <<>> => w.queue # <<>> /\ w.queue[1] = s.queue[1]

LEMMA AckPendingGood ==
  ASSUME NEW s, Good(s), s.state \in {"Receive", "BackoffReceive"}, s.input # None,
         NEW w, AckPending(s, w)
  PROVE  Turns(s, 0, NoInput(w))
<1>1. PICK t : t = NoInput(w)
  OBVIOUS
<1>2. w \in NodeState /\ t = [w EXCEPT !.input = None] /\ SIFS \in Nat /\ SIFS > 0
  BY <1>1, ParamAssumption DEF AckPending, NoInput
<1>3. t \in NodeState /\ t.input = None
  BY <1>2 DEF NodeState
<1>4. /\ t.ok = w.ok /\ t.state = w.state /\ t.queue = w.queue /\ t.idleDest = w.idleDest
      /\ t.retry = w.retry /\ t.tmr = w.tmr /\ t.rx = w.rx
  BY <1>2 DEF NodeState
<1>5. QueueRight(t)
  BY <1>4 DEF AckPending, Good, QueueRight
<1>6. TimersRight(t)
  <2>1. /\ t.tmr["backoff"] = s.tmr["backoff"] /\ t.tmr["endSendData"] = s.tmr["endSendData"]
        /\ t.tmr["endSendAck"] = s.tmr["endSendAck"] /\ t.tmr["awaitAck"] = s.tmr["awaitAck"]
    BY <1>4 DEF AckPending, Timer
  <2> QED  BY <1>3, <1>4, <2>1, WholeAlone DEF AckPending, Good, TimersRight
<1>7. SensesRight(t)
  BY <1>3, <1>4 DEF AckPending, SensesRight
<1>8. \A x \in Timer : t.tmr[x] = 0 => s.tmr[x] = 0
  <2>1. t.tmr["sendAck"] # 0
    BY <1>2, <1>4 DEF AckPending
  <2> QED  BY <1>4, <2>1 DEF AckPending
<1> QED  BY <1>1, <1>3, <1>4, <1>5, <1>6, <1>7, <1>8 DEF AckPending, Good, Turns

LEMMA ScheduleState ==
  ASSUME NEW s, Good(s), s.input # None, NEW u, Less(s, 0, u), NEW to \in Node,
         NEW f \in [Node -> Nat]
  PROVE  AckPending(s, scheduleAck(u, to)) /\ AckPending(s, scheduleAck([u EXCEPT !.seen = f], to))
<1>1. u \in NodeState /\ u.ok /\ u.tmr["sendAck"] = Off /\ SIFS \in Nat
  BY WholeAlone, ParamAssumption DEF Less, Good
<1>2. PICK g : g = [u.tmr EXCEPT !["sendAck"] = SIFS]
  OBVIOUS
<1>3. /\ g \in [Timer -> Nat \cup {Off}] /\ g["sendAck"] = SIFS
      /\ \A x \in Timer \ {"sendAck"} : g[x] = u.tmr[x]
  BY <1>1, <1>2, Fields DEF Timer
<1>4. ASSUME NEW v \in NodeState, v.ok, v.tmr = u.tmr, v.state = u.state, v.rx = u.rx,
             v.idleDest = u.idleDest, v.retry = u.retry, v.queue = u.queue
      PROVE  AckPending(s, scheduleAck(v, to))
  <2>1. PICK w : w = scheduleAck(v, to)
    OBVIOUS
  <2>2. Asserted(v, v.tmr["sendAck"] = Off) = v
    BY <1>1, <1>4 DEF Asserted, NodeState
  <2>3. w = [v EXCEPT !.ackTo = to, !.tmr = g]
    BY <1>2, <1>4, <2>1, <2>2 DEF scheduleAck
  <2>4. w \in NodeState /\ w.tmr = g
    BY <1>3, <1>4, <2>3 DEF NodeState
  <2>5. /\ w.ok = v.ok /\ w.state = v.state /\ w.queue = v.queue /\ w.idleDest = v.idleDest
        /\ w.retry = v.retry /\ w.rx = v.rx
    BY <1>4, <2>3 DEF NodeState
  <2> QED  BY <1>3, <1>4, <2>1, <2>4, <2>5 DEF AckPending, Less
<1>5. PICK w : w = [u EXCEPT !.seen = f]
  OBVIOUS
<1>6. w \in NodeState
  BY <1>1, <1>5 DEF NodeState
<1>7. /\ w.ok = u.ok /\ w.state = u.state /\ w.queue = u.queue /\ w.idleDest = u.idleDest
      /\ w.retry = u.retry /\ w.tmr = u.tmr /\ w.rx = u.rx
  BY <1>1, <1>5 DEF NodeState
<1> QED  BY <1>1, <1>4, <1>5, <1>6, <1>7

\* The access point passes a frame on.
LEMMA ForwardState ==
  ASSUME NEW s, NEW w, AckPending(s, w), NEW x \in Node, NEW f \in Frame
  PROVE  AckPending(s, Forward([w EXCEPT !.seen[x] = f.seq], f))
<1>1. w \in NodeState /\ w.seen \in [Node -> Nat] /\ w.queue \in Seq(Frame) /\ w.sequenceNumber \in Nat
  BY Fields DEF AckPending
<1>2. PICK g : g = [w.seen EXCEPT ![x] = f.seq]
  OBVIOUS
<1>a. PICK c : c = (w.sequenceNumber + 1) % 4096
  OBVIOUS
<1>3. g \in [Node -> Nat] /\ c \in Nat
  <2>1. f.seq \in Nat
    BY DEF Frame
  <2> QED  BY <1>1, <1>2, <1>a, <2>1
<1>4. PICK v : v = [w EXCEPT !.seen[x] = f.seq]
  OBVIOUS
<1>5. v = [w EXCEPT !.seen = g]
  BY <1>2, <1>4
<1>6. /\ v \in NodeState /\ v.sequenceNumber = w.sequenceNumber
  BY <1>1, <1>3, <1>5 DEF NodeState
<1>7. PICK i : i = incrementSequenceNumber(v)
  OBVIOUS
<1>8. i = [w EXCEPT !.seen = g, !.sequenceNumber = c]
  BY <1>a, <1>5, <1>6, <1>7 DEF incrementSequenceNumber
<1>9. i \in NodeState /\ i.queue = w.queue
  BY <1>1, <1>3, <1>8 DEF NodeState
<1>10. /\ i.ok = w.ok /\ i.state = w.state /\ i.idleDest = w.idleDest
       /\ i.retry = w.retry /\ i.tmr = w.tmr /\ i.rx = w.rx
  BY <1>1, <1>3, <1>8 DEF NodeState
<1>11. CASE f.addr3 = Wired
  <2>1. Forward(v, f) = i
    BY <1>7, <1>11 DEF Forward
  <2> QED  BY <1>4, <1>9, <1>10, <2>1 DEF AckPending
<1>12. CASE f.addr3 # Wired
  <2>1. PICK b : b = createFrame(AP, v, f.addr2, f.addr3)
    OBVIOUS
  <2>2. b \in Frame
    <3>1. /\ f.addr3 \in Node \cup {Broadcast} /\ f.addr2 \in Node /\ AP \in Node
      BY <1>12 DEF Frame, Node
    <3> QED  BY <1>1, <1>6, <2>1, <3>1 DEF createFrame, Frame
  <2>3. PICK p : p = IF Len(i.queue) <= maxQueueSize THEN Append(i.queue, b)
                     ELSE <<Head(i.queue)>> \o Append(SubSeq(i.queue, 3, Len(i.queue)), b)
    OBVIOUS
  <2>4. p \in Seq(Frame) /\ p # <<>> /\ (i.queue # <<>> => p[1] = i.queue[1])
    <3>1. ASSUME NEW q \in Seq(Frame), q = i.queue
          PROVE  p \in Seq(Frame) /\ p # <<>> /\ (q # <<>> => p[1] = q[1])
      BY <2>2, <2>3, <3>1, Queued
    <3> QED  BY <1>1, <1>9, <3>1
  <2>5. PICK t : t = Forward(v, f)
    OBVIOUS
  <2>6. t = [i EXCEPT !.queue = p]
    BY <1>7, <1>12, <2>1, <2>3, <2>5 DEF Forward, insertFrame
  <2>7. t \in NodeState /\ t.queue = p
    BY <1>9, <2>4, <2>6 DEF NodeState
  <2>8. /\ t.ok = i.ok /\ t.state = i.state /\ t.idleDest = i.idleDest
        /\ t.retry = i.retry /\ t.tmr = i.tmr /\ t.rx = i.rx
    BY <1>9, <2>6 DEF NodeState
  <2>9. s.queue # <<>> => t.queue # <<>> /\ t.queue[1] = s.queue[1]
    <3>1. s.queue # <<>> => w.queue # <<>> /\ w.queue[1] = s.queue[1]
      BY DEF AckPending
    <3> QED  BY <1>9, <2>4, <2>7, <3>1
  <2>10. AckPending(s, t)
    BY <1>10, <2>7, <2>8, <2>9 DEF AckPending
  <2> QED  BY <1>4, <2>5, <2>10
<1> QED  BY <1>11, <1>12


-----------------------------------------------------------------------------
\* The wait for an acknowledgement.

\* The node has sent a frame that is to be acknowledged, and no timer runs.
Awaiting(s) ==
  /\ s \in NodeState /\ s.ok /\ s.state \in {"AwaitACK", "AwaitACKReceive"} /\ s.idleDest = {}
  /\ s.queue # <<>> /\ s.queue[1].addr1 # Broadcast /\ ~ s.ackReceived
  /\ \A x \in Timer : s.tmr[x] = Off

\* The same with the timer stopped.
Stopped(u) == {[u EXCEPT !.tmr["awaitAck"] = Off],
               [u EXCEPT !.tmr["awaitAck"] = Off, !.state = "AwaitACK"]}

LEMMA AwaitStopped ==
  ASSUME NEW s, Good(s), s.state \in {"AwaitACK", "AwaitACKReceive"}, NEW r, NEW u, Less(s, r, u),
         NEW v \in Stopped(u)
  PROVE  /\ Awaiting(v) /\ v.rx = r /\ v.input = u.input /\ s.idleDest = {}
         /\ \A x \in Timer \ {"awaitAck"} : s.tmr[x] = Off
<1>1. u \in NodeState /\ s \in NodeState /\ u.ok /\ u.state \in State /\ u.rx = r
  BY Fields DEF Less, Good
<1>2. PICK f : f = [u.tmr EXCEPT !["awaitAck"] = Off]
  OBVIOUS
<1>3. /\ s.idleDest = {} /\ s.tmr["backoff"] = Off /\ s.tmr["sendAck"] = Off
      /\ s.tmr["endSendAck"] = Off /\ s.tmr["endSendData"] = Off
  BY DEF Good, TimersRight
<1>4. \A x \in Timer \ {"awaitAck"} : s.tmr[x] = Off
  BY <1>3 DEF Timer
<1>5. f \in [Timer -> Nat \cup {Off}] /\ \A x \in Timer : f[x] = Off
  <2>1. u.tmr = s.tmr
    BY DEF Less
  <2> QED  BY <1>1, <1>2, <1>4, <2>1, Fields
<1>6. PICK k \in {u.state, "AwaitACK"} : v = [u EXCEPT !.tmr = f, !.state = k]
  <2>1. CASE v = [u EXCEPT !.tmr["awaitAck"] = Off]
    <3>1. v = [u EXCEPT !.tmr = f]
      BY <1>2, <2>1
    <3>2. v = [u EXCEPT !.tmr = f, !.state = u.state]
      BY <1>1, <1>5, <3>1 DEF NodeState
    <3> QED  BY <3>2
  <2>2. CASE v = [u EXCEPT !.tmr["awaitAck"] = Off, !.state = "AwaitACK"]
    <3>1. v = [u EXCEPT !.tmr = f, !.state = "AwaitACK"]
      BY <1>2, <2>2
    <3> QED  BY <3>1
  <2> QED  BY <2>1, <2>2 DEF Stopped
<1>7. k \in State /\ k \in {"AwaitACK", "AwaitACKReceive"}
  BY <1>1, <1>6 DEF Less, State
<1>8. v \in NodeState /\ v.tmr = f /\ v.state = k
  BY <1>1, <1>5, <1>6, <1>7 DEF NodeState
<1>9. /\ v.ok = u.ok /\ v.queue = u.queue /\ v.idleDest = u.idleDest /\ v.rx = u.rx
      /\ v.input = u.input /\ v.ackReceived = u.ackReceived
  BY <1>1, <1>6 DEF NodeState
<1>10. Awaiting(v)
  BY <1>1, <1>3, <1>5, <1>7, <1>8, <1>9 DEF Awaiting, Less, Good, QueueRight
<1> QED  BY <1>1, <1>3, <1>4, <1>9, <1>10

\* A frame that is sent again is the same frame, with the flag.
LEMMA RetryQuiet ==
  ASSUME NEW s, Awaiting(s), s.rx = 0, s.retry + 1 \in 0 .. retryLimit
  PROVE  /\ Quiet(initiateRetry(s)) /\ initiateRetry(s).queue # <<>>
         /\ initiateRetry(s).input = s.input
<1>1. s \in NodeState /\ s.queue \in Seq(Frame) /\ s.queue # <<>> /\ s.queue[1].addr1 # Broadcast
  BY Fields DEF Awaiting
<1>2. PICK t : t = initiateRetry(s)
  OBVIOUS
<1>3. PICK f : f = [s.queue[1] EXCEPT !.retry = TRUE]
  OBVIOUS
<1>4. PICK p : p = [s.queue EXCEPT ![1] = f]
  OBVIOUS
<1>5. PICK c : c = s.retry + 1
  OBVIOUS
<1>6. s.queue[1] \in Frame
  <2>1. ASSUME NEW q \in Seq(Frame), q # <<>>  PROVE q[1] \in Frame
    BY <2>1
  <2> QED  BY <1>1, <2>1
<1>7. f \in Frame /\ f.addr1 = s.queue[1].addr1
  BY <1>3, <1>6 DEF Frame
<1>8. p \in Seq(Frame) /\ p # <<>> /\ p[1] = f
  <2>1. ASSUME NEW q \in Seq(Frame), q # <<>>, NEW g \in Frame, NEW o, o = [q EXCEPT ![1] = g]
        PROVE  o \in Seq(Frame) /\ o # <<>> /\ o[1] = g
    <3>1. Len(q) \in Nat /\ Len(q) > 0 /\ 1 \in 1 .. Len(q)
      BY <2>1
    <3>2. o \in Seq(Frame) /\ Len(o) = Len(q) /\ o[1] = g
      BY <2>1, <3>1, ExceptSeq
    <3> QED  BY <3>1, <3>2
  <2> QED  BY <1>1, <1>4, <1>7, <2>1
<1>9. t = [s EXCEPT !.queue = p, !.retry = c, !.timeToSend = 0]
  BY <1>2, <1>3, <1>4, <1>5 DEF initiateRetry
<1>10. c \in 0 .. retryLimit /\ 0 \in Nat
  BY <1>5
<1>11. t \in NodeState /\ t.queue = p
  BY <1>1, <1>8, <1>9, <1>10 DEF NodeState
<1>12. t.ok = s.ok /\ t.rx = s.rx /\ t.idleDest = s.idleDest /\ t.tmr = s.tmr /\ t.input = s.input
  BY <1>1, <1>9 DEF NodeState
<1>13. t.queue # <<>> /\ t.queue[1].addr1 # Broadcast
  BY <1>1, <1>7, <1>8, <1>11
<1>14. Quiet(t)
  BY <1>11, <1>12, <1>13 DEF Quiet, Awaiting
<1> QED  BY <1>2, <1>12, <1>13, <1>14

\* The wait is over without an acknowledgement.
LEMMA EndAwaitGood ==
  ASSUME NEW s, Awaiting(s), NEW t \in endAwaitACK(s)
  PROVE  Turns(s, s.rx, t) /\ t.input = None /\ NoInput(t) = t
<1>1. s \in NodeState /\ s.rx \in Nat /\ s.retry \in 0 .. retryLimit /\ retryLimit \in Nat
  BY Fields, ParamAssumption DEF Awaiting
<1>2. PICK u : u = [s EXCEPT !.input = None]
  OBVIOUS
<1>3. u \in NodeState /\ u.input = None
  BY <1>1, <1>2 DEF NodeState
<1>4. /\ u.ok = s.ok /\ u.state = s.state /\ u.queue = s.queue /\ u.idleDest = s.idleDest
      /\ u.retry = s.retry /\ u.rx = s.rx /\ u.tmr = s.tmr /\ u.ackReceived = s.ackReceived
  BY <1>1, <1>2 DEF NodeState
<1>5. Awaiting(u)
  BY <1>3, <1>4 DEF Awaiting
<1>a. ASSUME NEW w \in NodeState, w.input = None  PROVE NoInput(w) = w
  BY <1>a DEF NoInput, NodeState
<1>6. CASE u.rx > 0
  <2>1. t = [u EXCEPT !.state = "AwaitACKReceive"]
    BY <1>2, <1>6 DEF endAwaitACK
  <2>2. "AwaitACKReceive" \in State
    BY DEF State
  <2>3. t \in NodeState /\ t.state = "AwaitACKReceive"
    BY <1>3, <2>1, <2>2 DEF NodeState
  <2>4. /\ t.ok = u.ok /\ t.queue = u.queue /\ t.idleDest = u.idleDest /\ t.input = u.input
        /\ t.retry = u.retry /\ t.rx = u.rx /\ t.tmr = u.tmr /\ t.ackReceived = u.ackReceived
    BY <1>3, <2>1 DEF NodeState
  <2>5. QueueRight(t)
    BY <1>5, <2>3, <2>4 DEF Awaiting, QueueRight
  <2>6. TimersRight(t)
    BY <1>5, <2>3, <2>4 DEF Awaiting, TimersRight, Timer
  <2>7. SensesRight(t)
    BY <1>3, <2>3, <2>4 DEF SensesRight
  <2>8. Turns(s, s.rx, t)
    BY <1>4, <1>5, <2>3, <2>4, <2>5, <2>6, <2>7 DEF Awaiting, Good, Turns
  <2> QED  BY <1>3, <1>a, <2>3, <2>4, <2>8
<1>7. CASE ~ (u.rx > 0)
  <2>1. s.rx = 0 /\ u.rx = 0 /\ s.idleDest = {}
    BY <1>1, <1>4, <1>7 DEF Awaiting
  <2>2. Settled(t) /\ t.input = u.input
    <3>1. CASE u.retry + 1 > retryLimit
      <4>1. t \in chkOutputBuffer(prepareNextFrame(u))
        BY <1>2, <1>5, <1>7, <3>1 DEF endAwaitACK, Awaiting
      <4>2. Quiet(prepareNextFrame(u))
        BY <1>5, <2>1, PrepareQuiet DEF Awaiting
      <4>3. prepareNextFrame(u).input = u.input
        BY <1>3 DEF prepareNextFrame, NodeState
      <4> QED  BY <4>1, <4>2, <4>3, ChkOutputSettles
    <3>2. CASE ~ (u.retry + 1 > retryLimit)
      <4>1. t \in StartBackoff(initiateRetry(u))
        BY <1>2, <1>5, <1>7, <3>2 DEF endAwaitACK, Awaiting
      <4>2. u.retry + 1 \in 0 .. retryLimit
        BY <1>1, <1>4, <3>2
      <4>3. /\ Quiet(initiateRetry(u)) /\ initiateRetry(u).queue # <<>>
            /\ initiateRetry(u).input = u.input
        BY <1>5, <2>1, <4>2, RetryQuiet
      <4> QED  BY <4>1, <4>3, StartBackoffSettles
    <3> QED  BY <3>1, <3>2
  <2>3. t \in NodeState /\ t.input = None
    BY <1>3, <2>2 DEF Settled
  <2>4. Turns(s, 0, t)
    BY <2>1, <2>2, <2>3, SettledTurns
  <2> QED  BY <1>a, <2>1, <2>3, <2>4
<1> QED  BY <1>6, <1>7


\* The acknowledgement has come: the next frame is made ready.
LEMMA FinishedQuiet ==
  ASSUME NEW s, Good(s), s.state \in {"AwaitACK", "AwaitACKReceive"}, NEW u, Less(s, 0, u)
  PROVE  Quiet(Finished(u)) /\ s.idleDest = {}
<1>1. PICK v : v = [u EXCEPT !.tmr["awaitAck"] = Off]
  OBVIOUS
<1>a. v \in Stopped(u)
  BY <1>1 DEF Stopped
<1>2. Awaiting(v) /\ v.rx = 0 /\ s.idleDest = {}
  BY <1>a, AwaitStopped
<1>3. v \in NodeState /\ v.queue # <<>> /\ v.ok
  BY <1>2 DEF Awaiting
<1>4. Asserted(v, v.queue # <<>>) = v
  BY <1>3 DEF Asserted, NodeState
<1>5. PICK p : p = prepareNextFrame(v)
  OBVIOUS
<1>6. Quiet(p)
  BY <1>2, <1>5, PrepareQuiet DEF Awaiting
<1>7. PICK t : t = [p EXCEPT !.ackReceived = TRUE]
  OBVIOUS
<1>8. p \in NodeState
  BY <1>6 DEF Quiet
<1>9. t \in NodeState
  BY <1>7, <1>8 DEF NodeState
<1>10. /\ t.ok = p.ok /\ t.queue = p.queue /\ t.idleDest = p.idleDest /\ t.retry = p.retry
       /\ t.rx = p.rx /\ t.tmr = p.tmr
  BY <1>7, <1>8 DEF NodeState
<1>11. Quiet(t)
  BY <1>6, <1>9, <1>10 DEF Quiet
<1>12. Finished(u) = t
  BY <1>1, <1>4, <1>5, <1>7 DEF Finished, finishFrameTx
<1> QED  BY <1>2, <1>11, <1>12

\* A frame ends while an acknowledgement is awaited.
LEMMA AwaitIdleGood ==
  ASSUME NEW s, Good(s), s.state = "AwaitACKReceive", NEW r \in Nat, NEW u, Less(s, r, u), r <= s.rx,
         s.rx > 0 => r = s.rx - 1, NEW whole \in BOOLEAN, whole => u.input # None,
         NEW mine \in BOOLEAN, mine => whole, NEW awaiting,
         NEW t \in IF mine THEN chkOutputBuffer(Finished(u))
                   ELSE IF whole /\ u.ackReceived THEN chkOutputBuffer(u)
                   ELSE IF (whole /\ awaiting) \/ (u.input = None /\ ~awaiting /\ u.rx = 0)
                   THEN endAwaitACK([u EXCEPT !.tmr["awaitAck"] = Off, !.state = "AwaitACK"])
                   ELSE {u}
  PROVE  Turns(s, r, NoInput(t))
<1>1. CASE mine
  <2>1. s.rx = 1 /\ r = 0
    BY <1>1, WholeAlone DEF Less
  <2>2. Less(s, 0, u) /\ t \in chkOutputBuffer(Finished(u))
    BY <1>1, <2>1
  <2>3. Quiet(Finished(u)) /\ s.idleDest = {}
    BY <2>2, FinishedQuiet
  <2>4. Settled(t)
    BY <2>2, <2>3, ChkOutputSettles
  <2> QED  BY <2>1, <2>3, <2>4, SettledTurns
<1>2. CASE ~ mine
  <2>1. ~ u.ackReceived
    BY DEF Less, Good, QueueRight
  <2>2. CASE (whole /\ awaiting) \/ (u.input = None /\ ~awaiting /\ u.rx = 0)
    <3>1. PICK v : v = [u EXCEPT !.tmr["awaitAck"] = Off, !.state = "AwaitACK"]
      OBVIOUS
    <3>2. t \in endAwaitACK(v)
      BY <1>2, <2>1, <2>2, <3>1
    <3>a. v \in Stopped(u)
      BY <3>1 DEF Stopped
    <3>3. Awaiting(v) /\ v.rx = r /\ s.idleDest = {}
      BY <3>a, AwaitStopped
    <3>4. Turns(v, r, t) /\ NoInput(t) = t
      BY <3>2, <3>3, EndAwaitGood
    <3>5. Turns(s, r, t)
      BY <3>3, <3>4 DEF Turns, Awaiting, Off
    <3> QED  BY <3>4, <3>5
  <2>3. CASE ~ ((whole /\ awaiting) \/ (u.input = None /\ ~awaiting /\ u.rx = 0))
    <3>1. t = u
      BY <1>2, <2>1, <2>3
    <3> QED  BY <3>1, LessGood
  <2> QED  BY <2>2, <2>3
<1> QED  BY <1>1, <1>2

-----------------------------------------------------------------------------
\* Timers expire.

LEMMA ExpiredState ==
  ASSUME NEW s \in NodeState, NEW x \in Timer
  PROVE  \E f \in [Timer -> Nat \cup {Off}] :
           /\ [s EXCEPT !.tmr[x] = Off] = [s EXCEPT !.tmr = f]
           /\ f[x] = Off /\ \A y \in Timer \ {x} : f[y] = s.tmr[y]
<1>1. PICK f : f = [s.tmr EXCEPT ![x] = Off]
  OBVIOUS
<1>2. f \in [Timer -> Nat \cup {Off}] /\ f[x] = Off /\ \A y \in Timer \ {x} : f[y] = s.tmr[y]
  BY <1>1, Fields
<1> QED  BY <1>1, <1>2

\* The wait for an acknowledgement times out.
LEMMA TimeoutGood ==
  ASSUME NEW s, Good(s), s.tmr["awaitAck"] = 0, NEW t \in endAwaitACK([s EXCEPT !.tmr["awaitAck"] = Off])
  PROVE  Turns(s, s.rx, t)
<1>1. s \in NodeState /\ s.state \in {"AwaitACK", "AwaitACKReceive"}
  BY DEF Good, TimersRight, Off
<1>2. Less(s, s.rx, s)
  BY <1>1 DEF Less
<1>3. PICK v : v = [s EXCEPT !.tmr["awaitAck"] = Off]
  OBVIOUS
<1>a. v \in Stopped(s)
  BY <1>3 DEF Stopped
<1>4. Awaiting(v) /\ v.rx = s.rx /\ s.idleDest = {}
  BY <1>1, <1>2, <1>a, AwaitStopped
<1>5. Turns(v, s.rx, t)
  BY <1>3, <1>4, EndAwaitGood
<1> QED  BY <1>4, <1>5 DEF Turns, Awaiting, Off


\* A timer of the sending node expires: it hears what it heard, its frame is for d, and
\* the timers with which it sends run or are off.
Sends(s, d, t) ==
  /\ Good(t) /\ t.rx = s.rx /\ t.idleDest = d
  /\ \A x \in Sending : t.tmr[x] # 0

\* The turn of the ready frame has come.
LEMMA ReadyGood ==
  ASSUME NEW s, Good(s), s.tmr["backoff"] = 0, NEW d \in SUBSET Node, NEW t,
         t = [[[s EXCEPT !.tmr["backoff"] = Off] EXCEPT !.state = "Send", !.tmr["endSendData"] = DATATIME]
                EXCEPT !.idleDest = d]
  PROVE  Sends(s, d, t) /\ s.queue # <<>> /\ Head(s.queue) \in Frame
<1>1. s \in NodeState /\ s.state = "Backoff" /\ s.queue \in Seq(Frame) /\ s.queue # <<>>
  BY Fields DEF Good, TimersRight, QueueRight, Off
<1>2. PICK f \in [Timer -> Nat \cup {Off}] :
        /\ [s EXCEPT !.tmr["backoff"] = Off] = [s EXCEPT !.tmr = f]
        /\ f["backoff"] = Off /\ \A y \in Timer \ {"backoff"} : f[y] = s.tmr[y]
  BY <1>1, ExpiredState DEF Timer
<1>3. PICK g : g = [f EXCEPT !["endSendData"] = DATATIME]
  OBVIOUS
<1>4. DATATIME \in Nat /\ DATATIME > 0
  BY ParamAssumption
<1>5. /\ g \in [Timer -> Nat \cup {Off}] /\ g["endSendData"] = DATATIME
      /\ \A y \in Timer \ {"endSendData"} : g[y] = f[y]
  BY <1>2, <1>3, <1>4 DEF Timer
<1>6. t = [s EXCEPT !.tmr = g, !.state = "Send", !.idleDest = d]
  <2>1. PICK e : e = [s EXCEPT !.tmr = f]
    OBVIOUS
  <2>2. t = [[e EXCEPT !.state = "Send", !.tmr["endSendData"] = DATATIME] EXCEPT !.idleDest = d]
    BY <1>2, <2>1
  <2>3. e \in NodeState /\ e.tmr = f
    BY <1>1, <1>2, <2>1 DEF NodeState
  <2>4. t = [e EXCEPT !.state = "Send", !.tmr = g, !.idleDest = d]
    BY <1>3, <2>2, <2>3
  <2> QED  BY <1>1, <2>1, <2>4
<1>7. "Send" \in State
  BY DEF State
<1>8. t \in NodeState /\ t.tmr = g /\ t.state = "Send" /\ t.idleDest = d
  <2>1. s \in NodeState /\ g \in [Timer -> Nat \cup {Off}]
    BY <1>1, <1>5
  <2>2. t \in NodeState
    BY <2>1, <1>6, <1>7 DEF NodeState
  <2>3. t.tmr = g /\ t.state = "Send" /\ t.idleDest = d
    BY <2>1, <1>6 DEF NodeState
  <2> QED  BY <2>2, <2>3
<1>9. /\ t.ok = s.ok /\ t.queue = s.queue /\ t.retry = s.retry /\ t.rx = s.rx /\ t.input = s.input
      /\ t.timeToSend = s.timeToSend
  BY <1>1, <1>6 DEF NodeState
<1>10. /\ g["backoff"] = Off /\ g["sendAck"] = Off /\ g["endSendAck"] = Off /\ g["awaitAck"] = Off
       /\ g["endSendData"] # Off /\ g["endSendData"] # 0
  BY <1>1, <1>2, <1>4, <1>5 DEF Good, TimersRight, Timer, Off
<1>11. QueueRight(t)
  BY <1>1, <1>8, <1>9 DEF Good, QueueRight
<1>12. TimersRight(t)
  BY <1>8, <1>10 DEF TimersRight
<1>13. SensesRight(t)
  BY <1>1, <1>8, <1>9 DEF Good, SensesRight
<1>14. \A x \in Sending : t.tmr[x] # 0
  <2>1. Off # 0
    BY DEF Off
  <2>2. \A x \in Sending : g[x] # 0
    BY <1>10, <2>1 DEF Sending
  <2> QED  BY <1>8, <2>2
<1>15. Head(s.queue) \in Frame
  <2>1. ASSUME NEW q \in Seq(Frame), q # <<>>  PROVE Head(q) \in Frame
    BY <2>1
  <2> QED  BY <1>1, <2>1
<1> QED  BY <1>1, <1>8, <1>9, <1>11, <1>12, <1>13, <1>14, <1>15 DEF Good, Sends

LEMMA AckSentGood ==
  ASSUME NEW s, Good(s), s.tmr["sendAck"] = 0, NEW d \in SUBSET Node,
         NEW g \in [Timer -> Nat \cup {Off}], g["sendAck"] = Off, g["endSendAck"] = ACKTIME,
         \A y \in Timer \ {"sendAck", "endSendAck"} : g[y] = s.tmr[y],
         NEW t, t = [s EXCEPT !.tmr = g, !.ackTo = None, !.idleDest = d]
  PROVE  Sends(s, d, t)
<1>1. s \in NodeState /\ s.state \in {"Receive", "BackoffReceive"} /\ s.input = None
  BY DEF Good, TimersRight, Off
<1>2. ACKTIME \in Nat /\ ACKTIME > 0
  BY ParamAssumption
<1>3. t \in NodeState /\ t.tmr = g /\ t.idleDest = d
  BY <1>1 DEF NodeState
<1>4. /\ t.ok = s.ok /\ t.queue = s.queue /\ t.retry = s.retry /\ t.rx = s.rx /\ t.input = s.input
      /\ t.state = s.state
  BY <1>1 DEF NodeState
<1>5. /\ g["backoff"] = Off /\ g["endSendData"] = Off /\ g["awaitAck"] = Off
      /\ g["endSendAck"] # Off /\ g["endSendAck"] # 0
  BY <1>1, <1>2 DEF Good, TimersRight, Timer, Off
<1>6. QueueRight(t)
  BY <1>1, <1>4 DEF Good, QueueRight
<1>7. TimersRight(t)
  BY <1>1, <1>3, <1>4, <1>5 DEF TimersRight
<1>8. SensesRight(t)
  BY <1>1, <1>4 DEF SensesRight
<1>9. \A x \in Sending : t.tmr[x] # 0
  <2>1. Off # 0
    BY DEF Off
  <2>2. \A x \in Sending : g[x] # 0
    BY <1>5, <2>1 DEF Sending
  <2> QED  BY <1>3, <2>2
<1> QED  BY <1>3, <1>4, <1>6, <1>7, <1>8, <1>9 DEF Good, Sends

\* The acknowledgement goes out.
LEMMA SendAckGood ==
  ASSUME NEW s, Good(s), s.tmr["sendAck"] = 0, NEW d \in SUBSET Node, NEW e,
         e = [s EXCEPT !.tmr["sendAck"] = Off], NEW t,
         t = [[e EXCEPT !.tmr["endSendAck"] = ACKTIME, !.ackTo = None] EXCEPT !.idleDest = d]
  PROVE  /\ Sends(s, d, t) /\ e.ackTo \in Node \cup {None}
         /\ e \in NodeState /\ e.ok /\ e.tmr["endSendAck"] = Off
<1>1. /\ s \in NodeState /\ s.ok /\ s.tmr["endSendAck"] = Off /\ s.ackTo \in Node \cup {None}
  BY Fields DEF Good, TimersRight, Off
<1>2. PICK f \in [Timer -> Nat \cup {Off}] :
        /\ [s EXCEPT !.tmr["sendAck"] = Off] = [s EXCEPT !.tmr = f]
        /\ f["sendAck"] = Off /\ \A y \in Timer \ {"sendAck"} : f[y] = s.tmr[y]
  BY <1>1, ExpiredState DEF Timer
<1>3. PICK g : g = [f EXCEPT !["endSendAck"] = ACKTIME]
  OBVIOUS
<1>4. ACKTIME \in Nat
  BY ParamAssumption
<1>5. /\ g \in [Timer -> Nat \cup {Off}] /\ g["endSendAck"] = ACKTIME /\ g["sendAck"] = Off
      /\ \A y \in Timer \ {"sendAck", "endSendAck"} : g[y] = s.tmr[y]
  BY <1>2, <1>3, <1>4 DEF Timer
<1>6. e \in NodeState /\ e.tmr = f /\ e.ok /\ e.ackTo = s.ackTo
  BY <1>1, <1>2 DEF NodeState
<1>7. e.tmr["endSendAck"] = Off
  BY <1>1, <1>2, <1>6 DEF Timer
<1>8. t = [e EXCEPT !.tmr = g, !.ackTo = None, !.idleDest = d]
  BY <1>3, <1>6
<1>9. t = [s EXCEPT !.tmr = g, !.ackTo = None, !.idleDest = d]
  BY <1>1, <1>2, <1>8
<1>10. Sends(s, d, t)
  BY <1>5, <1>9, AckSentGood
<1> QED  BY <1>1, <1>6, <1>7, <1>10


\* The end of a frame is sent: nothing else is due to be sent.
EndedState(s, u) ==
  /\ u \in NodeState /\ u.ok /\ u.state = s.state /\ u.queue = s.queue /\ u.retry = s.retry
  /\ u.rx = s.rx /\ u.idleDest = {} /\ u.input = None /\ \A x \in Timer : u.tmr[x] = Off

LEMMA EndedIs ==
  ASSUME NEW s, Good(s), NEW x \in {"endSendData", "endSendAck"}, s.tmr[x] = 0, NEW u,
         u = [[s EXCEPT !.tmr[x] = Off] EXCEPT !.idleDest = {}]
  PROVE  EndedState(s, u)
<1>1. s \in NodeState /\ x \in Timer
  BY DEF Good, Timer
<1>2. PICK f \in [Timer -> Nat \cup {Off}] :
        /\ [s EXCEPT !.tmr[x] = Off] = [s EXCEPT !.tmr = f]
        /\ f[x] = Off /\ \A y \in Timer \ {x} : f[y] = s.tmr[y]
  BY <1>1, ExpiredState
<1>3. u = [s EXCEPT !.tmr = f, !.idleDest = {}]
  BY <1>2
<1>4. u \in NodeState /\ u.tmr = f /\ u.idleDest = {}
  BY <1>1, <1>3 DEF NodeState
<1>5. /\ u.ok = s.ok /\ u.queue = s.queue /\ u.retry = s.retry /\ u.rx = s.rx /\ u.input = s.input
      /\ u.state = s.state
  BY <1>1, <1>3 DEF NodeState
<1>6. s.input = None /\ \A y \in Timer \ {x} : s.tmr[y] = Off
  <2>1. CASE x = "endSendData"
    <3>1. s.state = "Send"
      BY <2>1 DEF Good, TimersRight, Off
    <3> QED  BY <2>1, <3>1 DEF Good, TimersRight, SensesRight, Timer
  <2>2. CASE x = "endSendAck"
    <3>1. s.state \in {"Receive", "BackoffReceive"} /\ s.input = None /\ s.tmr["sendAck"] = Off
      BY <2>2 DEF Good, TimersRight, Off
    <3> QED  BY <2>2, <3>1 DEF Good, TimersRight, Timer
  <2> QED  BY <2>1, <2>2
<1>7. \A y \in Timer : u.tmr[y] = Off
  BY <1>2, <1>4, <1>6
<1> QED  BY <1>4, <1>5, <1>6, <1>7 DEF EndedState, Good

LEMMA SettledSends ==
  ASSUME NEW s, s.rx = 0, NEW u, Settled(u), u.input = None
  PROVE  Sends(s, {}, u)
<1>1. NoInput(u) = u
  BY DEF NoInput, Settled, NodeState
<1>2. Good(u) /\ u.rx = 0 /\ u.idleDest = {} /\ \A x \in Timer : u.tmr[x] # 0
  BY <1>1, SettledGood
<1> QED  BY <1>2 DEF Sends, Sending, Timer

\* The broadcast frame is done with.
LEMMA BroadcastGood ==
  ASSUME NEW s, Good(s), s.state = "Send", s.queue # <<>>, s.queue[1].addr1 = Broadcast,
         NEW u, EndedState(s, u), NEW t \in handleSendingBcastFrame(u)
  PROVE  Sends(s, {}, t)
<1>1. u \in NodeState /\ u.rx \in Nat /\ u.retry = 0
  <2>1. u \in NodeState /\ u.retry \in Nat /\ u.rx \in Nat
    BY Fields, ParamAssumption DEF EndedState
  <2>2. ~ (u.retry > 0)
    BY DEF EndedState, Good, QueueRight
  <2> QED  BY <2>1, <2>2
<1>2. Asserted(u, u.retry = 0) = u
  BY <1>1 DEF Asserted, NodeState, EndedState
<1>3. PICK p : p = prepareNextFrame(u)
  OBVIOUS
<1>4. PICK q : q = IF u.queue = <<>> THEN <<>> ELSE Tail(u.queue)
  OBVIOUS
<1>5. q \in Seq(Frame)
  <2>1. u.queue \in Seq(Frame)
    BY <1>1, Fields
  <2> QED  BY <1>4, <2>1
<1>6. p = [u EXCEPT !.queue = q, !.retry = 0, !.timeToSend = 0]
  BY <1>3, <1>4 DEF prepareNextFrame
<1>7. 0 \in 0 .. retryLimit /\ 0 \in Nat
  BY ParamAssumption
<1>8. p \in NodeState /\ p.retry = 0
  BY <1>1, <1>5, <1>6, <1>7 DEF NodeState
<1>9. /\ p.ok = u.ok /\ p.rx = u.rx /\ p.idleDest = u.idleDest /\ p.tmr = u.tmr /\ p.input = u.input
  BY <1>1, <1>6 DEF NodeState
<1>10. CASE p.rx > 0
  <2>1. t = [p EXCEPT !.state = "Receive"]
    BY <1>2, <1>3, <1>10 DEF handleSendingBcastFrame
  <2>2. "Receive" \in State
    BY DEF State
  <2>3. t \in NodeState /\ t.state = "Receive"
    BY <1>8, <2>1, <2>2 DEF NodeState
  <2>a. /\ t.ok = p.ok /\ t.rx = p.rx /\ t.idleDest = p.idleDest /\ t.tmr = p.tmr
        /\ t.input = p.input /\ t.retry = p.retry
    BY <1>8, <2>1 DEF NodeState
  <2>4. /\ t.ok = u.ok /\ t.rx = u.rx /\ t.idleDest = {} /\ t.tmr = u.tmr /\ t.input = None
        /\ ~ (t.retry > 0)
    BY <1>8, <1>9, <2>a DEF EndedState
  <2>5. \A x \in Timer : t.tmr[x] = Off
    BY <2>4 DEF EndedState
  <2>6. QueueRight(t)
    BY <2>3, <2>4 DEF QueueRight
  <2>7. TimersRight(t)
    BY <2>3, <2>4, <2>5 DEF TimersRight, Timer
  <2>8. SensesRight(t)
    BY <2>3, <2>4 DEF SensesRight
  <2>9. \A x \in Sending : t.tmr[x] # 0
    BY <2>5 DEF Sending, Timer, Off
  <2> QED  BY <2>3, <2>4, <2>6, <2>7, <2>8, <2>9 DEF EndedState, Good, Sends
<1>11. CASE ~ (p.rx > 0)
  <2>1. p.rx = 0 /\ u.rx = 0 /\ s.rx = 0
    BY <1>1, <1>9, <1>11 DEF EndedState
  <2>2. t \in chkOutputBuffer(p)
    BY <1>2, <1>3, <1>11 DEF handleSendingBcastFrame
  <2>3. Quiet(p)
    BY <1>1, <1>3, <2>1, PrepareQuiet DEF EndedState
  <2>4. Settled(t) /\ t.input = p.input
    BY <2>2, <2>3, ChkOutputSettles
  <2>5. t.input = None
    BY <1>9, <2>4 DEF EndedState
  <2> QED  BY <2>1, <2>4, <2>5, SettledSends
<1> QED  BY <1>10, <1>11

\* The node waits for the acknowledgement of its frame.
LEMMA AwaitAckGood ==
  ASSUME NEW s, Good(s), s.state = "Send", s.queue # <<>>, s.queue[1].addr1 # Broadcast,
         NEW u, EndedState(s, u), NEW t, t = AwaitAck(u)
  PROVE  Sends(s, {}, t)
<1>1. u \in NodeState /\ u.rx \in Nat /\ u.tmr \in [Timer -> Nat \cup {Off}]
  BY Fields DEF EndedState
<1>2. AwaitTime \in Nat /\ AwaitTime > 0
  BY ParamAssumption DEF AwaitTime
<1>3. PICK b, g, k : /\ b = FALSE
                     /\ g = IF u.rx > 0 THEN u.tmr ELSE [u.tmr EXCEPT !["awaitAck"] = AwaitTime]
                     /\ k = IF u.rx > 0 THEN "AwaitACKReceive" ELSE "AwaitACK"
  OBVIOUS
<1>4. t = [u EXCEPT !.ackReceived = b, !.state = k, !.tmr = g]
  <2>1. PICK w : w = [u EXCEPT !.ackReceived = b]
    OBVIOUS
  <2>2. w \in NodeState /\ w.rx = u.rx /\ w.tmr = u.tmr
    BY <1>1, <1>3, <2>1 DEF NodeState
  <2>3. CASE u.rx > 0
    <3>1. t = [w EXCEPT !.state = k]
      BY <1>3, <2>1, <2>2, <2>3 DEF AwaitAck
    <3>2. g = u.tmr
      BY <1>3, <2>3
    <3> QED  BY <1>1, <2>1, <3>1, <3>2 DEF NodeState
  <2>4. CASE ~ (u.rx > 0)
    <3>1. t = [w EXCEPT !.state = k, !.tmr = g]
      BY <1>3, <2>1, <2>2, <2>4 DEF AwaitAck
    <3> QED  BY <1>1, <2>1, <3>1 DEF NodeState
  <2> QED  BY <2>3, <2>4
<1>5. /\ g \in [Timer -> Nat \cup {Off}] /\ g["awaitAck"] # 0
      /\ \A x \in Timer \ {"awaitAck"} : g[x] = Off
  <2>1. Off # 0 /\ \A x \in Timer : u.tmr[x] = Off
    BY DEF Off, EndedState
  <2>2. CASE u.rx > 0
    BY <1>1, <1>3, <2>1, <2>2 DEF Timer
  <2>3. CASE ~ (u.rx > 0)
    BY <1>1, <1>2, <1>3, <2>1, <2>3 DEF Timer
  <2> QED  BY <2>2, <2>3
<1>6. k \in State /\ k \in {"AwaitACK", "AwaitACKReceive"} /\ (k = "AwaitACK" => u.rx = 0)
  BY <1>1, <1>3 DEF State
<1>7. t \in NodeState /\ t.state = k /\ t.tmr = g /\ ~ t.ackReceived
  BY <1>1, <1>3, <1>4, <1>5, <1>6 DEF NodeState
<1>8. /\ t.ok = u.ok /\ t.queue = u.queue /\ t.retry = u.retry /\ t.rx = u.rx
      /\ t.idleDest = u.idleDest /\ t.input = u.input
  BY <1>1, <1>4 DEF NodeState
<1>9. QueueRight(t)
  BY <1>6, <1>7, <1>8 DEF EndedState, QueueRight
<1>10. TimersRight(t)
  BY <1>5, <1>6, <1>7, <1>8 DEF EndedState, TimersRight, Timer
<1>11. SensesRight(t)
  BY <1>6, <1>7, <1>8 DEF EndedState, SensesRight
<1>12. \A x \in Sending : t.tmr[x] # 0
  BY <1>5, <1>7 DEF Sending, Timer, Off
<1> QED  BY <1>7, <1>8, <1>9, <1>10, <1>11, <1>12 DEF EndedState, Good, Sends

\* The acknowledgement has been sent.
LEMMA EndAckGood ==
  ASSUME NEW s, Good(s), s.tmr["endSendAck"] = 0, NEW u, EndedState(s, u),
         NEW t \in IF u.rx = 0 THEN changeNextState(u) ELSE {u}
  PROVE  Sends(s, {}, t)
<1>1. s.state \in {"Receive", "BackoffReceive"} /\ (s.state = "BackoffReceive" => s.queue # <<>>)
  BY DEF Good, TimersRight, QueueRight, Off
<1>2. CASE u.rx = 0
  <2>1. Quiet(u)
    BY <1>2 DEF EndedState, Quiet, Good, QueueRight
  <2>2. Settled(t) /\ t.input = u.input
    BY <1>1, <1>2, <2>1, NextStateSettles DEF EndedState
  <2> QED  BY <1>2, <2>2, SettledSends DEF EndedState
<1>3. CASE u.rx # 0
  <2>1. t = u
    BY <1>3
  <2>2. QueueRight(u)
    BY <1>1 DEF EndedState, Good, QueueRight
  <2>3. TimersRight(u) /\ SensesRight(u)
    BY <1>1 DEF EndedState, TimersRight, SensesRight, Timer
  <2>4. \A x \in Sending : u.tmr[x] # 0
    BY DEF EndedState, Sending, Timer, Off
  <2> QED  BY <2>1, <2>2, <2>3, <2>4 DEF EndedState, Good, Sends
<1> QED  BY <1>2, <1>3


-----------------------------------------------------------------------------
\* What a step does to the node it is about and to the wire.

\* A signal arrives.
Arrival(sig) ==
  \E r \in Nat, t \in NodeState :
    /\ Turns(node[sig.to], r, t)
    /\ Starts(sig) => r = node[sig.to].rx + 1
    /\ ~ Starts(sig) /\ node[sig.to].rx > 0 => r = node[sig.to].rx - 1
    /\ ~ Starts(sig) /\ node[sig.to].rx = 0 => r = 0
    /\ node' = [node EXCEPT ![sig.to] = t] /\ wire' = wire \ {sig}

\* A frame starts to go out to all in range, or its end to those that its start went to.
FrameSent(n) ==
  \E f \in Frame \cup AckFrame, t \in NodeState, x \in Sending :
    /\ node[n].tmr[x] = 0 /\ node[n].idleDest = {} /\ Sends(node[n], Hears[n], t)
    /\ node' = [node EXCEPT ![n] = t] /\ wire' = wire \cup {Signal(n, m, f) : m \in Hears[n]}

FrameEnds(n) ==
  \E t \in NodeState, x \in Sending :
    /\ node[n].tmr[x] = 0 /\ Sends(node[n], {}, t)
    /\ node' = [node EXCEPT ![n] = t]
    /\ wire' = wire \cup {Signal(n, m, None) : m \in node[n].idleDest}

\* Nobody else notices.
Alone(n) ==
  \E t \in NodeState :
    Turns(node[n], node[n].rx, t) /\ node' = [node EXCEPT ![n] = t] /\ wire' = wire

LEMMA AtNode ==
  ASSUME NodesInv, NEW n \in Node
  PROVE  Good(node[n]) /\ node[n] \in NodeState
  BY DEF NodesInv

LEMMA OnWire ==
  ASSUME NodesInv, NEW sig \in wire
  PROVE  sig \in Sig /\ sig.to \in Node /\ sig.from \in Node
  BY DEF NodesInv, WireRight, Sig

LEMMA ArrivalStart ==
  ASSUME NEW sig, Starts(sig), NEW r \in Nat, r = node[sig.to].rx, NEW t,
         Turns(node[sig.to], r + 1, t), node' = [node EXCEPT ![sig.to] = t], wire' = wire \ {sig}
  PROVE  Arrival(sig)
<1>1. t \in NodeState
  BY DEF Turns, Good
<1>2. PICK k \in Nat : k = r + 1
  OBVIOUS
<1>3. Turns(node[sig.to], k, t)
  BY <1>2
<1> QED  BY <1>1, <1>2, <1>3 DEF Arrival

LEMMA ArrivalEnd ==
  ASSUME NEW sig, ~ Starts(sig), NEW r \in Nat, node[sig.to].rx > 0 => r = node[sig.to].rx - 1,
         node[sig.to].rx = 0 => r = 0, NEW t, Turns(node[sig.to], r, t),
         node' = [node EXCEPT ![sig.to] = t], wire' = wire \ {sig}
  PROVE  Arrival(sig)
<1>1. t \in NodeState
  BY DEF Turns, Good
<1> QED  BY <1>1 DEF Arrival

\* The start of a frame.
LEMMA StartArrives ==
  ASSUME NodesInv, NEW sig \in wire,
         IdleData(sig) \/ AwaitACKData(sig) \/ BackoffData(sig) \/ SendData(sig) \/ Collision(sig)
  PROVE  Arrival(sig)
<1> DEFINE s == node[sig.to]
           h == [s EXCEPT !.rx = @ + 1]
<1>1. Good(s) /\ s \in NodeState /\ s.rx \in Nat /\ sig \in Sig /\ sig.to \in Node /\ sig.from \in Node
  BY AtNode, OnWire, Fields
<1>2. Heard(sig.to) = h
  BY DEF Heard
<1>3. Starts(sig) /\ sig.frame # None
  BY DEF Starts, IdleData, AwaitACKData, BackoffData, SendData, Collision, Data
<1>4. ASSUME NEW t, Turns(s, s.rx + 1, t), processData(sig, t)
      PROVE  Arrival(sig)
  <2>1. node' = [node EXCEPT ![sig.to] = t] /\ wire' = wire \ {sig}
    BY <1>4 DEF processData, Becomes
  <2> QED  BY <1>1, <1>3, <1>4, <2>1, ArrivalStart
<1> HIDE DEF h
<1>5. CASE IdleData(sig)
  <2>1. s.state = "Idle" /\ processData(sig, TakeIn(h, sig, "Receive"))
    BY <1>2, <1>5 DEF IdleData, Data, Arrives
  <2>2. Turns(s, s.rx + 1, TakeIn(h, sig, "Receive"))
    BY <1>1, <1>3, <2>1, TakeInGood DEF h
  <2> QED  BY <1>4, <2>1, <2>2
<1>6. CASE AwaitACKData(sig)
  <2>1. s.state = "AwaitACK" /\ processData(sig, TakeIn(h, sig, "AwaitACKReceive"))
    BY <1>2, <1>6 DEF AwaitACKData, Data, Arrives
  <2>2. Turns(s, s.rx + 1, TakeIn(h, sig, "AwaitACKReceive"))
    BY <1>1, <1>3, <2>1, TakeInGood DEF h
  <2> QED  BY <1>4, <2>1, <2>2
<1>7. CASE BackoffData(sig)
  <2>1. s.state = "Backoff" /\ s.tmr["backoff"] # Off
    BY <1>1, <1>7 DEF BackoffData, Data, Arrives, Good, TimersRight
  <2>2. h.tmr = s.tmr
    BY <1>1 DEF h, NodeState
  <2>3. CASE s.tmr["backoff"] < RXTXTURNAROUND
    <3>1. processData(sig, [h EXCEPT !.source = sig.from])
      BY <1>2, <1>7, <2>1, <2>2, <2>3 DEF BackoffData
    <3>2. Turns(s, s.rx + 1, [h EXCEPT !.source = sig.from])
      BY <1>1, <2>1, <2>3, LateGood DEF h
    <3> QED  BY <1>4, <3>1, <3>2
  <2>4. CASE ~ (s.tmr["backoff"] < RXTXTURNAROUND)
    <3>1. processData(sig, TakeIn([contentionInterrupted(h) EXCEPT !.tmr["backoff"] = Off],
                                  sig, "BackoffReceive"))
      BY <1>2, <1>7, <2>1, <2>2, <2>4 DEF BackoffData
    <3>2. Turns(s, s.rx + 1, TakeIn([contentionInterrupted(h) EXCEPT !.tmr["backoff"] = Off],
                                    sig, "BackoffReceive"))
      BY <1>1, <1>3, <2>1, <2>4, InterruptGood DEF h
    <3> QED  BY <1>4, <3>1, <3>2
  <2> QED  BY <2>3, <2>4
<1>8. CASE SendData(sig)
  <2>1. s.state = "Send" /\ processData(sig, h)
    BY <1>2, <1>8 DEF SendData, Data, Arrives
  <2>2. PICK t : t = [[s EXCEPT !.rx = @ + 1] EXCEPT !.input = None]
    OBVIOUS
  <2>3. Turns(s, s.rx + 1, t) /\ h = t
    BY <1>1, <2>1, <2>2, HeardGood DEF h
  <2> QED  BY <1>4, <2>1, <2>3
<1>9. CASE Collision(sig)
  <2>1. /\ s.state \in {"Receive", "BackoffReceive", "AwaitACKReceive"}
        /\ processData(sig, [h EXCEPT !.input = None])
    BY <1>2, <1>9 DEF Collision, Data, Arrives
  <2>2. PICK t : t = [[s EXCEPT !.rx = @ + 1] EXCEPT !.input = None]
    OBVIOUS
  <2>3. Turns(s, s.rx + 1, t) /\ [h EXCEPT !.input = None] = t
    BY <1>1, <2>1, <2>2, HeardGood DEF h
  <2> QED  BY <1>4, <2>1, <2>3
<1> QED  BY <1>5, <1>6, <1>7, <1>8, <1>9


\* What every end of a frame begins with.
LEMMA EndBegins ==
  ASSUME NodesInv, NEW sig \in wire, sig.frame = None, NEW s, s = node[sig.to]
  PROVE  \E r \in Nat : /\ Less(s, r, decNoOfRxFrames(s)) /\ r <= s.rx
                        /\ s.rx > 0 => r = s.rx - 1
                        /\ \A t : /\ Turns(s, r, t)
                                  /\ node' = [node EXCEPT ![sig.to] = t] /\ wire' = wire \ {sig}
                                  => Arrival(sig)
<1>1. Good(s) /\ s \in NodeState /\ s.rx \in Nat
  BY AtNode, OnWire, Fields
<1>2. PICK r \in Nat : /\ Less(s, r, decNoOfRxFrames(s)) /\ (s.rx > 0 => r = s.rx - 1)
                       /\ (s.rx = 0 => r = 0)
  BY <1>1, DecState
<1>3. r <= s.rx
  BY <1>1, <1>2
<1>4. ASSUME NEW t, Turns(s, r, t), node' = [node EXCEPT ![sig.to] = t], wire' = wire \ {sig}
      PROVE  Arrival(sig)
  BY <1>2, <1>4, ArrivalEnd DEF Starts
<1> QED  BY <1>2, <1>3, <1>4

\* The end of a frame that the node was not taking in.
LEMMA OtherEndArrives ==
  ASSUME NodesInv, NEW sig \in wire, OtherIdle(sig) \/ ReceiveNothing(sig)
  PROVE  Arrival(sig)
<1> DEFINE s == node[sig.to]
           u == decNoOfRxFrames(s)
<1>1. Good(s) /\ sig.to \in Node /\ sig.frame = None
  BY AtNode, OnWire DEF OtherIdle, ReceiveNothing, End
<1>2. PICK r \in Nat : /\ Less(s, r, u) /\ r <= s.rx
                       /\ \A t : /\ Turns(s, r, t)
                                 /\ node' = [node EXCEPT ![sig.to] = t] /\ wire' = wire \ {sig}
                                 => Arrival(sig)
  BY <1>1, EndBegins
<1>3. ASSUME NEW t, Turns(s, r, t), processData(sig, t)  PROVE Arrival(sig)
  BY <1>2, <1>3 DEF processData, Becomes
<1> HIDE DEF u
<1>4. CASE OtherIdle(sig)
  <2>1. s.state \in {"Idle", "Backoff", "Send", "AwaitACK"} /\ processData(sig, u)
    BY <1>4 DEF OtherIdle, End, Arrives, u
  <2>2. s.input = None
    BY <1>1, <2>1 DEF Good, SensesRight
  <2>3. Turns(s, r, u)
    BY <1>1, <1>2, <2>2, LessGood
  <2> QED  BY <1>3, <2>1, <2>3
<1>5. CASE ReceiveNothing(sig)
  <2>1. s.state \in {"Receive", "BackoffReceive"}
    BY <1>5 DEF ReceiveNothing, End, Arrives
  <2>2. PICK t \in IF u.input = None /\ u.rx = 0 /\ u.tmr["endSendAck"] = Off /\ u.tmr["sendAck"] = Off
                   THEN changeNextState(u) ELSE {NoInput(u)} : processData(sig, t)
    BY <1>5 DEF ReceiveNothing, u
  <2>3. Turns(s, r, t)
    BY <1>1, <1>2, <2>1, <2>2, NothingGood
  <2> QED  BY <1>3, <2>2, <2>3
<1> QED  BY <1>4, <1>5

\* The end of the frame that the node has taken in: it heard no other.
LEMMA WholeArrives ==
  ASSUME NodesInv, NEW sig \in wire, NEW s, s = node[sig.to], Whole(sig, decNoOfRxFrames(s))
  PROVE  /\ Good(s) /\ Less(s, 0, decNoOfRxFrames(s)) /\ s.input # None
         /\ s.state \in {"Receive", "BackoffReceive"} /\ sig.to \in Node
         /\ \A t : /\ Turns(s, 0, t)
                   /\ node' = [node EXCEPT ![sig.to] = t] /\ wire' = wire \ {sig}
                   => Arrival(sig)
<1>1. Good(s) /\ sig.to \in Node
  BY AtNode, OnWire
<1>2. PICK u : u = decNoOfRxFrames(s)
  OBVIOUS
<1>3. sig.frame = None /\ s.state \in {"Receive", "BackoffReceive"} /\ u.input # None
  BY <1>2 DEF Whole, End, Arrives
<1>4. PICK r \in Nat : /\ Less(s, r, u) /\ (s.rx > 0 => r = s.rx - 1)
                       /\ \A t : /\ Turns(s, r, t)
                                 /\ node' = [node EXCEPT ![sig.to] = t] /\ wire' = wire \ {sig}
                                 => Arrival(sig)
  BY <1>2, <1>3, EndBegins
<1>5. s.input # None
  BY <1>3, <1>4 DEF Less
<1>6. r = 0
  BY <1>1, <1>4, <1>5, WholeAlone
<1> QED  BY <1>1, <1>2, <1>3, <1>4, <1>5, <1>6

LEMMA ErrorArrives ==
  ASSUME NodesInv, NEW sig \in wire, ReceiveError(sig)
  PROVE  Arrival(sig)
<1> DEFINE s == node[sig.to]
           u == decNoOfRxFrames(s)
<1>1. Whole(sig, u) /\ \E t \in changeNextState(u) : processData(sig, NoInput(t))
  BY DEF ReceiveError
<1>2. /\ Good(s) /\ Less(s, 0, u) /\ s.input # None /\ s.state \in {"Receive", "BackoffReceive"}
      /\ \A t : /\ Turns(s, 0, t)
                /\ node' = [node EXCEPT ![sig.to] = t] /\ wire' = wire \ {sig}
                => Arrival(sig)
  BY <1>1, WholeArrives
<1> HIDE DEF u
<1>3. PICK t \in changeNextState(u) : processData(sig, NoInput(t))
  BY <1>1
<1>4. u.seen \in [Node -> Nat]
  BY <1>2, Fields DEF Less
<1>5. t \in changeNextState(u) \cup changeNextState([u EXCEPT !.seen = u.seen])
  BY <1>3
<1>6. Turns(s, 0, NoInput(t))
  BY <1>2, <1>4, <1>5, IgnoredGood
<1> QED  BY <1>2, <1>3, <1>6 DEF processData, Becomes

LEMMA AckArrives ==
  ASSUME NodesInv, NEW sig \in wire, ReceiveAck(sig)
  PROVE  Arrival(sig)
<1> DEFINE s == node[sig.to]
           u == decNoOfRxFrames(s)
<1>1. /\ Whole(sig, u)
      /\ \E t \in IF IsMyAck(sig.to, u) THEN {Finished(u)} ELSE changeNextState(u) :
           Becomes(sig.to, NoInput(t), wire \ {sig})
  BY DEF ReceiveAck
<1>2. /\ Good(s) /\ Less(s, 0, u) /\ s.input # None /\ s.state \in {"Receive", "BackoffReceive"}
      /\ \A t : /\ Turns(s, 0, t)
                /\ node' = [node EXCEPT ![sig.to] = t] /\ wire' = wire \ {sig}
                => Arrival(sig)
  BY <1>1, WholeArrives
<1>3. ~ IsMyAck(sig.to, u)
  BY <1>2 DEF IsMyAck, Less, Good, TimersRight
<1> HIDE DEF u
<1>4. PICK t \in changeNextState(u) : Becomes(sig.to, NoInput(t), wire \ {sig})
  BY <1>1, <1>3
<1>5. u.seen \in [Node -> Nat]
  BY <1>2, Fields DEF Less
<1>6. t \in changeNextState(u) \cup changeNextState([u EXCEPT !.seen = u.seen])
  BY <1>4
<1>7. Turns(s, 0, NoInput(t))
  BY <1>2, <1>5, <1>6, IgnoredGood
<1> QED  BY <1>2, <1>4, <1>7 DEF Becomes

LEMMA AwaitedArrives ==
  ASSUME NodesInv, NEW sig \in wire, AwaitACKReceiveIdle(sig)
  PROVE  Arrival(sig)
<1> DEFINE s == node[sig.to]
           u == decNoOfRxFrames(s)
           whole == u.input # None /\ u.source = sig.from
           mine == whole /\ IsMyAck(sig.to, u)
           awaiting == u.tmr["awaitAck"] # Off
<1>1. Good(s) /\ s.state = "AwaitACKReceive" /\ sig.frame = None
  BY AtNode, OnWire DEF AwaitACKReceiveIdle, End, Arrives
<1>2. PICK r \in Nat : /\ Less(s, r, u) /\ r <= s.rx /\ (s.rx > 0 => r = s.rx - 1)
                       /\ \A t : /\ Turns(s, r, t)
                                 /\ node' = [node EXCEPT ![sig.to] = t] /\ wire' = wire \ {sig}
                                 => Arrival(sig)
  BY <1>1, EndBegins
<1>3. PICK t \in IF mine THEN chkOutputBuffer(Finished(u))
                 ELSE IF whole /\ u.ackReceived THEN chkOutputBuffer(u)
                 ELSE IF (whole /\ awaiting) \/ (u.input = None /\ ~awaiting /\ u.rx = 0)
                 THEN endAwaitACK([u EXCEPT !.tmr["awaitAck"] = Off, !.state = "AwaitACK"])
                 ELSE {u} : Becomes(sig.to, NoInput(t), wire \ {sig})
  BY DEF AwaitACKReceiveIdle
<1>4. whole \in BOOLEAN /\ (whole => u.input # None) /\ (mine => whole)
  OBVIOUS
<1>5. PICK m \in BOOLEAN : m = mine
  BY DEF IsMyAck
<1> HIDE DEF u, whole, mine, awaiting
<1>6. t \in IF m THEN chkOutputBuffer(Finished(u))
            ELSE IF whole /\ u.ackReceived THEN chkOutputBuffer(u)
            ELSE IF (whole /\ awaiting) \/ (u.input = None /\ ~awaiting /\ u.rx = 0)
            THEN endAwaitACK([u EXCEPT !.tmr["awaitAck"] = Off, !.state = "AwaitACK"])
            ELSE {u}
  BY <1>3, <1>5
<1>7. m => whole
  BY <1>4, <1>5
<1>8. Turns(s, r, NoInput(t))
  BY <1>1, <1>2, <1>4, <1>6, <1>7, AwaitIdleGood
<1> QED  BY <1>2, <1>3, <1>8 DEF Becomes


LEMMA DataIsFrame ==
  ASSUME NEW f \in Frame \cup AckFrame \cup {None}, f # None, f.type = "DATA"
  PROVE  f \in Frame /\ f.addr2 \in Node /\ f.seq \in Nat
<1>1. f \notin AckFrame
  BY DEF AckFrame
<1>2. f \in Frame
  BY <1>1
<1> QED  BY <1>2 DEF Frame

LEMMA StationArrives ==
  ASSUME NodesInv, NEW sig \in wire, StationData(sig)
  PROVE  Arrival(sig)
<1> DEFINE n == sig.to
           s == node[n]
           u == decNoOfRxFrames(s)
           f == u.input
           w == [u EXCEPT !.seen[AP] = f.seq]
           takes == StationTakes(n, u, f)
<1>1. /\ Whole(sig, u) /\ f.type = "DATA"
      /\ \E t \in IF takes /\ f.addr1 # Broadcast THEN {scheduleAck(w, f.addr2)}
                  ELSE changeNextState(IF takes THEN w ELSE u) :
           Becomes(n, NoInput(t), wire \ {sig})
  BY DEF StationData
<1>2. /\ Good(s) /\ Less(s, 0, u) /\ s.input # None /\ s.state \in {"Receive", "BackoffReceive"}
      /\ \A t : /\ Turns(s, 0, t)
                /\ node' = [node EXCEPT ![n] = t] /\ wire' = wire \ {sig}
                => Arrival(sig)
  BY <1>1, WholeArrives
<1>3. takes => f.addr2 = AP
  BY DEF StationTakes
<1>4. PICK o : o = takes
  OBVIOUS
<1>5. /\ \E t \in IF o /\ f.addr1 # Broadcast THEN {scheduleAck(w, f.addr2)}
                  ELSE changeNextState(IF o THEN w ELSE u) :
           Becomes(n, NoInput(t), wire \ {sig})
      /\ o => f.addr2 = AP
  BY <1>1, <1>3, <1>4
<1> HIDE DEF u, takes
<1>6. u.seen \in [Node -> Nat] /\ f \in Frame /\ f.addr2 \in Node /\ f.seq \in Nat
  <2>1. u \in NodeState /\ f # None
    BY <1>2 DEF Less
  <2>2. u.seen \in [Node -> Nat] /\ f \in Frame \cup AckFrame \cup {None}
    BY <2>1, Fields
  <2> QED  BY <1>1, <2>1, <2>2, DataIsFrame
<1>7. PICK g : g = [u.seen EXCEPT ![AP] = f.seq]
  OBVIOUS
<1>8. g \in [Node -> Nat] /\ w = [u EXCEPT !.seen = g]
  BY <1>6, <1>7
<1> HIDE DEF w
<1>9. PICK t \in IF o /\ f.addr1 # Broadcast THEN {scheduleAck(w, f.addr2)}
                 ELSE changeNextState(IF o THEN w ELSE u) :
        Becomes(n, NoInput(t), wire \ {sig})
  BY <1>5
<1>10. Turns(s, 0, NoInput(t))
  <2>1. CASE o /\ f.addr1 # Broadcast
    <3>1. t = scheduleAck(w, f.addr2)
      BY <1>9, <2>1
    <3>2. AckPending(s, t)
      BY <1>2, <1>6, <1>8, <3>1, ScheduleState
    <3> QED  BY <1>2, <3>2, AckPendingGood
  <2>2. CASE ~ (o /\ f.addr1 # Broadcast)
    <3>1. t \in changeNextState(IF o THEN w ELSE u)
      BY <1>9, <2>2
    <3>2. t \in changeNextState(u) \cup changeNextState([u EXCEPT !.seen = g])
      <4>1. CASE o
        BY <1>8, <3>1, <4>1
      <4>2. CASE ~ o
        BY <3>1, <4>2
      <4> QED  BY <4>1, <4>2
    <3> QED  BY <1>2, <1>8, <3>2, IgnoredGood
  <2> QED  BY <2>1, <2>2
<1> QED  BY <1>2, <1>9, <1>10 DEF Becomes

LEMMA AccessPointArrives ==
  ASSUME NodesInv, NEW sig \in wire, AccessPointData(sig)
  PROVE  Arrival(sig)
<1> DEFINE s == node[AP]
           u == decNoOfRxFrames(s)
           f == u.input
           w == scheduleAck(u, f.addr2)
           mine == isFrameForMe(AP, f)
           new == mine /\ IsNew(u, f)
<1>1. /\ sig.to = AP /\ Whole(sig, u) /\ f.type = "DATA"
      /\ \E t \in IF mine THEN {IF new THEN Forward([w EXCEPT !.seen[f.addr2] = f.seq], f) ELSE w}
                  ELSE changeNextState(u) : Becomes(AP, NoInput(t), wire \ {sig})
  BY DEF AccessPointData
<1>2. /\ Good(s) /\ Less(s, 0, u) /\ s.input # None /\ s.state \in {"Receive", "BackoffReceive"}
      /\ \A t : /\ Turns(s, 0, t)
                /\ node' = [node EXCEPT ![AP] = t] /\ wire' = wire \ {sig}
                => Arrival(sig)
  BY <1>1, WholeArrives
<1> HIDE DEF u, mine, new
<1>3. u.seen \in [Node -> Nat] /\ f \in Frame /\ f.addr2 \in Node /\ f.seq \in Nat
  <2>1. u \in NodeState /\ f # None
    BY <1>2 DEF Less
  <2>2. u.seen \in [Node -> Nat] /\ f \in Frame \cup AckFrame \cup {None}
    BY <2>1, Fields
  <2> QED  BY <1>1, <2>1, <2>2, DataIsFrame
<1> HIDE DEF f
<1>4. AckPending(s, w)
  BY <1>2, <1>3, ScheduleState
<1> HIDE DEF w
<1>5. AckPending(s, Forward([w EXCEPT !.seen[f.addr2] = f.seq], f))
  BY <1>3, <1>4, ForwardState
<1>6. PICK t \in IF mine THEN {IF new THEN Forward([w EXCEPT !.seen[f.addr2] = f.seq], f) ELSE w}
                 ELSE changeNextState(u) : Becomes(AP, NoInput(t), wire \ {sig})
  BY <1>1
<1>7. Turns(s, 0, NoInput(t))
  <2>1. CASE mine
    <3>1. AckPending(s, t)
      BY <1>4, <1>5, <1>6, <2>1
    <3> QED  BY <1>2, <3>1, AckPendingGood
  <2>2. CASE ~ mine
    <3>1. t \in changeNextState(u) \cup changeNextState([u EXCEPT !.seen = u.seen])
      BY <1>6, <2>2
    <3> QED  BY <1>2, <1>3, <3>1, IgnoredGood
  <2> QED  BY <2>1, <2>2
<1> QED  BY <1>2, <1>6, <1>7 DEF Becomes


\* What the node itself does.
LEMMA ReadySends ==
  ASSUME NodesInv, NEW n \in Node, readyToSend(n)
  PROVE  FrameSent(n)
<1> DEFINE s == node[n]
           e == [s EXCEPT !.tmr["backoff"] = Off]
           w == [e EXCEPT !.state = "Send", !.tmr["endSendData"] = DATATIME]
<1>1. Good(s) /\ s \in NodeState /\ s.tmr["backoff"] = 0
  BY AtNode DEF readyToSend, Expires
<1>2. PICK d, t : d = Hears[n] /\ t = [w EXCEPT !.idleDest = d]
  OBVIOUS
<1>3. d \in SUBSET Node
  BY <1>2, ParamAssumption
<1>4. Sends(s, d, t) /\ s.queue # <<>> /\ Head(s.queue) \in Frame
  BY <1>1, <1>2, <1>3, ReadyGood
<1>5. e.queue = s.queue
  BY <1>1 DEF NodeState
<1>6. sendFrame(n, w, Head(s.queue))
  BY <1>4, <1>5 DEF readyToSend, Expired
<1>7. node' = [node EXCEPT ![n] = t] /\ wire' = wire \cup {Signal(n, m, Head(s.queue)) : m \in Hears[n]}
  BY <1>2, <1>6 DEF sendFrame, Becomes
<1>8. s.idleDest = {}
  BY <1>1 DEF Good, TimersRight, Off
<1>9. t \in NodeState /\ "backoff" \in Sending
  BY <1>4 DEF Sends, Good, Sending
<1> HIDE DEF w
<1> QED  BY <1>1, <1>2, <1>4, <1>7, <1>8, <1>9 DEF FrameSent

LEMMA AckSends ==
  ASSUME NodesInv, NEW n \in Node, sendAck(n)
  PROVE  FrameSent(n)
<1> DEFINE s == node[n]
           e == [s EXCEPT !.tmr["sendAck"] = Off]
<1>1. Good(s) /\ s \in NodeState /\ s.tmr["sendAck"] = 0
  BY AtNode DEF sendAck, Expires
<1>2. PICK d, w, t : /\ d = Hears[n] /\ w = [e EXCEPT !.tmr["endSendAck"] = ACKTIME, !.ackTo = None]
                     /\ t = [w EXCEPT !.idleDest = d]
  OBVIOUS
<1>3. d \in SUBSET Node
  BY <1>2, ParamAssumption
<1>4. /\ Sends(s, d, t) /\ e.ackTo \in Node \cup {None}
      /\ e \in NodeState /\ e.ok /\ e.tmr["endSendAck"] = Off
  BY <1>1, <1>2, <1>3, SendAckGood
<1>5. Asserted(e, e.tmr["endSendAck"] = Off) = e
  BY <1>4 DEF Asserted, NodeState
<1>6. sendFrame(n, w, [type |-> "ACK", addr1 |-> e.ackTo])
  BY <1>2, <1>5 DEF sendAck, Expired
<1>7. PICK f : f = [type |-> "ACK", addr1 |-> e.ackTo]
  OBVIOUS
<1>8. f \in AckFrame
  BY <1>4, <1>7 DEF AckFrame
<1>9. node' = [node EXCEPT ![n] = t] /\ wire' = wire \cup {Signal(n, m, f) : m \in Hears[n]}
  BY <1>2, <1>6, <1>7 DEF sendFrame, Becomes
<1>10. s.idleDest = {}
  BY <1>1 DEF Good, TimersRight, Off
<1>11. t \in NodeState /\ "sendAck" \in Sending
  BY <1>4 DEF Sends, Good, Sending
<1> HIDE DEF e
<1> QED  BY <1>1, <1>2, <1>4, <1>8, <1>9, <1>10, <1>11 DEF FrameSent

LEMMA EndSends ==
  ASSUME NodesInv, NEW n \in Node, endSendingData(n) \/ endSendingAck(n)
  PROVE  FrameEnds(n)
<1> DEFINE s == node[n]
<1>1. Good(s) /\ s \in NodeState
  BY AtNode
<1>2. ASSUME NEW t, Sends(s, {}, t), sendEndOfFrame(n, t), NEW x \in Sending, s.tmr[x] = 0
      PROVE  FrameEnds(n)
  <2>1. t \in NodeState
    BY <1>2 DEF Sends, Good
  <2>2. node' = [node EXCEPT ![n] = t] /\ wire' = wire \cup {Signal(n, m, None) : m \in node[n].idleDest}
    BY <1>2 DEF sendEndOfFrame, Becomes
  <2> QED  BY <1>2, <2>1, <2>2 DEF FrameEnds
<1>3. CASE endSendingData(n)
  <2>1. PICK u : u = [[s EXCEPT !.tmr["endSendData"] = Off] EXCEPT !.idleDest = {}]
    OBVIOUS
  <2>2. u = Ended(n, "endSendData") /\ s.tmr["endSendData"] = 0
    BY <1>3, <2>1 DEF Ended, Expired, endSendingData, Expires
  <2>3. EndedState(s, u)
    BY <1>1, <2>1, <2>2, EndedIs
  <2>4. s.state = "Send" /\ s.queue # <<>> /\ u.queue = s.queue /\ s.queue \in Seq(Frame)
    BY <1>1, <2>2, <2>3, Fields DEF Good, TimersRight, QueueRight, EndedState, Off
  <2>5. Head(u.queue) = s.queue[1]
    BY <2>4
  <2>6. PICK t \in IF s.queue[1].addr1 = Broadcast THEN handleSendingBcastFrame(u) ELSE {AwaitAck(u)} :
          sendEndOfFrame(n, t)
    BY <1>3, <2>2, <2>4, <2>5 DEF endSendingData
  <2>7. Sends(s, {}, t)
    <3>1. CASE s.queue[1].addr1 = Broadcast
      BY <1>1, <2>3, <2>4, <2>6, <3>1, BroadcastGood
    <3>2. CASE s.queue[1].addr1 # Broadcast
      BY <1>1, <2>3, <2>4, <2>6, <3>2, AwaitAckGood
    <3> QED  BY <3>1, <3>2
  <2> QED  BY <1>2, <2>2, <2>6, <2>7 DEF Sending
<1>4. CASE endSendingAck(n)
  <2>1. PICK u : u = [[s EXCEPT !.tmr["endSendAck"] = Off] EXCEPT !.idleDest = {}]
    OBVIOUS
  <2>2. u = Ended(n, "endSendAck") /\ s.tmr["endSendAck"] = 0
    BY <1>4, <2>1 DEF Ended, Expired, endSendingAck, Expires
  <2>3. EndedState(s, u)
    BY <1>1, <2>1, <2>2, EndedIs
  <2>4. PICK t \in IF u.rx = 0 THEN changeNextState(u) ELSE {u} : sendEndOfFrame(n, t)
    BY <1>4, <2>2 DEF endSendingAck
  <2>5. Sends(s, {}, t)
    BY <1>1, <2>2, <2>3, <2>4, EndAckGood
  <2> QED  BY <1>2, <2>2, <2>4, <2>5 DEF Sending
<1> QED  BY <1>3, <1>4

LEMMA TimeoutAlone ==
  ASSUME NodesInv, NEW n \in Node, awaitAckTimeout(n)
  PROVE  Alone(n)
<1>1. Good(node[n]) /\ node[n].tmr["awaitAck"] = 0
  BY AtNode DEF awaitAckTimeout, Expires
<1>2. PICK t \in endAwaitACK([node[n] EXCEPT !.tmr["awaitAck"] = Off]) :
        node' = [node EXCEPT ![n] = t] /\ wire' = wire
  BY DEF awaitAckTimeout, Becomes, Expired
<1>3. Turns(node[n], node[n].rx, t)
  BY <1>1, <1>2, TimeoutGood
<1>4. t \in NodeState
  BY <1>3 DEF Turns, Good
<1> QED  BY <1>2, <1>3, <1>4 DEF Alone

LEMMA UpperFrame ==
  ASSUME NodesInv, NEW n \in Node, NEW to \in Traffic[n], NEW f,
         f = createFrame(n, node[n], IF n = AP THEN Wired ELSE n, to)
  PROVE  f \in Frame
<1>1. node[n].sequenceNumber \in Nat /\ AP \in Node
  BY AtNode, Fields DEF Node
<1>2. CASE n = AP
  <2>1. to \in Node \cup {Broadcast}
    BY <1>2, ParamAssumption DEF Node
  <2> QED  BY <1>1, <1>2, <2>1 DEF createFrame, Frame
<1>3. CASE n # AP
  <2>1. n \in MS /\ to \in Node \cup {Wired, Broadcast}
    BY <1>3, ParamAssumption DEF Node
  <2> QED  BY <1>1, <1>3, <2>1 DEF createFrame, Frame
<1> QED  BY <1>2, <1>3

LEMMA UpperAlone ==
  ASSUME NodesInv, NEW n \in Node, receiveData(n)
  PROVE  Alone(n)
<1> DEFINE s == node[n]
<1>1. Good(s) /\ s \in NodeState
  BY AtNode
<1>2. PICK to \in Traffic[n] :
        LET w == insertFrame(incrementSequenceNumber(s),
                             createFrame(n, s, IF n = AP THEN Wired ELSE n, to))
        IN  \E t \in IF w.state = "Idle" THEN chkOutputBuffer(w) ELSE {w} : Becomes(n, t, wire)
  BY DEF receiveData
<1>3. PICK f : f = createFrame(n, s, IF n = AP THEN Wired ELSE n, to)
  OBVIOUS
<1>4. PICK w : w = insertFrame(incrementSequenceNumber(s), f)
  OBVIOUS
<1>5. PICK t \in IF w.state = "Idle" THEN chkOutputBuffer(w) ELSE {w} : Becomes(n, t, wire)
  BY <1>2, <1>3, <1>4
<1>6. f \in Frame
  BY <1>3, UpperFrame
<1>7. Turns(s, s.rx, w)
  BY <1>1, <1>4, <1>6, InsertGood
<1>8. Turns(s, s.rx, t)
  <2>1. CASE w.state = "Idle"
    <3>1. Quiet(w) /\ w.input = None
      BY <1>7, <2>1, QuietWhenIdle DEF Turns
    <3>2. Settled(t) /\ t.input = None
      BY <1>5, <2>1, <3>1, ChkOutputSettles
    <3>3. s.idleDest = {} /\ s.rx = 0
      BY <1>7, <3>1 DEF Turns, Quiet
    <3> QED  BY <3>2, <3>3, SettledTurns
  <2>2. CASE w.state # "Idle"
    BY <1>5, <1>7, <2>2
  <2> QED  BY <2>1, <2>2
<1>9. t \in NodeState
  BY <1>8 DEF Turns, Good
<1> QED  BY <1>5, <1>8, <1>9 DEF Alone, Becomes


\* Time passes.
LEMMA LaterGood ==
  ASSUME NEW s, Good(s), \A x \in Timer : s.tmr[x] # 0, NEW f,
         f = [x \in Timer |-> IF s.tmr[x] = Off THEN Off ELSE s.tmr[x] - 1],
         NEW t, t = [s EXCEPT !.tmr = f]
  PROVE  Good(t) /\ t.rx = s.rx /\ t.idleDest = s.idleDest
<1>1. s \in NodeState /\ s.tmr \in [Timer -> Nat \cup {Off}] /\ s.timeToSend \in Nat
  BY Fields DEF Good
<1>2. /\ f \in [Timer -> Nat \cup {Off}]
      /\ \A x \in Timer : f[x] # Off <=> s.tmr[x] # Off
      /\ \A x \in Timer : s.tmr[x] # Off => s.tmr[x] \in Nat /\ f[x] = s.tmr[x] - 1
  <2>1. ASSUME NEW x \in Timer
        PROVE  /\ f[x] \in Nat \cup {Off} /\ (f[x] # Off <=> s.tmr[x] # Off)
               /\ s.tmr[x] # Off => s.tmr[x] \in Nat /\ f[x] = s.tmr[x] - 1
    <3>1. s.tmr[x] \in Nat \cup {Off} /\ s.tmr[x] # 0
      BY <1>1
    <3>2. CASE s.tmr[x] = Off
      <4>1. f[x] = Off
        BY <3>2
      <4> QED  BY <3>2, <4>1
    <3>3. CASE s.tmr[x] # Off
      <4>1. f[x] = s.tmr[x] - 1
        BY <3>3
      <4>2. s.tmr[x] \in Nat /\ s.tmr[x] - 1 \in Nat
        BY <3>1, <3>3
      <4>3. f[x] # Off
        BY <4>1, <4>2 DEF Off
      <4> QED  BY <3>3, <4>1, <4>2, <4>3
    <3> QED  BY <3>2, <3>3
  <2>2. f \in [Timer -> Nat \cup {Off}]
    BY <2>1
  <2> QED  BY <2>1, <2>2
<1>3. t \in NodeState /\ t.tmr = f
  BY <1>1, <1>2 DEF NodeState
<1>4. /\ t.ok = s.ok /\ t.queue = s.queue /\ t.retry = s.retry /\ t.rx = s.rx /\ t.input = s.input
      /\ t.state = s.state /\ t.idleDest = s.idleDest /\ t.timeToSend = s.timeToSend
      /\ t.ackReceived = s.ackReceived
  BY <1>1 DEF NodeState
<1>5. QueueRight(t)
  BY <1>4 DEF Good, QueueRight
<1>6. /\ t.tmr["backoff"] # Off <=> s.tmr["backoff"] # Off
      /\ t.tmr["awaitAck"] # Off <=> s.tmr["awaitAck"] # Off
      /\ t.tmr["sendAck"] # Off <=> s.tmr["sendAck"] # Off
      /\ t.tmr["endSendAck"] # Off <=> s.tmr["endSendAck"] # Off
      /\ t.tmr["endSendData"] # Off <=> s.tmr["endSendData"] # Off
  BY <1>2, <1>3 DEF Timer
<1>7. TimersRight(t)
  BY <1>4, <1>6 DEF Good, TimersRight
<1>8. SensesRight(t)
  <2>1. CASE s.state = "Backoff"
    <3>1. s.tmr["backoff"] # Off /\ s.tmr["backoff"] <= s.timeToSend /\ s.timeToSend > 0
      BY <2>1 DEF Good, TimersRight, SensesRight
    <3>2. s.tmr["backoff"] \in Nat /\ t.tmr["backoff"] = s.tmr["backoff"] - 1
      BY <1>2, <1>3, <3>1 DEF Timer
    <3>3. t.tmr["backoff"] <= t.timeToSend /\ t.timeToSend > 0
      BY <1>1, <1>4, <3>1, <3>2
    <3>4. t.rx > 0 => t.tmr["backoff"] < RXTXTURNAROUND
      <4>1. RXTXTURNAROUND \in Nat
        BY ParamAssumption
      <4>2. s.rx > 0 => s.tmr["backoff"] < RXTXTURNAROUND
        BY <2>1 DEF Good, SensesRight
      <4> QED  BY <1>4, <3>2, <4>1, <4>2
    <3> QED  BY <1>4, <2>1, <3>3, <3>4 DEF Good, SensesRight
  <2>2. CASE s.state # "Backoff"
    BY <1>4, <2>2 DEF Good, SensesRight
  <2> QED  BY <2>1, <2>2
<1> QED  BY <1>3, <1>4, <1>5, <1>7, <1>8 DEF Good

\* Every step is one of these.
LEMMA StepIs ==
  ASSUME NodesInv, [Next]_vars
  PROVE  \/ \E sig \in wire : Arrival(sig)
         \/ \E n \in Node : FrameSent(n)
         \/ \E n \in Node : FrameEnds(n)
         \/ \E n \in Node : Alone(n)
         \/ Tick
         \/ UNCHANGED <<node, wire>>
<1>1. ASSUME NEW sig \in wire,
             \/ IdleData(sig) \/ AwaitACKData(sig) \/ BackoffData(sig) \/ SendData(sig) \/ Collision(sig)
             \/ OtherIdle(sig) \/ ReceiveNothing(sig) \/ ReceiveError(sig) \/ StationData(sig)
             \/ AccessPointData(sig) \/ ReceiveAck(sig) \/ AwaitACKReceiveIdle(sig)
      PROVE  Arrival(sig)
  <2>1. CASE IdleData(sig) \/ AwaitACKData(sig) \/ BackoffData(sig) \/ SendData(sig) \/ Collision(sig)
    BY <2>1, StartArrives
  <2>2. CASE OtherIdle(sig) \/ ReceiveNothing(sig)
    BY <2>2, OtherEndArrives
  <2>3. CASE ReceiveError(sig)
    BY <2>3, ErrorArrives
  <2>4. CASE StationData(sig)
    BY <2>4, StationArrives
  <2>5. CASE AccessPointData(sig)
    BY <2>5, AccessPointArrives
  <2>6. CASE ReceiveAck(sig)
    BY <2>6, AckArrives
  <2>7. CASE AwaitACKReceiveIdle(sig)
    BY <2>7, AwaitedArrives
  <2> QED  BY <1>1, <2>1, <2>2, <2>3, <2>4, <2>5, <2>6, <2>7
<1>2. ASSUME NEW n \in Node,
             \/ readyToSend(n) \/ endSendingData(n) \/ awaitAckTimeout(n) \/ sendAck(n)
             \/ endSendingAck(n) \/ receiveData(n)
      PROVE  FrameSent(n) \/ FrameEnds(n) \/ Alone(n)
  BY <1>2, ReadySends, AckSends, EndSends, TimeoutAlone, UpperAlone
<1> QED  BY <1>1, <1>2 DEF Next, Event, vars

\* Nothing but the signals that have not arrived is on the wire.
LEMMA ArrivalKeepsNodes ==
  ASSUME NodesInv, NEW sig \in wire, Arrival(sig)
  PROVE  NodesInv'
<1>1. PICK r \in Nat, t \in NodeState :
        /\ Turns(node[sig.to], r, t)
        /\ node' = [node EXCEPT ![sig.to] = t] /\ wire' = wire \ {sig}
  BY DEF Arrival
<1>2. sig.to \in Node /\ node \in [Node -> NodeState]
  BY OnWire DEF NodesInv
<1>3. node' \in [Node -> NodeState]
  BY <1>1, <1>2
<1>4. ASSUME NEW m \in Node  PROVE Good(node'[m]) /\ \A x \in Timer : node'[m].tmr[x] = 0 => node[m].tmr[x] = 0
  BY <1>1, <1>2 DEF NodesInv, Turns
<1>5. WireRight'
  BY <1>1, <1>4, OnWire DEF NodesInv, WireRight, Sending, Timer
<1> QED  BY <1>3, <1>4, <1>5 DEF NodesInv

LEMMA AloneKeepsNodes ==
  ASSUME NodesInv, NEW n \in Node, Alone(n)
  PROVE  NodesInv'
<1>1. PICK t \in NodeState :
        /\ Turns(node[n], node[n].rx, t) /\ node' = [node EXCEPT ![n] = t] /\ wire' = wire
  BY DEF Alone
<1>2. node' \in [Node -> NodeState]
  BY <1>1 DEF NodesInv
<1>3. ASSUME NEW m \in Node  PROVE Good(node'[m]) /\ \A x \in Timer : node'[m].tmr[x] = 0 => node[m].tmr[x] = 0
  BY <1>1 DEF NodesInv, Turns
<1>4. WireRight'
  BY <1>1, <1>3, OnWire DEF NodesInv, WireRight, Sending, Timer
<1> QED  BY <1>2, <1>3, <1>4 DEF NodesInv

LEMMA SendKeepsNodes ==
  ASSUME NodesInv, NEW n \in Node, NEW d, NEW t \in NodeState, Sends(node[n], d, t),
         NEW M \in SUBSET Node, NEW f \in Frame \cup AckFrame \cup {None},
         node' = [node EXCEPT ![n] = t], wire' = wire \cup {Signal(n, m, f) : m \in M}
  PROVE  NodesInv'
<1>1. node' \in [Node -> NodeState]
  BY DEF NodesInv
<1>2. ASSUME NEW m \in Node  PROVE Good(node'[m])
  BY DEF NodesInv, Sends
<1>3. ASSUME NEW sig \in wire'
      PROVE  sig \in Sig /\ \A x \in Sending : node'[sig.from].tmr[x] # 0
  <2>1. CASE sig \in wire
    <3>1. sig \in Sig /\ \A x \in Sending : node[sig.from].tmr[x] # 0
      BY <2>1, OnWire DEF NodesInv, WireRight
    <3>2. CASE sig.from = n
      BY <3>1, <3>2 DEF NodesInv, Sends
    <3>3. CASE sig.from # n
      BY <3>1, <3>3, OnWire DEF NodesInv
    <3> QED  BY <3>2, <3>3
  <2>2. CASE sig \notin wire
    <3>1. PICK m \in M : sig = Signal(n, m, f)
      BY <1>3, <2>2
    <3>2. sig \in Sig /\ sig.from = n
      BY <3>1 DEF Signal, Sig
    <3>3. \A x \in Sending : node'[n].tmr[x] # 0
      BY DEF NodesInv, Sends
    <3> QED  BY <3>2, <3>3
  <2> QED  BY <2>1, <2>2
<1>4. WireRight'
  BY <1>3 DEF WireRight, Sig
<1> QED  BY <1>1, <1>2, <1>4 DEF NodesInv

LEMMA TickKeepsNodes ==
  ASSUME NodesInv, Tick
  PROVE  /\ NodesInv' /\ wire = {} /\ wire' = {}
         /\ \A n \in Node : node'[n].rx = node[n].rx /\ node'[n].idleDest = node[n].idleDest
<1>1. wire = {} /\ wire' = {}
  BY DEF Tick
<1>2. ASSUME NEW n \in Node
      PROVE  /\ Good(node'[n]) /\ node'[n] \in NodeState
             /\ node'[n].rx = node[n].rx /\ node'[n].idleDest = node[n].idleDest
  <2>1. PICK f : f = [x \in Timer |-> IF node[n].tmr[x] = Off THEN Off ELSE node[n].tmr[x] - 1]
    OBVIOUS
  <2>2. node'[n] = [node[n] EXCEPT !.tmr = f]
    BY <2>1 DEF Tick
  <2>3. \A x \in Timer : node[n].tmr[x] # 0
    BY DEF Tick
  <2>4. Good(node[n])
    BY AtNode
  <2>5. Good(node'[n]) /\ node'[n].rx = node[n].rx /\ node'[n].idleDest = node[n].idleDest
    BY <2>1, <2>2, <2>3, <2>4, LaterGood
  <2> QED  BY <2>5 DEF Good
<1>3. node' \in [Node -> NodeState]
  <2>1. \E g : node' = [n \in Node |-> g[n]]
    <3>1. node' = [n \in Node |-> node'[n]]
      BY DEF Tick
    <3> QED  BY <3>1
  <2> QED  BY <1>2, <2>1
<1> QED  BY <1>1, <1>2, <1>3 DEF NodesInv, WireRight

LEMMA StepKeepsNodes ==
  ASSUME NodesInv, [Next]_vars
  PROVE  NodesInv'
<1>1. CASE \E sig \in wire : Arrival(sig)
  BY <1>1, ArrivalKeepsNodes
<1>2. CASE \E n \in Node : Alone(n)
  BY <1>2, AloneKeepsNodes
<1>3. ASSUME NEW n \in Node, FrameSent(n)  PROVE NodesInv'
  <2>1. PICK M : M = Hears[n]
    OBVIOUS
  <2>2. M \in SUBSET Node
    BY <2>1, ParamAssumption
  <2>3. PICK f \in Frame \cup AckFrame, t \in NodeState :
          /\ Sends(node[n], M, t) /\ node' = [node EXCEPT ![n] = t]
          /\ wire' = wire \cup {Signal(n, m, f) : m \in M}
    BY <1>3, <2>1 DEF FrameSent
  <2> QED  BY <2>2, <2>3, SendKeepsNodes
<1>4. ASSUME NEW n \in Node, FrameEnds(n)  PROVE NodesInv'
  <2>1. node[n].idleDest \in SUBSET Node
    BY AtNode, Fields
  <2> QED  BY <1>4, <2>1, SendKeepsNodes DEF FrameEnds
<1>5. CASE Tick
  BY <1>5, TickKeepsNodes
<1>6. CASE UNCHANGED <<node, wire>>
  BY <1>6 DEF NodesInv, WireRight
<1> QED  BY <1>1, <1>2, <1>3, <1>4, <1>5, <1>6, StepIs


LEMMA FreshGood ==
  Good(Fresh) /\ Fresh.rx = 0 /\ Fresh.idleDest = {}
<1>1. retryLimit \in Nat
  BY ParamAssumption
<1>2. Fresh \in NodeState
  <2>1. PICK f : f = [t \in Timer |-> Off]
    OBVIOUS
  <2>2. f \in [Timer -> Nat \cup {Off}]
    BY <2>1
  <2>3. PICK g : g = [m \in Node |-> 0]
    OBVIOUS
  <2>4. g \in [Node -> Nat]
    BY <2>3
  <2>5. <<>> \in Seq(Frame) /\ "Idle" \in State /\ 0 \in 0 .. retryLimit
    BY <1>1 DEF State
  <2>6. PICK o : o = None
    OBVIOUS
  <2>7. o \in Node \cup {None} /\ o \in Frame \cup AckFrame \cup {None}
    BY <2>6
  <2>8. Fresh = [ok |-> TRUE, state |-> "Idle", queue |-> <<>>, retry |-> 0, timeToSend |-> 0,
                 rx |-> 0, input |-> o, source |-> o, ackReceived |-> FALSE, ackTo |-> o,
                 tmr |-> f, sequenceNumber |-> 1, seen |-> g, idleDest |-> {}]
    BY <2>1, <2>3, <2>6 DEF Fresh
  <2> QED  BY <2>2, <2>4, <2>5, <2>7, <2>8 DEF NodeState
<1>3. /\ Fresh.ok /\ Fresh.state = "Idle" /\ Fresh.retry = 0 /\ Fresh.rx = 0 /\ Fresh.input = None
      /\ Fresh.idleDest = {} /\ \A t \in Timer : Fresh.tmr[t] = Off
  BY DEF Fresh
<1>4. QueueRight(Fresh)
  BY <1>3 DEF QueueRight
<1>5. TimersRight(Fresh)
  BY <1>3 DEF TimersRight, Timer
<1>6. SensesRight(Fresh)
  BY <1>3 DEF SensesRight
<1> QED  BY <1>2, <1>3, <1>4, <1>5, <1>6 DEF Good

LEMMA InitNodes ==
  ASSUME Init
  PROVE  NodesInv
<1>1. node = [n \in Node |-> Fresh] /\ wire = {}
  BY DEF Init
<1>2. Fresh \in NodeState
  BY FreshGood DEF Good
<1> HIDE DEF Fresh
<1> QED  BY <1>1, <1>2, FreshGood DEF NodesInv, WireRight

LEMMA NodesAreRight ==
  Spec => []NodesInv
<1>1. Init => NodesInv
  BY InitNodes
<1>2. NodesInv /\ [Next]_vars => NodesInv'
  BY StepKeepsNodes
<1> QED  BY <1>1, <1>2, PTL DEF Spec

\* No assertion of the handlers fails, however frames start, end, collide and are repeated
\* and whatever a handler was waiting for: a timer runs only in the state whose handler
\* expects it, a frame that is awaited or sent again is in the queue, and what a node takes
\* in is all that it hears.
THEOREM AssertionsHold ==
  Spec => []NoAssertionFails
<1>1. NodesInv => NoAssertionFails
  BY AtNode DEF Good, NoAssertionFails, Running
<1> QED  BY <1>1, NodesAreRight, PTL


-----------------------------------------------------------------------------
\* The count of the frames that a node hears.

LEMMA NodesFinite ==
  IsFiniteSet(Node)
  BY ParamAssumption, FS_AddElement DEF Node

LEMMA AudibleFinite ==
  ASSUME NEW n
  PROVE  IsFiniteSet(Audible(n)) /\ Cardinality(Audible(n)) \in Nat
<1>1. Audible(n) \in SUBSET Node
  BY DEF Audible
<1> QED  BY <1>1, NodesFinite, FS_Subset, FS_CardinalityType

\* A signal without a frame is the end of one.
LEMMA EndIs ==
  ASSUME NEW sig \in Sig, ~ Starts(sig)
  PROVE  sig = Signal(sig.from, sig.to, None)
  BY DEF Sig, Starts, Signal

LEMMA SignalFields ==
  ASSUME NEW a, NEW b, NEW f
  PROVE  Signal(a, b, f).from = a /\ Signal(a, b, f).to = b /\ Signal(a, b, f).frame = f
  BY DEF Signal

\* Whether n hears m depends on the signals from m to n and on whom m sends to.
LEMMA HearsSame ==
  ASSUME NEW n \in Node, NEW m \in Node,
         n \in node'[m].idleDest <=> n \in node[m].idleDest,
         \A sig : sig.from = m /\ sig.to = n => (sig \in wire' <=> sig \in wire)
  PROVE  m \in Audible(n)' <=> m \in Audible(n)
<1>1. Signal(m, n, None) \in wire' <=> Signal(m, n, None) \in wire
  BY SignalFields
<1>2. (\A sig \in wire' : ~ (sig.from = m /\ sig.to = n)) <=> \A sig \in wire : ~ (sig.from = m /\ sig.to = n)
  OBVIOUS
<1> QED  BY <1>1, <1>2 DEF Audible

LEMMA SameAir ==
  ASSUME AirInv, wire' = wire,
         \A n \in Node : node'[n].rx = node[n].rx /\ node'[n].idleDest = node[n].idleDest,
         \A sig \in wire : sig.from \in Node
  PROVE  AirInv'
<1>1. ASSUME NEW n \in Node  PROVE Audible(n)' = Audible(n)
  BY HearsSame DEF Audible
<1> QED  BY <1>1 DEF AirInv

\* A signal arrives.
LEMMA ArrivalKeepsAir ==
  ASSUME NodesInv, AirInv, NEW sig \in wire, Arrival(sig)
  PROVE  AirInv'
<1> DEFINE n == sig.to
           o == sig.from
<1>1. PICK r \in Nat, t \in NodeState :
        /\ t.rx = r /\ t.idleDest = node[n].idleDest
        /\ Starts(sig) => r = node[n].rx + 1
        /\ ~ Starts(sig) /\ node[n].rx > 0 => r = node[n].rx - 1
        /\ node' = [node EXCEPT ![n] = t] /\ wire' = wire \ {sig}
  BY DEF Arrival, Turns
<1>2. n \in Node /\ o \in Node /\ sig \in Sig /\ node \in [Node -> NodeState]
  BY OnWire DEF NodesInv
<1>3. \A m \in Node : node'[m].idleDest = node[m].idleDest
  BY <1>1, <1>2
<1>4. \A other \in wire : other.from = o /\ other.to = n => other = sig
  BY DEF AirInv
<1>5. ASSUME NEW k \in Node, NEW m \in Node, k # n \/ m # o
      PROVE  m \in Audible(k)' <=> m \in Audible(k)
  <2>1. \A other : other.from = m /\ other.to = k => (other \in wire' <=> other \in wire)
    BY <1>1, <1>5
  <2> QED  BY <1>3, <2>1, HearsSame
<1>6. ASSUME NEW k \in Node, k # n  PROVE node'[k].rx = Cardinality(Audible(k))'
  <2>1. Audible(k)' = Audible(k)
    <3>1. \A m \in Node : m \in Audible(k)' <=> m \in Audible(k)
      BY <1>5, <1>6
    <3> QED  BY <3>1 DEF Audible
  <2>2. node'[k].rx = node[k].rx
    BY <1>1, <1>2, <1>6
  <2> QED  BY <2>1, <2>2 DEF AirInv
<1>7. node'[n].rx = r /\ node[n].rx = Cardinality(Audible(n))
  BY <1>1, <1>2 DEF AirInv
<1>8. ASSUME Starts(sig)  PROVE node'[n].rx = Cardinality(Audible(n))'
  <2>1. n \in node[o].idleDest
    BY <1>8 DEF AirInv
  <2>2. o \notin Audible(n)
    <3>1. Signal(o, n, None) \notin wire
      BY <1>4, <1>8, SignalFields DEF Starts
    <3> QED  BY <3>1 DEF Audible
  <2>3. o \in Audible(n)'
    <3>1. \A other \in wire' : ~ (other.from = o /\ other.to = n)
      BY <1>1, <1>4
    <3> QED  BY <1>2, <1>3, <2>1, <3>1 DEF Audible
  <2>4. Audible(n)' = Audible(n) \cup {o}
    <3>1. \A m \in Node \ {o} : m \in Audible(n)' <=> m \in Audible(n)
      BY <1>2, <1>5
    <3> QED  BY <1>2, <2>3, <3>1 DEF Audible
  <2>5. Cardinality(Audible(n) \cup {o}) = Cardinality(Audible(n)) + 1
    BY <2>2, AudibleFinite, FS_AddElement
  <2> QED  BY <1>1, <1>7, <1>8, <2>4, <2>5
<1>9. ASSUME ~ Starts(sig)  PROVE node'[n].rx = Cardinality(Audible(n))'
  <2>1. n \notin node[o].idleDest
    BY <1>9 DEF AirInv
  <2>2. sig = Signal(o, n, None)
    BY <1>2, <1>9, EndIs
  <2>3. o \in Audible(n)
    BY <1>2, <2>2 DEF Audible
  <2>4. o \notin Audible(n)'
    BY <1>1, <1>2, <1>3, <2>1, <2>2 DEF Audible
  <2>5. Audible(n)' = Audible(n) \ {o}
    <3>1. \A m \in Node \ {o} : m \in Audible(n)' <=> m \in Audible(n)
      BY <1>2, <1>5
    <3> QED  BY <1>2, <2>4, <3>1 DEF Audible
  <2>6. Cardinality(Audible(n) \ {o}) = Cardinality(Audible(n)) - 1
    BY <2>3, AudibleFinite, FS_RemoveElement
  <2>7. Cardinality(Audible(n)) > 0
    <3>1. Cardinality(Audible(n)) # 0
      BY <2>3, AudibleFinite, FS_EmptySet
    <3> QED  BY <3>1, AudibleFinite
  <2> QED  BY <1>1, <1>7, <1>9, <2>5, <2>6, <2>7
<1>10. node'[n].rx = Cardinality(Audible(n))'
  BY <1>7, <1>8, <1>9
<1>11. \A other \in wire' : Starts(other) <=> other.to \in node'[other.from].idleDest
  BY <1>1, <1>3, OnWire DEF AirInv
<1>12. \A a, b \in wire' : a.from = b.from /\ a.to = b.to => a = b
  BY <1>1 DEF AirInv
<1> QED  BY <1>6, <1>10, <1>11, <1>12 DEF AirInv, Starts


\* A frame starts or ends: those in range have a signal to come before they count.
LEMMA SendKeepsAir ==
  ASSUME NodesInv, AirInv, NEW n \in Node, NEW x \in Sending, node[n].tmr[x] = 0,
         NEW t \in NodeState, NEW M \in SUBSET Node, NEW f, t.rx = node[n].rx,
         node' = [node EXCEPT ![n] = t], wire' = wire \cup {Signal(n, m, f) : m \in M},
         \/ f # None /\ node[n].idleDest = {} /\ t.idleDest = M
         \/ f = None /\ node[n].idleDest = M /\ t.idleDest = {}
  PROVE  AirInv'
<1>1. node \in [Node -> NodeState] /\ node'[n] = t /\ \A m \in Node \ {n} : node'[m] = node[m]
  BY DEF NodesInv
<1>2. \A sig \in wire : sig.from # n
  BY DEF NodesInv, WireRight
<1>3. ASSUME NEW sig \in wire' \ wire
      PROVE  \E m \in M : sig = Signal(n, m, f) /\ sig.from = n /\ sig.to = m /\ sig.frame = f
  BY <1>3, SignalFields
<1>4. ASSUME NEW k \in Node, NEW m \in Node  PROVE m \in Audible(k)' <=> m \in Audible(k)
  <2>1. CASE m # n
    <3>1. \A sig : sig.from = m /\ sig.to = k => (sig \in wire' <=> sig \in wire)
      BY <1>3, <2>1
    <3> QED  BY <1>1, <2>1, <3>1, HearsSame
  <2>2. CASE m = n
    <3>1. n \in Audible(k) <=> k \in node[n].idleDest
      BY <1>2, SignalFields DEF Audible
    <3>2. (\A sig \in wire' : ~ (sig.from = n /\ sig.to = k)) <=> k \notin M
      BY <1>2, <1>3, SignalFields
    <3>3. Signal(n, k, None) \in wire' <=> k \in M /\ f = None
      <4>1. Signal(n, k, None) \notin wire
        BY <1>2, SignalFields
      <4>2. ASSUME Signal(n, k, None) \in wire'  PROVE k \in M /\ f = None
        BY <1>3, <4>1, <4>2, SignalFields
      <4> QED  BY <4>2
    <3>4. n \in Audible(k)' <=> (k \in t.idleDest /\ k \notin M) \/ (k \in M /\ f = None)
      BY <1>1, <3>2, <3>3 DEF Audible
    <3> QED  BY <2>2, <3>1, <3>4
  <2> QED  BY <2>1, <2>2
<1>5. ASSUME NEW k \in Node  PROVE node'[k].rx = Cardinality(Audible(k))'
  <2>1. Audible(k)' = Audible(k)
    BY <1>4 DEF Audible
  <2>2. node'[k].rx = node[k].rx
    BY <1>1
  <2> QED  BY <2>1, <2>2 DEF AirInv
<1>6. ASSUME NEW sig \in wire'  PROVE Starts(sig) <=> sig.to \in node'[sig.from].idleDest
  <2>1. CASE sig \in wire
    BY <1>1, <1>2, <2>1, OnWire DEF AirInv
  <2>2. CASE sig \notin wire
    BY <1>1, <1>3, <2>2 DEF Starts
  <2> QED  BY <2>1, <2>2
<1>7. \A a, b \in wire' : a.from = b.from /\ a.to = b.to => a = b
  BY <1>2, <1>3 DEF AirInv
<1> QED  BY <1>5, <1>6, <1>7 DEF AirInv, Starts

LEMMA StepKeepsAir ==
  ASSUME NodesInv, AirInv, [Next]_vars
  PROVE  AirInv'
<1>1. CASE \E sig \in wire : Arrival(sig)
  BY <1>1, ArrivalKeepsAir
<1>2. ASSUME NEW n \in Node, FrameSent(n)  PROVE AirInv'
  <2>1. PICK M : M = Hears[n]
    OBVIOUS
  <2>2. M \in SUBSET Node
    BY <2>1, ParamAssumption
  <2>3. PICK f \in Frame \cup AckFrame, t \in NodeState, x \in Sending :
          /\ node[n].tmr[x] = 0 /\ node[n].idleDest = {} /\ Sends(node[n], M, t)
          /\ node' = [node EXCEPT ![n] = t] /\ wire' = wire \cup {Signal(n, m, f) : m \in M}
    BY <1>2, <2>1 DEF FrameSent
  <2>4. f # None
    BY ParamAssumption
  <2>5. t.rx = node[n].rx /\ t.idleDest = M
    BY <2>3 DEF Sends
  <2> QED  BY <2>2, <2>3, <2>4, <2>5, SendKeepsAir
<1>3. ASSUME NEW n \in Node, FrameEnds(n)  PROVE AirInv'
  <2>1. PICK M : M = node[n].idleDest
    OBVIOUS
  <2>2. M \in SUBSET Node
    BY <2>1, AtNode, Fields
  <2>3. PICK t \in NodeState, x \in Sending :
          /\ node[n].tmr[x] = 0 /\ Sends(node[n], {}, t) /\ node' = [node EXCEPT ![n] = t]
          /\ wire' = wire \cup {Signal(n, m, None) : m \in M}
    BY <1>3, <2>1 DEF FrameEnds
  <2>4. t.rx = node[n].rx /\ t.idleDest = {}
    BY <2>3 DEF Sends
  <2> QED  BY <2>1, <2>2, <2>3, <2>4, SendKeepsAir
<1>4. ASSUME NEW n \in Node, Alone(n)  PROVE AirInv'
  <2>1. PICK t \in NodeState :
          /\ t.rx = node[n].rx /\ t.idleDest = node[n].idleDest
          /\ node' = [node EXCEPT ![n] = t] /\ wire' = wire
    BY <1>4 DEF Alone, Turns
  <2>2. \A m \in Node : node'[m].rx = node[m].rx /\ node'[m].idleDest = node[m].idleDest
    BY <2>1 DEF NodesInv
  <2> QED  BY <2>1, <2>2, OnWire, SameAir
<1>5. CASE Tick
  BY <1>5, TickKeepsNodes, OnWire, SameAir
<1>6. CASE UNCHANGED <<node, wire>>
  BY <1>6, OnWire, SameAir
<1> QED  BY <1>1, <1>2, <1>3, <1>4, <1>5, <1>6, StepIs

LEMMA InitAir ==
  ASSUME Init
  PROVE  AirInv
<1>1. node = [n \in Node |-> Fresh] /\ wire = {}
  BY DEF Init
<1>2. \A n \in Node : node[n].rx = 0 /\ node[n].idleDest = {}
  BY <1>1, FreshGood
<1>3. \A n \in Node : Audible(n) = {}
  BY <1>1, <1>2 DEF Audible
<1> QED  BY <1>1, <1>2, <1>3, FS_EmptySet DEF AirInv


LEMMA AirIsRight ==
  Spec => []AirInv
<1>1. Init => AirInv
  BY InitAir
<1>2. NodesInv /\ AirInv /\ [Next]_vars => AirInv'
  BY StepKeepsAir
<1> QED  BY <1>1, <1>2, NodesAreRight, PTL DEF Spec

\* As many signals of distinct senders as senders.
LEMMA SignalsAreSenders ==
  ASSUME NEW S, NEW T \in SUBSET Node, \A sig \in S : sig.from \in T,
         \A m \in T : \E sig \in S : sig.from = m,
         \A a, b \in S : a.from = b.from => a = b
  PROVE  Cardinality(S) = Cardinality(T)
<1>1. PICK f : f = [sig \in S |-> sig.from]
  OBVIOUS
<1>2. f \in [S -> T] /\ \A sig \in S : f[sig] = sig.from
  BY <1>1
<1>3. f \in Injection(S, T)
  BY <1>2, Fun_IsInj
<1>4. f \in Surjection(S, T)
  <2>1. \A m \in T : \E sig \in S : f[sig] = m
    BY <1>2
  <2> QED  BY <1>2, <2>1, Fun_IsSurj
<1>5. IsFiniteSet(T)
  BY NodesFinite, FS_Subset
<1> QED  BY <1>3, <1>4, <1>5, FS_Injection

\* The senders of starts are among those in the air, the senders of ends are not, and
\* audible are the others in the air and the senders of ends.
LEMMA CountIsRight ==
  ASSUME NodesInv, AirInv, NEW n \in Node
  PROVE  node[n].rx + Cardinality({sig \in wire : sig.to = n /\ sig.frame # None})
           = Cardinality({m \in Node : n \in node[m].idleDest})
             + Cardinality({sig \in wire : sig.to = n /\ sig.frame = None})
<1> DEFINE S == {sig \in wire : sig.to = n /\ sig.frame # None}
           E == {sig \in wire : sig.to = n /\ sig.frame = None}
           A == {m \in Node : n \in node[m].idleDest}
           SS == {m \in Node : \E sig \in S : sig.from = m}
           EE == {m \in Node : \E sig \in E : sig.from = m}
<1>1. Cardinality(S) = Cardinality(SS)
  <2>1. \A sig \in S : sig.from \in SS
    BY OnWire
  <2>2. \A a, b \in S : a.from = b.from => a = b
    BY DEF AirInv
  <2>3. SS \in SUBSET Node /\ \A m \in SS : \E sig \in S : sig.from = m
    OBVIOUS
  <2> HIDE DEF S, SS
  <2> QED  BY <2>1, <2>2, <2>3, SignalsAreSenders
<1>2. Cardinality(E) = Cardinality(EE)
  <2>1. \A sig \in E : sig.from \in EE
    BY OnWire
  <2>2. \A a, b \in E : a.from = b.from => a = b
    BY DEF AirInv
  <2>3. EE \in SUBSET Node /\ \A m \in EE : \E sig \in E : sig.from = m
    OBVIOUS
  <2> HIDE DEF E, EE
  <2> QED  BY <2>1, <2>2, <2>3, SignalsAreSenders
<1>3. SS \subseteq A
  BY DEF AirInv, Starts
<1>4. A \cap EE = {}
  BY DEF AirInv, Starts
<1>5. ASSUME NEW m \in Node  PROVE m \in Audible(n) <=> m \in (A \ SS) \cup EE
  <2>1. Signal(m, n, None) \in wire <=> m \in EE
    <3>1. Signal(m, n, None) \in wire => m \in EE
      BY SignalFields
    <3>2. ASSUME m \in EE  PROVE Signal(m, n, None) \in wire
      <4>1. PICK sig \in E : sig.from = m
        BY <3>2
      <4>2. sig = Signal(m, n, None)
        BY <4>1, OnWire, EndIs DEF Starts
      <4> QED  BY <4>2
    <3> QED  BY <3>1, <3>2
  <2>2. (\A sig \in wire : ~ (sig.from = m /\ sig.to = n)) <=> m \notin SS /\ m \notin EE
    OBVIOUS
  <2>3. m \in Audible(n) <=> (m \in A /\ m \notin SS /\ m \notin EE) \/ m \in EE
    <3> HIDE DEF SS, EE
    <3> QED  BY <2>1, <2>2 DEF Audible
  <2> QED  BY <2>3
<1>6. Audible(n) = (A \ SS) \cup EE
  BY <1>5 DEF Audible
<1>7. A \subseteq Node /\ SS \subseteq Node /\ EE \subseteq Node
  OBVIOUS
<1> HIDE DEF S, E, A, SS, EE
<1>8. /\ IsFiniteSet(A) /\ IsFiniteSet(SS) /\ IsFiniteSet(EE)
      /\ Cardinality(A) \in Nat /\ Cardinality(SS) \in Nat /\ Cardinality(EE) \in Nat
  BY <1>7, NodesFinite, FS_Subset, FS_CardinalityType
<1>9. IsFiniteSet(A \ SS) /\ Cardinality(A \ SS) = Cardinality(A) - Cardinality(SS)
  <2>1. A \cap SS = SS
    BY <1>3
  <2> QED  BY <1>8, <2>1, FS_Difference
<1>10. Cardinality((A \ SS) \cup EE) = Cardinality(A \ SS) + Cardinality(EE)
  <2>1. (A \ SS) \cap EE = {}
    BY <1>4
  <2>2. Cardinality({}) = 0
    BY FS_EmptySet
  <2>3. Cardinality((A \ SS) \cup EE)
          = Cardinality(A \ SS) + Cardinality(EE) - Cardinality((A \ SS) \cap EE)
    BY <1>8, <1>9, FS_Union
  <2> QED  BY <1>8, <1>9, <2>1, <2>2, <2>3
<1>11. node[n].rx = Cardinality(Audible(n))
  BY DEF AirInv
<1>12. node[n].rx + Cardinality(S) = Cardinality(A) + Cardinality(E)
  BY <1>1, <1>2, <1>6, <1>8, <1>9, <1>10, <1>11
<1> QED  BY <1>12 DEF S, E, A

\* Every node's count of the frames it hears is right at every moment: with the starts
\* that are on their way to it, it is the number of the frames in the air for it and of
\* the ends on their way; and a node that hears one is not idle and awaits nothing, and
\* waits for its turn only when it is too late to turn around.
THEOREM MediumIsSensed ==
  Spec => []MediumSensed
<1>1. NodesInv /\ AirInv => MediumSensed
  <2> SUFFICES ASSUME NodesInv, AirInv, NEW n \in Node
               PROVE  /\ node[n].rx + Cardinality({sig \in wire : sig.to = n /\ sig.frame # None})
                           = Cardinality({m \in Node : n \in node[m].idleDest})
                             + Cardinality({sig \in wire : sig.to = n /\ sig.frame = None})
                      /\ node[n].state \in {"Idle", "AwaitACK"} => node[n].rx = 0
                      /\ node[n].state = "Backoff" /\ node[n].rx > 0
                           => node[n].tmr["backoff"] < RXTXTURNAROUND
    BY DEF MediumSensed
  <2>1. SensesRight(node[n])
    BY AtNode DEF Good
  <2> QED  BY <2>1, CountIsRight DEF SensesRight
<1> QED  BY <1>1, NodesAreRight, AirIsRight, PTL

-----------------------------------------------------------------------------
\* What has been said so far is about one node and the wire.  What follows is about the two
\* ends of a transmission: the frame that is sent, what the receiver notes and passes up,
\* and the acknowledgement.

Await == {"AwaitACK", "AwaitACKReceive"}

\* The frames that wait are the node's own; a station's go to the access point.
Owns(n, q) == \A i \in DOMAIN q : q[i].addr2 = n /\ (n \in MS => q[i].addr1 = AP)

\* A wait begins with DIFS, and keeps it when it is interrupted.
SlotRight(s) == s.timeToSend = 0 \/ s.timeToSend >= DIFS

\* The frames that wait are numbered in their order, from those given out so far.
Numbered(q, c) ==
  /\ \A i \in DOMAIN q : 0 < q[i].seq /\ q[i].seq < c
  /\ \A i, j \in DOMAIN q : i < j => q[i].seq < q[j].seq

\* The first frame of s has been sent when the node is in t.
Sent(s, t) == s.state \in Await \/ (s.state = "Send" /\ t.state # "Send")

\* The node has not fallen back: its first frame is the same, perhaps to be repeated, or
\* a later one.
Later(s, t) ==
  /\ s.sequenceNumber <= t.sequenceNumber
  /\ t.queue # <<>> =>
       \/ s.queue = <<>> /\ s.sequenceNumber <= t.queue[1].seq
       \/ s.queue # <<>> /\ s.queue[1].seq < t.queue[1].seq
       \/ /\ s.queue # <<>> /\ s.queue[1].seq = t.queue[1].seq
          /\ (s.queue[1].retry \/ Sent(s, t)) => (t.queue[1].retry \/ t.state \in Await)

Counted(s) ==
  0 < s.sequenceNumber /\ s.sequenceNumber < 4096 /\ Numbered(s.queue, s.sequenceNumber)

Onward(n, s, t) ==
  /\ Owns(n, s.queue) => Owns(n, t.queue)
  /\ Counted(s) /\ t.sequenceNumber # 0 => Counted(t) /\ Later(s, t)

\* What a step of n does to its sending.
SenderStep(n, s, t) ==
  /\ Onward(n, s, t)
  /\ SlotRight(s) => SlotRight(t)
  /\ t.state = "Send" =>
       \/ s.state = "Send" /\ t.queue[1] = s.queue[1] /\ t.idleDest = s.idleDest
       \/ s.state = "Backoff" /\ s.tmr["backoff"] = 0
  /\ s.state = "Send" /\ t.state # "Send" => s.tmr["endSendData"] = 0
  /\ SlotRight(s) /\ t.state = "Backoff" =>
       \/ t.tmr["backoff"] >= DIFS
       \/ s.state = "Backoff" /\ t.tmr["backoff"] = s.tmr["backoff"]
  /\ t.state \in Await => s.state \in Await \cup {"Send"} /\ t.queue[1] = s.queue[1]
  /\ t.state = "AwaitACK" => s.state \in {"AwaitACK", "Send"}

-----------------------------------------------------------------------------
\* The first frame of a queue.

LEMMA SeqDomain ==
  ASSUME NEW q \in Seq(Frame)
  PROVE  /\ DOMAIN q = 1 .. Len(q) /\ Len(q) \in Nat
         /\ \A i \in DOMAIN q : i \in Nat /\ i > 0 /\ q[i] \in Frame /\ q[i].seq \in Nat
         /\ q # <<>> => 1 \in DOMAIN q /\ q[1] \in Frame /\ q[1].seq \in Nat
<1>1. DOMAIN q = 1 .. Len(q) /\ Len(q) \in Nat
  OBVIOUS
<1>2. \A i \in DOMAIN q : i \in Nat /\ i > 0 /\ q[i] \in Frame
  BY <1>1, ElementOfSeq
<1>3. \A f \in Frame : f.seq \in Nat
  BY DEF Frame
<1>4. q # <<>> => 1 \in DOMAIN q
  OBVIOUS
<1> QED  BY <1>1, <1>2, <1>3, <1>4

LEMMA DropQueue ==
  ASSUME NEW q \in Seq(Frame), NEW p, p = IF q = <<>> THEN <<>> ELSE Tail(q)
  PROVE  /\ p \in Seq(Frame)
         /\ \A n : Owns(n, q) => Owns(n, p)
         /\ \A c \in Nat : Numbered(q, c) => Numbered(p, c)
         /\ \A c \in Nat : Numbered(q, c) /\ p # <<>> => q # <<>> /\ q[1].seq < p[1].seq
<1>1. CASE q = <<>>
  <2>1. p = <<>> /\ DOMAIN p = {}
    BY <1>1
  <2>2. p \in Seq(Frame)
    BY <2>1
  <2> QED  BY <2>1, <2>2 DEF Owns, Numbered
<1>2. CASE q # <<>>
  <2>1. p = Tail(q)
    BY <1>2
  <2>2. p \in Seq(Frame) /\ Len(p) = Len(q) - 1 /\ Len(q) \in Nat /\ Len(q) > 0
    BY <1>2, <2>1
  <2>3. \A i \in DOMAIN p : i + 1 \in DOMAIN q /\ p[i] = q[i + 1]
    BY <1>2, <2>1
  <2>4. \A i \in DOMAIN p : i \in Nat /\ i > 0
    BY <2>2, SeqDomain
  <2>5. ASSUME NEW n, Owns(n, q)  PROVE Owns(n, p)
    BY <2>3, <2>5 DEF Owns
  <2>6. ASSUME NEW c \in Nat, Numbered(q, c)  PROVE Numbered(p, c)
    <3>1. \A i \in DOMAIN p : 0 < p[i].seq /\ p[i].seq < c
      BY <2>3, <2>6 DEF Numbered
    <3>2. \A i, j \in DOMAIN p : i < j => p[i].seq < p[j].seq
      <4>1. ASSUME NEW i \in DOMAIN p, NEW j \in DOMAIN p, i < j  PROVE i + 1 < j + 1
        BY <2>4, <4>1
      <4> QED  BY <2>3, <2>6, <4>1 DEF Numbered
    <3> QED  BY <3>1, <3>2 DEF Numbered
  <2>7. ASSUME NEW c \in Nat, Numbered(q, c), p # <<>>  PROVE q[1].seq < p[1].seq
    <3>1. 1 \in DOMAIN q /\ 1 \in DOMAIN p
      BY <1>2, <2>2, <2>7, SeqDomain
    <3>2. 2 \in DOMAIN q /\ p[1] = q[2]
      BY <2>3, <3>1
    <3> QED  BY <2>7, <3>1, <3>2 DEF Numbered
  <2> QED  BY <1>2, <2>2, <2>5, <2>6, <2>7
<1> QED  BY <1>1, <1>2

\* p is q with the flag in its first frame, or with f inserted.
Repeated(q, p) ==
  /\ p # <<>> /\ p[1].seq = q[1].seq /\ p[1].retry
  /\ \A n \in Node : Owns(n, q) => Owns(n, p)
  /\ \A c \in Nat : Numbered(q, c) => Numbered(p, c)

Lengthened(q, f, p) ==
  /\ p # <<>> /\ (q # <<>> => p[1] = q[1]) /\ (q = <<>> => p[1] = f)
  /\ \A n \in Node : Owns(n, q) /\ f.addr2 = n /\ (n \in MS => f.addr1 = AP) => Owns(n, p)
  /\ \A c \in Nat : Numbered(q, c) /\ f.seq = c /\ c > 0 => Numbered(p, c + 1)

LEMMA RetryQueue ==
  ASSUME NEW q \in Seq(Frame), q # <<>>, NEW p, p = [q EXCEPT ![1].retry = TRUE]
  PROVE  p \in Seq(Frame) /\ Repeated(q, p)
<1>1. PICK f : f = [q[1] EXCEPT !.retry = TRUE]
  OBVIOUS
<1>2. 1 \in DOMAIN q /\ q[1] \in Frame
  BY SeqDomain
<1>3. /\ f \in Frame /\ f.addr1 = q[1].addr1 /\ f.addr2 = q[1].addr2 /\ f.seq = q[1].seq /\ f.retry
  BY <1>1, <1>2 DEF Frame
<1>4. p = [q EXCEPT ![1] = f]
  BY <1>1
<1>5. p \in Seq(Frame) /\ Len(p) = Len(q) /\ p[1] = f /\ p # <<>>
  <2>1. ASSUME NEW o, o = [q EXCEPT ![1] = f]  PROVE o \in Seq(Frame) /\ Len(o) = Len(q) /\ o[1] = f /\ o # <<>>
    <3>1. Len(q) \in Nat /\ Len(q) > 0 /\ 1 \in 1 .. Len(q)
      OBVIOUS
    <3>2. o \in Seq(Frame) /\ Len(o) = Len(q) /\ o[1] = f
      BY <1>3, <2>1, <3>1, ExceptSeq
    <3> QED  BY <3>1, <3>2
  <2> QED  BY <1>4, <2>1
<1>7. DOMAIN p = DOMAIN q
  BY <1>4
<1>8. \A i \in DOMAIN q : /\ p[i].addr1 = q[i].addr1 /\ p[i].addr2 = q[i].addr2
                          /\ p[i].seq = q[i].seq
  BY <1>2, <1>3, <1>4
<1>9. ASSUME NEW n, Owns(n, q)  PROVE Owns(n, p)
  BY <1>7, <1>8, <1>9 DEF Owns
<1>10. ASSUME NEW c, Numbered(q, c)  PROVE Numbered(p, c)
  BY <1>7, <1>8, <1>10 DEF Numbered
<1> QED  BY <1>3, <1>5, <1>9, <1>10 DEF Repeated


\* What is in a queue q after f was inserted: each frame was there, in the same order, or is f.
Inserted(q, f, p) ==
  /\ \A i \in DOMAIN p : p[i] = f \/ \E j \in DOMAIN q : p[i] = q[j]
  /\ \A i, k \in DOMAIN p : i < k =>
       \E j \in DOMAIN q : p[i] = q[j] /\ (p[k] = f \/ \E l \in DOMAIN q : j < l /\ p[k] = q[l])

LEMMA AppendedQueue ==
  ASSUME NEW q \in Seq(Frame), NEW f \in Frame, NEW p, p = Append(q, f)
  PROVE  Inserted(q, f, p)
<1>1. /\ Len(q) \in Nat /\ DOMAIN q = 1 .. Len(q) /\ DOMAIN p = 1 .. Len(q) + 1
      /\ p[Len(q) + 1] = f /\ \A i \in 1 .. Len(q) : p[i] = q[i]
  BY SeqDomain
<1>2. ASSUME NEW i \in DOMAIN p  PROVE p[i] = f \/ (i \in DOMAIN q /\ p[i] = q[i])
  BY <1>1
<1>3. ASSUME NEW i \in DOMAIN p, NEW k \in DOMAIN p, i < k
      PROVE  i \in DOMAIN q /\ p[i] = q[i] /\ (p[k] = f \/ (k \in DOMAIN q /\ p[k] = q[k]))
  BY <1>1, <1>3
<1> QED  BY <1>2, <1>3 DEF Inserted

LEMMA CutQueue ==
  ASSUME NEW q \in Seq(Frame), Len(q) > 1, NEW f \in Frame, NEW p \in Seq(Frame),
         Len(p) = Len(q), p[1] = q[1], p[Len(q)] = f, \A i \in 2 .. Len(q) - 1 : p[i] = q[i + 1]
  PROVE  Inserted(q, f, p)
<1>1. PICK m : m = Len(q)
  OBVIOUS
<1>2. m \in Nat /\ m > 1 /\ DOMAIN q = 1 .. m /\ DOMAIN p = 1 .. m
  BY <1>1, SeqDomain
<1>3. p[1] = q[1] /\ p[m] = f /\ \A i \in 2 .. m - 1 : p[i] = q[i + 1]
  BY <1>1
<1>4. PICK g : g = [i \in 1 .. m - 1 |-> IF i = 1 THEN 1 ELSE i + 1]
  OBVIOUS
<1>5. ASSUME NEW i \in 1 .. m - 1  PROVE g[i] \in 1 .. m /\ p[i] = q[g[i]]
  <2>1. CASE i = 1
    BY <1>2, <1>3, <1>4, <2>1
  <2>2. CASE i # 1
    <3>1. g[i] = i + 1 /\ i \in 2 .. m - 1
      BY <1>2, <1>4, <2>2
    <3> QED  BY <1>2, <1>3, <3>1
  <2> QED  BY <2>1, <2>2
<1>6. \A i, k \in 1 .. m - 1 : i < k => g[i] < g[k]
  BY <1>2, <1>4
<1>7. \A i \in 1 .. m : i = m \/ i \in 1 .. m - 1
  BY <1>2
<1>8. \A i, k \in 1 .. m : i < k => i \in 1 .. m - 1
  BY <1>2
<1>9. ASSUME NEW i \in 1 .. m  PROVE p[i] = f \/ \E j \in 1 .. m : p[i] = q[j]
  BY <1>3, <1>5, <1>7
<1>10. ASSUME NEW i \in 1 .. m, NEW k \in 1 .. m, i < k
       PROVE  \E j \in 1 .. m : p[i] = q[j] /\ (p[k] = f \/ \E l \in 1 .. m : j < l /\ p[k] = q[l])
  <2>1. i \in 1 .. m - 1 /\ g[i] \in 1 .. m /\ p[i] = q[g[i]]
    BY <1>5, <1>8, <1>10
  <2>2. CASE k = m
    BY <1>3, <2>1, <2>2
  <2>3. CASE k \in 1 .. m - 1
    <3>1. g[k] \in 1 .. m /\ p[k] = q[g[k]] /\ g[i] < g[k]
      BY <1>5, <1>6, <1>10, <2>1, <2>3
    <3> QED  BY <2>1, <3>1
  <2> QED  BY <1>7, <2>2, <2>3
<1>11. \A i \in DOMAIN p : p[i] = f \/ \E j \in DOMAIN q : p[i] = q[j]
  BY <1>2, <1>9
<1>12. \A i, k \in DOMAIN p : i < k =>
         \E j \in DOMAIN q : p[i] = q[j] /\ (p[k] = f \/ \E l \in DOMAIN q : j < l /\ p[k] = q[l])
  <2>1. ASSUME NEW i \in DOMAIN p, NEW k \in DOMAIN p, i < k
        PROVE  \E j \in DOMAIN q : p[i] = q[j] /\ (p[k] = f \/ \E l \in DOMAIN q : j < l /\ p[k] = q[l])
    <3>1. i \in 1 .. m /\ k \in 1 .. m
      BY <1>2
    <3>2. PICK j \in 1 .. m : p[i] = q[j] /\ (p[k] = f \/ \E l \in 1 .. m : j < l /\ p[k] = q[l])
      BY <1>10, <2>1, <3>1
    <3>3. j \in DOMAIN q
      BY <1>2
    <3>4. CASE \E l \in 1 .. m : j < l /\ p[k] = q[l]
      <4>1. PICK l \in 1 .. m : j < l /\ p[k] = q[l]
        BY <3>4
      <4>2. l \in DOMAIN q
        BY <1>2
      <4> QED  BY <3>2, <3>3, <4>1, <4>2, Zenon
    <3> QED  BY <3>2, <3>3, <3>4, Zenon
  <2> QED  BY <2>1
<1> QED  BY <1>11, <1>12 DEF Inserted

LEMMA CutIs ==
  ASSUME NEW q \in Seq(Frame), Len(q) > 1, NEW r, r = SubSeq(q, 3, Len(q))
  PROVE  r \in Seq(Frame) /\ Len(r) = Len(q) - 2 /\ \A i \in 1 .. Len(q) - 2 : r[i] = q[i + 2]
<1>1. Len(q) \in Nat /\ \A i \in 3 .. Len(q) : q[i] \in Frame
  BY ElementOfSeq
<1>2. Len(r) = IF 3 <= Len(q) THEN Len(q) - 3 + 1 ELSE 0
  BY <1>1, SubSeqProperties
<1>3. r \in Seq(Frame) /\ \A i \in 1 .. Len(q) - 3 + 1 : r[i] = q[3 + i - 1]
  BY <1>1, SubSeqProperties
<1>4. \A i \in 1 .. Len(q) - 2 : 3 + i - 1 = i + 2
  BY <1>1
<1>5. Len(q) - 3 + 1 = Len(q) - 2
  BY <1>1
<1> QED  BY <1>1, <1>2, <1>3, <1>4, <1>5

LEMMA Joined ==
  ASSUME NEW c \in Seq(Frame), NEW d \in Seq(Frame), NEW o, o = c \o d
  PROVE  /\ o \in Seq(Frame) /\ Len(o) = Len(c) + Len(d)
         /\ \A i \in 1 .. Len(c) + Len(d) : o[i] = IF i <= Len(c) THEN c[i] ELSE d[i - Len(c)]
<1>1. ASSUME NEW S, NEW x \in Seq(S), NEW y \in Seq(S)
      PROVE  /\ x \o y \in Seq(S) /\ Len(x \o y) = Len(x) + Len(y)
             /\ \A i \in 1 .. Len(x) + Len(y) : (x \o y)[i] = IF i <= Len(x) THEN x[i] ELSE y[i - Len(x)]
  BY ConcatProperties, Zenon
<1> QED  BY <1>1, Zenon

LEMMA Spliced ==
  ASSUME NEW q \in Seq(Frame), Len(q) > 1, NEW f \in Frame, NEW a \in Seq(Frame), NEW b \in Seq(Frame),
         Len(a) = 1, a[1] = q[1], Len(b) = Len(q) - 1, b[Len(q) - 1] = f,
         \A i \in 1 .. Len(q) - 2 : b[i] = q[i + 2], NEW p, p = a \o b
  PROVE  Inserted(q, f, p)
<1>0. Len(q) \in Nat
  BY SeqDomain
<1>1. /\ p \in Seq(Frame) /\ Len(p) = Len(a) + Len(b)
      /\ \A i \in 1 .. Len(a) + Len(b) : p[i] = IF i <= Len(a) THEN a[i] ELSE b[i - Len(a)]
  BY Joined, ZenonT(60)
<1>2. /\ Len(p) = Len(q) /\ \A i \in 1 .. Len(q) : p[i] = IF i <= 1 THEN a[i] ELSE b[i - 1]
  BY <1>0, <1>1
<1>3. p[1] = q[1] /\ p[Len(q)] = f
  BY <1>0, <1>2
<1>4. ASSUME NEW i \in 2 .. Len(q) - 1  PROVE p[i] = q[i + 1]
  <2>1. p[i] = b[i - 1] /\ i - 1 \in 1 .. Len(q) - 2
    BY <1>0, <1>2
  <2>2. b[i - 1] = q[(i - 1) + 2]
    BY <2>1
  <2> QED  BY <1>0, <2>1, <2>2
<1> QED  BY <1>1, <1>2, <1>3, <1>4, CutQueue

LEMMA InsertedQueue ==
  ASSUME NEW q \in Seq(Frame), NEW f \in Frame, NEW p,
         p = IF Len(q) <= maxQueueSize THEN Append(q, f)
             ELSE <<Head(q)>> \o Append(SubSeq(q, 3, Len(q)), f)
  PROVE  Inserted(q, f, p)
<1>0. Len(q) \in Nat /\ maxQueueSize \in Nat \ {0}
  BY ParamAssumption
<1>1. CASE Len(q) <= maxQueueSize
  <2>1. p = Append(q, f)
    BY <1>1
  <2> QED  BY <2>1, AppendedQueue
<1>2. CASE ~ (Len(q) <= maxQueueSize)
  <2>1. Len(q) > 1
    BY <1>0, <1>2
  <2>2. PICK r : r = SubSeq(q, 3, Len(q))
    OBVIOUS
  <2>3. r \in Seq(Frame) /\ Len(r) = Len(q) - 2 /\ \A i \in 1 .. Len(q) - 2 : r[i] = q[i + 2]
    BY <2>1, <2>2, CutIs
  <2>4. PICK a, b : a = <<Head(q)>> /\ b = Append(r, f)
    OBVIOUS
  <2>5. /\ a \in Seq(Frame) /\ Len(a) = 1 /\ a[1] = q[1] /\ b \in Seq(Frame)
        /\ Len(b) = Len(q) - 1 /\ b[Len(q) - 1] = f
        /\ \A i \in 1 .. Len(q) - 2 : b[i] = q[i + 2]
    BY <1>0, <2>1, <2>3, <2>4
  <2>6. p = a \o b
    BY <1>2, <2>2, <2>4
  <2> QED  BY <2>1, <2>5, <2>6, Spliced
<1> QED  BY <1>1, <1>2

\* A frame with the next number is inserted.
LEMMA NumberInserted ==
  ASSUME NEW q \in Seq(Frame), NEW f \in Frame, NEW p \in Seq(Frame), Inserted(q, f, p),
         NEW c \in Nat, Numbered(q, c), f.seq = c, c > 0
  PROVE  Numbered(p, c + 1)
<1>1. \A j \in DOMAIN q : q[j].seq \in Nat /\ 0 < q[j].seq /\ q[j].seq < c
  BY SeqDomain DEF Numbered
<1>2. ASSUME NEW i \in DOMAIN p  PROVE 0 < p[i].seq /\ p[i].seq < c + 1
  <2>1. CASE p[i] = f
    BY <2>1
  <2>2. ASSUME NEW j \in DOMAIN q, p[i] = q[j]  PROVE 0 < p[i].seq /\ p[i].seq < c + 1
    BY <1>1, <2>2
  <2> QED  BY <2>1, <2>2 DEF Inserted
<1>3. ASSUME NEW i \in DOMAIN p, NEW k \in DOMAIN p, i < k  PROVE p[i].seq < p[k].seq
  <2>1. PICK j \in DOMAIN q :
          p[i] = q[j] /\ (p[k] = f \/ \E l \in DOMAIN q : j < l /\ p[k] = q[l])
    BY <1>3 DEF Inserted
  <2>2. CASE p[k] = f
    BY <1>1, <2>1, <2>2
  <2>3. CASE \E l \in DOMAIN q : j < l /\ p[k] = q[l]
    BY <2>1, <2>3 DEF Numbered
  <2> QED  BY <2>1, <2>2, <2>3
<1> QED  BY <1>2, <1>3 DEF Numbered

LEMMA OwnInserted ==
  ASSUME NEW q, NEW f, NEW p, Inserted(q, f, p), NEW n, Owns(n, q), f.addr2 = n,
         n \in MS => f.addr1 = AP
  PROVE  Owns(n, p)
  BY DEF Owns, Inserted

LEMMA InsertQueue ==
  ASSUME NEW q \in Seq(Frame), NEW f \in Frame, NEW p,
         p = IF Len(q) <= maxQueueSize THEN Append(q, f)
             ELSE <<Head(q)>> \o Append(SubSeq(q, 3, Len(q)), f)
  PROVE  p \in Seq(Frame) /\ Lengthened(q, f, p)
<1>1. p \in Seq(Frame) /\ p # <<>> /\ (q # <<>> => p[1] = q[1])
  BY Queued
<1>2. Inserted(q, f, p)
  BY InsertedQueue
<1>3. q = <<>> => p[1] = f
  <2>1. q = <<>> => DOMAIN q = {}
    OBVIOUS
  <2> QED  BY <1>1, <1>2, <2>1, SeqDomain DEF Inserted
<1>4. ASSUME NEW n, Owns(n, q), f.addr2 = n, n \in MS => f.addr1 = AP  PROVE Owns(n, p)
  BY <1>2, <1>4, OwnInserted
<1>5. \A c \in Nat : Numbered(q, c) /\ f.seq = c /\ c > 0 => Numbered(p, c + 1)
  BY <1>1, <1>2, NumberInserted
<1> QED  BY <1>1, <1>3, <1>4, <1>5 DEF Lengthened

-----------------------------------------------------------------------------
\* What becomes of the queue and of the numbers.

LEMMA NextNumber ==
  ASSUME NEW c \in Nat, NEW d, d = (c + 1) % 4096
  PROVE  /\ d \in Nat
         /\ c < 4096 /\ d # 0 => d = c + 1 /\ d < 4096
  OBVIOUS

LEMMA StayOnward ==
  ASSUME NEW n, NEW s \in NodeState, NEW t \in NodeState, t.queue = s.queue,
         t.sequenceNumber = s.sequenceNumber, Sent(s, t) => t.state \in Await
  PROVE  Onward(n, s, t)
<1>1. s.sequenceNumber \in Nat /\ s.queue \in Seq(Frame)
  BY Fields
<1>2. Later(s, t)
  BY <1>1 DEF Later
<1> QED  BY <1>2 DEF Onward, Counted

LEMMA DropOnward ==
  ASSUME NEW n, NEW s \in NodeState, NEW t \in NodeState,
         t.queue = IF s.queue = <<>> THEN <<>> ELSE Tail(s.queue),
         t.sequenceNumber = s.sequenceNumber
  PROVE  Onward(n, s, t)
<1>1. PICK q, p : q = s.queue /\ p = t.queue
  OBVIOUS
<1>2. s.sequenceNumber \in Nat /\ q \in Seq(Frame)
  BY <1>1, Fields
<1>3. p = IF q = <<>> THEN <<>> ELSE Tail(q)
  BY <1>1
<1>4. /\ \A m : Owns(m, q) => Owns(m, p)
      /\ \A c \in Nat : Numbered(q, c) => Numbered(p, c)
      /\ \A c \in Nat : Numbered(q, c) /\ p # <<>> => q # <<>> /\ q[1].seq < p[1].seq
  BY <1>2, <1>3, DropQueue
<1>5. ASSUME Counted(s)  PROVE Counted(t) /\ Later(s, t)
  <2>1. Counted(t)
    BY <1>1, <1>2, <1>4, <1>5 DEF Counted
  <2>2. Later(s, t)
    BY <1>1, <1>2, <1>4, <1>5 DEF Counted, Later
  <2> QED  BY <2>1, <2>2
<1>6. Owns(n, s.queue) => Owns(n, t.queue)
  BY <1>1, <1>4
<1> QED  BY <1>5, <1>6 DEF Onward

LEMMA RetryOnward ==
  ASSUME NEW n \in Node, NEW s \in NodeState, NEW t \in NodeState, s.queue # <<>>,
         Repeated(s.queue, t.queue), t.sequenceNumber = s.sequenceNumber
  PROVE  Onward(n, s, t)
<1>1. s.sequenceNumber \in Nat /\ s.queue # <<>>
  BY Fields
<1>2. ASSUME Counted(s)  PROVE Counted(t) /\ Later(s, t)
  <2>1. Counted(t)
    BY <1>1, <1>2 DEF Counted, Repeated
  <2>2. Later(s, t)
    BY <1>1 DEF Later, Repeated
  <2> QED  BY <2>1, <2>2
<1>3. Owns(n, s.queue) => Owns(n, t.queue)
  BY DEF Repeated
<1> QED  BY <1>2, <1>3 DEF Onward

LEMMA InsertOnward ==
  ASSUME NEW n \in Node, NEW s \in NodeState, NEW t \in NodeState, NEW f \in Frame,
         f.seq = s.sequenceNumber, f.addr2 = n, n \in MS => f.addr1 = AP,
         Lengthened(s.queue, f, t.queue),
         t.sequenceNumber = (s.sequenceNumber + 1) % 4096, Sent(s, t) => t.state \in Await
  PROVE  Onward(n, s, t)
<1>1. PICK q, p, c, d : /\ q = s.queue /\ p = t.queue /\ c = s.sequenceNumber
                        /\ d = t.sequenceNumber
  OBVIOUS
<1>2. c \in Nat
  BY <1>1, Fields
<1>3. Lengthened(q, f, p)
  BY <1>1
<1>5. d \in Nat /\ (c < 4096 /\ d # 0 => d = c + 1 /\ d < 4096)
  BY <1>1, <1>2, NextNumber
<1>6. p # <<>> /\ (q # <<>> => p[1] = q[1]) /\ (q = <<>> => p[1] = f)
  BY <1>3 DEF Lengthened
<1>7. Owns(n, q) => Owns(n, p)
  BY <1>3 DEF Lengthened
<1>8. ASSUME Counted(s), d # 0  PROVE Counted(t) /\ Later(s, t)
  <2>1. 0 < c /\ c < 4096 /\ Numbered(q, c) /\ f.seq = c
    BY <1>1, <1>8 DEF Counted
  <2>2. d = c + 1 /\ d < 4096
    BY <1>5, <1>8, <2>1
  <2>3. Numbered(p, c + 1)
    BY <1>2, <1>3, <2>1 DEF Lengthened
  <2>4. Counted(t)
    BY <1>1, <1>2, <2>1, <2>2, <2>3 DEF Counted
  <2>5. q = <<>> => c <= p[1].seq
    BY <1>2, <1>6, <2>1
  <2>6. c <= d
    BY <1>2, <2>2
  <2>7. Later(s, t)
    BY <1>1, <1>6, <2>5, <2>6 DEF Later
  <2> QED  BY <2>4, <2>7
<1> QED  BY <1>1, <1>7, <1>8 DEF Onward

LEMMA SkipOnward ==
  ASSUME NEW n, NEW s \in NodeState, NEW t \in NodeState, t.queue = s.queue,
         t.sequenceNumber = (s.sequenceNumber + 1) % 4096, Sent(s, t) => t.state \in Await
  PROVE  Onward(n, s, t)
<1>1. PICK q, c, d : q = s.queue /\ c = s.sequenceNumber /\ d = t.sequenceNumber
  OBVIOUS
<1>2. c \in Nat /\ q \in Seq(Frame)
  BY <1>1, Fields
<1>3. d \in Nat /\ (c < 4096 /\ d # 0 => d = c + 1 /\ d < 4096)
  BY <1>1, <1>2, NextNumber
<1>4. ASSUME Counted(s), d # 0  PROVE Counted(t) /\ Later(s, t)
  <2>1. 0 < c /\ c < 4096 /\ Numbered(q, c)
    BY <1>1, <1>4 DEF Counted
  <2>2. d = c + 1 /\ d < 4096
    BY <1>3, <1>4, <2>1
  <2>3. Numbered(q, d)
    <3>1. \A i \in DOMAIN q : q[i].seq \in Nat
      BY <1>2, SeqDomain
    <3>2. \A i \in DOMAIN q : 0 < q[i].seq /\ q[i].seq < d
      BY <1>2, <2>1, <2>2, <3>1 DEF Numbered
    <3> QED  BY <2>1, <3>2 DEF Numbered
  <2>4. Counted(t)
    BY <1>1, <1>2, <2>2, <2>3 DEF Counted
  <2>5. c <= d
    BY <1>2, <2>2
  <2>6. Later(s, t)
    BY <1>1, <2>5 DEF Later
  <2> QED  BY <2>4, <2>6
<1> QED  BY <1>1, <1>4 DEF Onward

-----------------------------------------------------------------------------
\* What the functions of a node's state do to what it sends.

Keeps(s, t) == t.queue = s.queue /\ t.sequenceNumber = s.sequenceNumber /\ t.seen = s.seen

\* The node is settled and sends what it would have sent.
Resumes(s, t) == Settled(t) /\ Keeps(s, t) /\ (SlotRight(s) => SlotRight(t))

LEMMA SlotKept ==
  ASSUME NEW s \in NodeState, SlotRight(s), NEW v \in TimeToSend(s)
  PROVE  v >= DIFS
<1>1. CASE s.timeToSend # 0
  <2>1. v = s.timeToSend
    BY <1>1 DEF TimeToSend
  <2> QED  BY <1>1, <2>1 DEF SlotRight
<1>2. CASE ~ (s.timeToSend # 0)
  <2>1. PICK k \in 0 .. CW[s.retry] : v = DIFS + k * SLOTTIME
    BY <1>2 DEF TimeToSend
  <2>2. k \in Nat /\ SLOTTIME \in Nat /\ DIFS \in Nat
    BY ParamAssumption
  <2>3. k * SLOTTIME \in Nat
    BY <2>2, Product
  <2> QED  BY <2>1, <2>2, <2>3
<1> QED  BY <1>1, <1>2

LEMMA StartBackoffResumes ==
  ASSUME NEW s, Quiet(s), s.queue # <<>>, NEW t \in StartBackoff(s)
  PROVE  Resumes(s, t) /\ t.input = s.input
<1>1. s \in NodeState /\ s.ok /\ s.tmr["backoff"] = Off
  BY DEF Quiet, Timer
<1>2. PICK v \in TimeToSend(s) :
        t = [Asserted(s, s.tmr["backoff"] = Off /\ s.queue # <<>>)
               EXCEPT !.state = "Backoff", !.timeToSend = v, !.tmr["backoff"] = v]
  BY DEF StartBackoff
<1>3. Asserted(s, s.tmr["backoff"] = Off /\ s.queue # <<>>) = s
  BY <1>1 DEF Asserted, NodeState
<1>4. t = [s EXCEPT !.state = "Backoff", !.timeToSend = v, !.tmr["backoff"] = v]
  BY <1>2, <1>3
<1>5. /\ t.queue = s.queue /\ t.sequenceNumber = s.sequenceNumber /\ t.seen = s.seen
      /\ t.timeToSend = v
  BY <1>1, <1>4 DEF NodeState
<1>6. SlotRight(s) => SlotRight(t)
  <2>1. SlotRight(s) => v >= DIFS
    BY <1>1, <1>2, SlotKept
  <2> QED  BY <1>5, <2>1 DEF SlotRight
<1> QED  BY <1>5, <1>6, StartBackoffSettles DEF Resumes, Keeps

LEMMA ChkOutputResumes ==
  ASSUME NEW s, Quiet(s), NEW t \in chkOutputBuffer(s)
  PROVE  Resumes(s, t) /\ t.input = s.input
<1>1. PICK i : i = [s EXCEPT !.state = "Idle"]
  OBVIOUS
<1>2. s \in NodeState /\ "Idle" \in State
  BY DEF Quiet, State
<1>3. /\ i \in NodeState /\ i.state = "Idle" /\ i.ok = s.ok /\ i.queue = s.queue /\ i.rx = s.rx
      /\ i.idleDest = s.idleDest /\ i.retry = s.retry /\ i.tmr = s.tmr /\ i.input = s.input
      /\ i.sequenceNumber = s.sequenceNumber /\ i.seen = s.seen /\ i.timeToSend = s.timeToSend
  BY <1>1, <1>2 DEF NodeState
<1>4. Quiet(i)
  BY <1>3 DEF Quiet
<1>5. CASE s.queue = <<>>
  <2>1. t = i
    BY <1>1, <1>5 DEF chkOutputBuffer
  <2> QED  BY <1>3, <2>1, ChkOutputSettles DEF Resumes, Keeps, SlotRight
<1>6. CASE s.queue # <<>>
  <2>1. t \in StartBackoff(i)
    BY <1>1, <1>6 DEF chkOutputBuffer
  <2>2. Resumes(i, t) /\ t.input = i.input
    BY <1>3, <1>4, <1>6, <2>1, StartBackoffResumes
  <2> QED  BY <1>3, <2>2 DEF Resumes, Keeps, SlotRight
<1> QED  BY <1>5, <1>6

LEMMA NextStateResumes ==
  ASSUME NEW s, Quiet(s), s.state \in {"Receive", "BackoffReceive"},
         s.state = "BackoffReceive" => s.queue # <<>>, NEW t \in changeNextState(s)
  PROVE  Resumes(s, t) /\ t.input = s.input
<1>1. CASE s.state = "BackoffReceive"
  <2>1. t \in StartBackoff(s)
    BY <1>1 DEF changeNextState
  <2> QED  BY <1>1, <2>1, StartBackoffResumes
<1>2. CASE s.state = "Receive"
  <2>1. t \in chkOutputBuffer(Asserted(s, s.state = "Receive"))
    BY <1>2 DEF changeNextState
  <2>2. Asserted(s, s.state = "Receive") = s
    BY <1>2 DEF Asserted, NodeState, Quiet
  <2> QED  BY <2>1, <2>2, ChkOutputResumes
<1> QED  BY <1>1, <1>2

LEMMA PrepareDrops ==
  ASSUME NEW s \in NodeState, NEW t, t = prepareNextFrame(s)
  PROVE  /\ t \in NodeState /\ t.queue = IF s.queue = <<>> THEN <<>> ELSE Tail(s.queue)
         /\ t.sequenceNumber = s.sequenceNumber /\ t.seen = s.seen /\ SlotRight(t)
         /\ t.input = s.input /\ t.rx = s.rx /\ t.tmr = s.tmr /\ t.idleDest = s.idleDest
<1>1. PICK q : q = IF s.queue = <<>> THEN <<>> ELSE Tail(s.queue)
  OBVIOUS
<1>2. q \in Seq(Frame)
  <2>1. s.queue \in Seq(Frame)
    BY Fields
  <2> QED  BY <1>1, <2>1
<1>3. t = [s EXCEPT !.queue = q, !.retry = 0, !.timeToSend = 0]
  BY <1>1 DEF prepareNextFrame
<1>4. 0 \in 0 .. retryLimit /\ 0 \in Nat
  BY ParamAssumption
<1>5. t \in NodeState /\ t.queue = q /\ t.timeToSend = 0
  BY <1>2, <1>3, <1>4 DEF NodeState
<1>6. /\ t.sequenceNumber = s.sequenceNumber /\ t.seen = s.seen
      /\ t.input = s.input /\ t.rx = s.rx /\ t.tmr = s.tmr /\ t.idleDest = s.idleDest
  BY <1>3 DEF NodeState
<1> QED  BY <1>1, <1>5, <1>6 DEF SlotRight

LEMMA RetryRepeats ==
  ASSUME NEW s \in NodeState, s.queue # <<>>, NEW t, t = initiateRetry(s)
  PROVE  /\ Repeated(s.queue, t.queue) /\ t.sequenceNumber = s.sequenceNumber /\ t.seen = s.seen
         /\ SlotRight(t)
<1>1. PICK q : q = s.queue
  OBVIOUS
<1>2. q \in Seq(Frame) /\ q # <<>>
  BY <1>1, Fields
<1>3. PICK p : p = [q EXCEPT ![1].retry = TRUE]
  OBVIOUS
<1>4. p \in Seq(Frame) /\ Repeated(q, p)
  BY <1>2, <1>3, RetryQueue
<1>5. PICK c : c = s.retry + 1
  OBVIOUS
<1>6. t = [s EXCEPT !.queue = p, !.retry = c, !.timeToSend = 0]
  BY <1>1, <1>3, <1>5 DEF initiateRetry
<1>7. /\ t.queue = p /\ t.timeToSend = 0 /\ t.sequenceNumber = s.sequenceNumber /\ t.seen = s.seen
  BY <1>6 DEF NodeState
<1> QED  BY <1>1, <1>4, <1>7 DEF SlotRight

LEMMA EndAwaitSender ==
  ASSUME NEW n \in Node, NEW s, Awaiting(s), NEW t \in endAwaitACK(s)
  PROVE  /\ Onward(n, s, t) /\ t.seen = s.seen /\ (SlotRight(s) => SlotRight(t))
         /\ \/ Settled(t)
            \/ t.state = "AwaitACKReceive" /\ t.queue = s.queue /\ t.tmr = s.tmr
<1>1. s \in NodeState /\ s.rx \in Nat /\ s.retry \in 0 .. retryLimit /\ retryLimit \in Nat
  BY Fields, ParamAssumption DEF Awaiting
<1>2. PICK u : u = [s EXCEPT !.input = None]
  OBVIOUS
<1>3. u \in NodeState
  BY <1>1, <1>2 DEF NodeState
<1>4. /\ u.ok = s.ok /\ u.state = s.state /\ u.queue = s.queue /\ u.idleDest = s.idleDest
      /\ u.retry = s.retry /\ u.rx = s.rx /\ u.tmr = s.tmr /\ u.ackReceived = s.ackReceived
      /\ u.sequenceNumber = s.sequenceNumber /\ u.seen = s.seen /\ u.timeToSend = s.timeToSend
  BY <1>1, <1>2 DEF NodeState
<1>5. Awaiting(u)
  BY <1>3, <1>4 DEF Awaiting
<1>6. t \in NodeState
  BY EndAwaitGood DEF Turns, Good
<1>7. CASE u.rx > 0
  <2>1. t = [u EXCEPT !.state = "AwaitACKReceive"]
    BY <1>2, <1>7 DEF endAwaitACK
  <2>2. /\ t.state = "AwaitACKReceive" /\ t.queue = u.queue /\ t.tmr = u.tmr
        /\ t.sequenceNumber = u.sequenceNumber /\ t.seen = u.seen /\ t.timeToSend = u.timeToSend
    BY <1>3, <2>1 DEF NodeState
  <2>3. Onward(n, s, t)
    BY <1>1, <1>4, <1>6, <2>2, StayOnward DEF Await
  <2> QED  BY <1>4, <2>2, <2>3 DEF SlotRight
<1>8. CASE ~ (u.rx > 0)
  <2>1. s.rx = 0 /\ u.rx = 0 /\ s.queue # <<>> /\ u.queue # <<>>
    BY <1>1, <1>4, <1>8 DEF Awaiting
  <2>2. CASE u.retry + 1 > retryLimit
    <3>1. PICK p : p = prepareNextFrame(u)
      OBVIOUS
    <3>2. t \in chkOutputBuffer(p)
      BY <1>2, <1>5, <1>8, <2>2, <3>1 DEF endAwaitACK, Awaiting
    <3>3. Quiet(p)
      BY <1>5, <2>1, <3>1, PrepareQuiet DEF Awaiting
    <3>4. /\ p.queue = IF u.queue = <<>> THEN <<>> ELSE Tail(u.queue)
          /\ p.sequenceNumber = u.sequenceNumber /\ p.seen = u.seen /\ SlotRight(p)
      BY <1>3, <3>1, PrepareDrops
    <3>5. Resumes(p, t)
      BY <3>2, <3>3, ChkOutputResumes
    <3>6. Settled(t) /\ SlotRight(t) /\ t.queue = p.queue /\ t.seen = p.seen
          /\ t.sequenceNumber = p.sequenceNumber
      BY <3>4, <3>5 DEF Resumes, Keeps
    <3>7. Onward(n, s, t)
      BY <1>1, <1>4, <1>6, <3>4, <3>6, DropOnward
    <3> QED  BY <1>4, <3>4, <3>6, <3>7
  <2>3. CASE ~ (u.retry + 1 > retryLimit)
    <3>1. PICK p : p = initiateRetry(u)
      OBVIOUS
    <3>2. t \in StartBackoff(p)
      BY <1>2, <1>5, <1>8, <2>3, <3>1 DEF endAwaitACK, Awaiting
    <3>3. u.retry + 1 \in 0 .. retryLimit
      BY <1>1, <1>4, <2>3
    <3>4. Quiet(p) /\ p.queue # <<>>
      BY <1>5, <2>1, <3>1, <3>3, RetryQuiet
    <3>5. /\ Repeated(u.queue, p.queue) /\ p.sequenceNumber = u.sequenceNumber /\ p.seen = u.seen
          /\ SlotRight(p)
      BY <1>3, <2>1, <3>1, RetryRepeats
    <3>6. Resumes(p, t)
      BY <3>2, <3>4, StartBackoffResumes
    <3>7. Settled(t) /\ SlotRight(t) /\ t.queue = p.queue /\ t.seen = p.seen
          /\ t.sequenceNumber = p.sequenceNumber
      BY <3>5, <3>6 DEF Resumes, Keeps
    <3>8. Onward(n, s, t)
      BY <1>1, <1>4, <1>6, <2>1, <3>5, <3>7, RetryOnward
    <3> QED  BY <1>4, <3>5, <3>7, <3>8
  <2> QED  BY <2>2, <2>3
<1> QED  BY <1>7, <1>8

-----------------------------------------------------------------------------
\* A step in which the node n takes nothing in, passes nothing up and schedules no
\* acknowledgement.
Passive(n, s, t) ==
  /\ SenderStep(n, s, t) /\ t.seen = s.seen
  /\ t.tmr["sendAck"] # Off => t.tmr["sendAck"] = s.tmr["sendAck"] /\ t.ackTo = s.ackTo
  /\ t.input # None => t.input = s.input /\ t.source = s.source

LEMMA NoInputSame ==
  ASSUME NEW u \in NodeState, NEW t, t = NoInput(u)
  PROVE  /\ t \in NodeState /\ t.input = None
         /\ t.state = u.state /\ t.queue = u.queue /\ t.sequenceNumber = u.sequenceNumber
         /\ t.seen = u.seen /\ t.timeToSend = u.timeToSend /\ t.tmr = u.tmr
         /\ t.idleDest = u.idleDest /\ t.ackTo = u.ackTo /\ t.source = u.source
<1>1. t = [u EXCEPT !.input = None]
  BY DEF NoInput
<1>2. t \in NodeState /\ t.input = None
  BY <1>1 DEF NodeState
<1>3. /\ t.state = u.state /\ t.queue = u.queue /\ t.sequenceNumber = u.sequenceNumber
      /\ t.seen = u.seen /\ t.timeToSend = u.timeToSend /\ t.tmr = u.tmr
      /\ t.idleDest = u.idleDest /\ t.ackTo = u.ackTo /\ t.source = u.source
  BY <1>1 DEF NodeState
<1> QED  BY <1>2, <1>3

LEMMA OnwardSame ==
  ASSUME NEW n, NEW s, NEW u, NEW t, Onward(n, s, u), t.queue = u.queue,
         t.sequenceNumber = u.sequenceNumber, t.state = u.state
  PROVE  Onward(n, s, t)
  BY DEF Onward, Counted, Later, Sent

\* The sender's step when the node is settled, or when it stays in its state.
LEMMA SettledSender ==
  ASSUME NEW n, NEW s, NEW t, Settled(t), Onward(n, s, t), SlotRight(s) => SlotRight(t),
         s.state = "Send" => s.tmr["endSendData"] = 0
  PROVE  SenderStep(n, s, t)
<1>1. t.state \in {"Idle", "Backoff"}
  BY DEF Settled
<1>2. SlotRight(t) /\ t.state = "Backoff" => t.tmr["backoff"] >= DIFS
  BY DEF Settled, SlotRight
<1> QED  BY <1>1, <1>2 DEF SenderStep, Await

LEMMA SameSender ==
  ASSUME NEW n, NEW s, Good(s), NEW t, Onward(n, s, t), SlotRight(s) => SlotRight(t),
         t.state = s.state, s.state = "Backoff" => t.tmr["backoff"] = s.tmr["backoff"],
         s.queue # <<>> => t.queue[1] = s.queue[1], s.state = "Send" => t.idleDest = s.idleDest
  PROVE  SenderStep(n, s, t)
<1>1. s.state \in {"Send", "AwaitACK", "AwaitACKReceive"} => s.queue # <<>>
  BY DEF Good, QueueRight
<1> QED  BY <1>1 DEF SenderStep, Await

LEMMA SettledPassive ==
  ASSUME NEW n, NEW s, NEW u, Settled(u), Onward(n, s, u), SlotRight(s) => SlotRight(u),
         u.seen = s.seen, s.state = "Send" => s.tmr["endSendData"] = 0, NEW t, t = NoInput(u)
  PROVE  Passive(n, s, t)
<1>1. u \in NodeState
  BY DEF Settled
<1>2. /\ t.input = None /\ t.state = u.state /\ t.queue = u.queue
      /\ t.sequenceNumber = u.sequenceNumber /\ t.seen = u.seen /\ t.tmr = u.tmr
  BY <1>1, NoInputSame
<1>3. SenderStep(n, s, u)
  BY SettledSender
<1>4. SenderStep(n, s, t)
  <2>1. Onward(n, s, t)
    BY <1>2, OnwardSame
  <2>2. SlotRight(u) => SlotRight(t)
    BY <1>1, NoInputSame DEF SlotRight
  <2>3. u.state \in {"Idle", "Backoff"}
    BY DEF Settled
  <2> QED  BY <1>2, <1>3, <2>1, <2>2, <2>3 DEF SenderStep, Await
<1>5. u.tmr["sendAck"] = Off
  BY DEF Settled, Timer
<1> QED  BY <1>2, <1>4, <1>5 DEF Passive

LEMMA SamePassive ==
  ASSUME NEW n, NEW s, Good(s), NEW t \in NodeState, t.state = s.state, Keeps(s, t),
         t.timeToSend = s.timeToSend, t.tmr = s.tmr, t.idleDest = s.idleDest, t.ackTo = s.ackTo,
         t.input # None => t.input = s.input /\ t.source = s.source
  PROVE  Passive(n, s, t)
<1>1. s \in NodeState
  BY DEF Good
<1>2. Onward(n, s, t)
  BY <1>1, StayOnward DEF Keeps, Sent
<1>3. SenderStep(n, s, t)
  BY <1>2, SameSender DEF Keeps, SlotRight
<1> QED  BY <1>3 DEF Passive, Keeps

\* A quiet node goes on.
LEMMA ResumePassive ==
  ASSUME NEW n, NEW s \in NodeState, s.state \notin Await \cup {"Send"}, NEW u, Keeps(s, u),
         SlotRight(s) => SlotRight(u), NEW v, Resumes(u, v), NEW t, t = NoInput(v)
  PROVE  Passive(n, s, t)
<1>1. v \in NodeState /\ Settled(v) /\ Keeps(u, v) /\ (SlotRight(u) => SlotRight(v))
  BY DEF Resumes, Settled
<1>2. Onward(n, s, v)
  BY <1>1, StayOnward DEF Keeps, Sent
<1> QED  BY <1>1, <1>2, SettledPassive DEF Keeps

-----------------------------------------------------------------------------
\* The start of a frame.

LEMMA HeardPassive ==
  ASSUME NEW n, NEW s, Good(s), NEW r \in Nat, NEW o \in Node \cup {None}, NEW t,
         \/ t = [s EXCEPT !.rx = r, !.input = None]
         \/ s.input = None /\ t = [s EXCEPT !.rx = r, !.source = o]
  PROVE  Passive(n, s, t)
<1>1. s \in NodeState
  BY DEF Good
<1>2. None \in Frame \cup AckFrame \cup {None}
  OBVIOUS
<1>3. t \in NodeState
  BY <1>1, <1>2, ZenonT(60) DEF NodeState
<1>4. /\ t.state = s.state /\ t.queue = s.queue /\ t.sequenceNumber = s.sequenceNumber
      /\ t.seen = s.seen /\ t.timeToSend = s.timeToSend /\ t.tmr = s.tmr
      /\ t.idleDest = s.idleDest /\ t.ackTo = s.ackTo /\ t.input = None
  BY <1>1 DEF NodeState
<1> QED  BY <1>3, <1>4, SamePassive DEF Keeps

\* The node takes the frame of sig in.
Begins(n, s, t, sig) ==
  /\ SenderStep(n, s, t) /\ t.seen = s.seen /\ t.tmr["sendAck"] = Off
  /\ s.state \in {"Idle", "AwaitACK", "Backoff"} /\ t.input = sig.frame /\ t.source = sig.from

LEMMA TakeInBegins ==
  ASSUME NEW n, NEW s, Good(s), NEW sig \in Sig, sig.frame # None, NEW next,
         (s.state = "Idle" /\ next = "Receive") \/ (s.state = "AwaitACK" /\ next = "AwaitACKReceive"),
         NEW t, t = TakeIn([s EXCEPT !.rx = @ + 1], sig, next)
  PROVE  Begins(n, s, t, sig)
<1>1. s \in NodeState /\ s.ok /\ s.rx = 0 /\ s.tmr["backoff"] = Off /\ s.input = None
  BY DEF Good, TimersRight, SensesRight
<1>2. PICK h : h = [s EXCEPT !.rx = 1]
  OBVIOUS
<1>3. h \in NodeState /\ h.ok = s.ok /\ h.tmr = s.tmr /\ h.input = s.input
  BY <1>1, <1>2 DEF NodeState
<1>4. [s EXCEPT !.rx = @ + 1] = h
  BY <1>1, <1>2
<1>5. Asserted(h, h.tmr["backoff"] = Off /\ h.input = None) = h
  BY <1>1, <1>3 DEF Asserted, NodeState
<1>6. t = [h EXCEPT !.input = sig.frame, !.source = sig.from, !.state = next]
  BY <1>4, <1>5 DEF TakeIn
<1>7. t = [s EXCEPT !.rx = 1, !.input = sig.frame, !.source = sig.from, !.state = next]
  BY <1>2, <1>6
<1>8. /\ t.queue = s.queue /\ t.sequenceNumber = s.sequenceNumber /\ t.seen = s.seen
      /\ t.timeToSend = s.timeToSend /\ t.tmr = s.tmr
      /\ t.input = sig.frame /\ t.source = sig.from /\ t.state = next
  BY <1>1, <1>7 DEF NodeState
<1>9. t \in NodeState
  BY TakeInGood DEF Turns, Good
<1>10. Onward(n, s, t)
  BY <1>1, <1>8, <1>9, StayOnward DEF Sent, Await
<1>11. SenderStep(n, s, t)
  BY <1>8, <1>10 DEF SenderStep, Await, SlotRight
<1>12. s.tmr["sendAck"] = Off
  BY DEF Good, TimersRight
<1> QED  BY <1>8, <1>11, <1>12 DEF Begins

\* An interrupted wait is not shorter than DIFS.
LEMMA InterruptedSlot ==
  ASSUME NEW s \in NodeState, s.ok, s.tmr["backoff"] \in Nat, s.tmr["backoff"] <= s.timeToSend,
         s.timeToSend > 0
  PROVE  \E v \in Nat : /\ contentionInterrupted(s) = [s EXCEPT !.timeToSend = v]
                        /\ SlotRight(s) => v >= DIFS
<1>1. PICK e, w, b : e = s.timeToSend - b /\ w = s.timeToSend /\ b = s.tmr["backoff"]
  OBVIOUS
<1>2. w \in Nat /\ b \in Nat /\ e \in Nat /\ e <= w /\ w > 0
  BY <1>1, Fields
<1>a. DIFS \in Nat /\ SLOTTIME \in Nat \ {0}
  BY ParamAssumption
<1>3. Asserted(s, s.timeToSend > 0) = s
  BY DEF Asserted, NodeState
<1>4. contentionInterrupted(s)
        = [s EXCEPT !.timeToSend = IF e > DIFS THEN w - ((e - DIFS) \div SLOTTIME) * SLOTTIME ELSE w]
  BY <1>1, <1>3 DEF contentionInterrupted
<1>5. CASE e > DIFS
  <2>1. e - DIFS \in Nat /\ SLOTTIME \in Nat \ {0} /\ e - DIFS <= w
    BY <1>a, <1>2, <1>5
  <2>2. ((e - DIFS) \div SLOTTIME) * SLOTTIME \in Nat /\ ((e - DIFS) \div SLOTTIME) * SLOTTIME <= e - DIFS
    BY <2>1, Slots
  <2>3. PICK m \in Nat : m = ((e - DIFS) \div SLOTTIME) * SLOTTIME
    BY <2>2
  <2>4. w - m \in Nat /\ w - m >= DIFS
    BY <1>a, <1>2, <2>1, <2>2, <2>3
  <2> QED  BY <1>4, <1>5, <2>3, <2>4
<1>6. CASE ~ (e > DIFS)
  <2>1. SlotRight(s) => w >= DIFS
    BY <1>1, <1>2 DEF SlotRight
  <2> QED  BY <1>2, <1>4, <1>6, <2>1
<1> QED  BY <1>5, <1>6

LEMMA InterruptBegins ==
  ASSUME NEW n, NEW s, Good(s), s.state = "Backoff", ~ (s.tmr["backoff"] < RXTXTURNAROUND),
         NEW sig \in Sig, sig.frame # None, NEW t,
         t = TakeIn([contentionInterrupted([s EXCEPT !.rx = @ + 1]) EXCEPT !.tmr["backoff"] = Off],
                    sig, "BackoffReceive")
  PROVE  Begins(n, s, t, sig)
<1>1. /\ s \in NodeState /\ s.ok /\ s.rx \in Nat /\ s.input = None
      /\ s.tmr \in [Timer -> Nat \cup {Off}] /\ s.tmr["backoff"] # Off
      /\ s.tmr["backoff"] <= s.timeToSend /\ s.timeToSend > 0
  BY Fields DEF Good, SensesRight, TimersRight
<1>2. s.rx = 0
  BY <1>1 DEF Good, SensesRight
<1>3. s.tmr["backoff"] \in Nat
  BY <1>1 DEF Timer
<1>4. PICK h : h = [s EXCEPT !.rx = 1]
  OBVIOUS
<1>5. [s EXCEPT !.rx = @ + 1] = h
  BY <1>2, <1>4
<1>6. /\ h \in NodeState /\ h.ok = s.ok /\ h.tmr = s.tmr /\ h.timeToSend = s.timeToSend
  BY <1>1, <1>4 DEF NodeState
<1>7. PICK v \in Nat : contentionInterrupted(h) = [h EXCEPT !.timeToSend = v] /\ (SlotRight(h) => v >= DIFS)
  BY <1>1, <1>3, <1>6, InterruptedSlot
<1>8. PICK f : f = [s.tmr EXCEPT !["backoff"] = Off]
  OBVIOUS
<1>9. /\ f \in [Timer -> Nat \cup {Off}] /\ f["backoff"] = Off
      /\ \A x \in Timer \ {"backoff"} : f[x] = s.tmr[x]
  BY <1>1, <1>8 DEF Timer
<1>10. PICK c : c = [s EXCEPT !.rx = 1, !.timeToSend = v, !.tmr = f]
  OBVIOUS
<1>11. [contentionInterrupted(h) EXCEPT !.tmr["backoff"] = Off] = c
  BY <1>1, <1>4, <1>7, <1>8, <1>10 DEF NodeState
<1>12. c \in NodeState /\ c.ok = s.ok /\ c.tmr = f /\ c.input = s.input
  BY <1>1, <1>9, <1>10 DEF NodeState
<1>13. Asserted(c, c.tmr["backoff"] = Off /\ c.input = None) = c
  BY <1>1, <1>9, <1>12 DEF Asserted, NodeState
<1>14. t = [c EXCEPT !.input = sig.frame, !.source = sig.from, !.state = "BackoffReceive"]
  BY <1>5, <1>11, <1>13 DEF TakeIn
<1>15. t = [s EXCEPT !.rx = 1, !.timeToSend = v, !.tmr = f, !.input = sig.frame, !.source = sig.from,
                     !.state = "BackoffReceive"]
  BY <1>10, <1>14
<1>16. /\ t.queue = s.queue /\ t.sequenceNumber = s.sequenceNumber /\ t.seen = s.seen
       /\ t.timeToSend = v /\ t.tmr = f
       /\ t.input = sig.frame /\ t.source = sig.from /\ t.state = "BackoffReceive"
  BY <1>1, <1>15 DEF NodeState
<1>17. t \in NodeState
  BY InterruptGood DEF Turns, Good
<1>18. Onward(n, s, t)
  BY <1>1, <1>16, <1>17, StayOnward DEF Sent, Await
<1>19. SlotRight(s) => SlotRight(t)
  BY <1>6, <1>7, <1>16 DEF SlotRight
<1>20. SenderStep(n, s, t)
  BY <1>16, <1>18, <1>19 DEF SenderStep, Await
<1>21. s.tmr["sendAck"] = Off
  BY DEF Good, TimersRight
<1>22. t.tmr["sendAck"] = Off
  BY <1>9, <1>16, <1>21 DEF Timer
<1> QED  BY <1>16, <1>20, <1>22 DEF Begins

-----------------------------------------------------------------------------
\* The end of a frame.

\* One frame less is heard, and nothing else has changed.
Fewer(s, r, u) == Less(s, r, u) /\ u.sequenceNumber = s.sequenceNumber /\ u.ackTo = s.ackTo

LEMMA DecFewer ==
  ASSUME NEW s \in NodeState, NEW u, u = decNoOfRxFrames(s), NEW r, Less(s, r, u)
  PROVE  Fewer(s, r, u)
<1>1. CASE s.rx > 0
  <2>1. PICK k : k = s.rx - 1
    OBVIOUS
  <2>2. u = [s EXCEPT !.rx = k]
    BY <1>1, <2>1 DEF decNoOfRxFrames
  <2> QED  BY <2>2 DEF NodeState, Fewer
<1>2. CASE ~ (s.rx > 0)
  <2>1. u = [s EXCEPT !.input = None]
    BY <1>2 DEF decNoOfRxFrames
  <2> QED  BY <2>1 DEF NodeState, Fewer
<1> QED  BY <1>1, <1>2

LEMMA FewerKeeps ==
  ASSUME NEW s, NEW r, NEW u, Fewer(s, r, u)
  PROVE  Keeps(s, u) /\ (SlotRight(s) => SlotRight(u)) /\ u \in NodeState
  BY DEF Fewer, Less, Keeps, SlotRight

LEMMA FewerPassive ==
  ASSUME NEW n, NEW s, Good(s), NEW r, NEW u, Fewer(s, r, u)
  PROVE  Passive(n, s, u) /\ Passive(n, s, NoInput(u))
<1>1. Passive(n, s, u)
  <2>1. u \in NodeState /\ u.state = s.state /\ u.timeToSend = s.timeToSend /\ u.tmr = s.tmr
        /\ u.idleDest = s.idleDest /\ u.ackTo = s.ackTo /\ u.input = s.input /\ u.source = s.source
    BY DEF Fewer, Less
  <2> QED  BY <2>1, FewerKeeps, SamePassive
<1>2. PICK t : t = NoInput(u)
  OBVIOUS
<1>3. u \in NodeState /\ Keeps(s, u)
  BY FewerKeeps
<1>4. /\ t \in NodeState /\ t.input = None
      /\ t.state = u.state /\ t.queue = u.queue /\ t.sequenceNumber = u.sequenceNumber
      /\ t.seen = u.seen /\ t.timeToSend = u.timeToSend /\ t.tmr = u.tmr
      /\ t.idleDest = u.idleDest /\ t.ackTo = u.ackTo
  BY <1>2, <1>3, NoInputSame
<1>5. /\ t.state = s.state /\ t.timeToSend = s.timeToSend /\ t.tmr = s.tmr
      /\ t.idleDest = s.idleDest /\ t.ackTo = s.ackTo
  BY <1>4 DEF Fewer, Less
<1>6. Keeps(s, t)
  BY <1>3, <1>4 DEF Keeps
<1>7. Passive(n, s, t)
  BY <1>4, <1>5, <1>6, SamePassive
<1> QED  BY <1>1, <1>2, <1>7

LEMMA NothingPassive ==
  ASSUME NEW n, NEW s, Good(s), s.state \in {"Receive", "BackoffReceive"}, NEW r \in Nat, NEW u,
         Fewer(s, r, u),
         NEW t \in IF u.input = None /\ u.rx = 0 /\ u.tmr["endSendAck"] = Off /\ u.tmr["sendAck"] = Off
                   THEN changeNextState(u) ELSE {NoInput(u)}
  PROVE  Passive(n, s, t) /\ t.input = None
<1>1. CASE u.input = None /\ u.rx = 0 /\ u.tmr["endSendAck"] = Off /\ u.tmr["sendAck"] = Off
  <2>1. Less(s, 0, u) /\ s.tmr["sendAck"] = Off /\ s.tmr["endSendAck"] = Off
    BY <1>1 DEF Fewer, Less
  <2>2. /\ Quiet(u) /\ u.state \in {"Receive", "BackoffReceive"}
        /\ u.state = "BackoffReceive" => u.queue # <<>>
    BY <2>1, LessQuiet
  <2>3. t \in changeNextState(u)
    BY <1>1
  <2>4. Resumes(u, t) /\ t.input = u.input
    BY <2>2, <2>3, NextStateResumes
  <2>a. t \in NodeState /\ t.input = None
    BY <1>1, <2>4 DEF Resumes, Settled
  <2>5. NoInput(t) = t
    BY <2>a DEF NoInput, NodeState
  <2>6. s \in NodeState /\ s.state \notin Await \cup {"Send"}
    BY DEF Good, Await
  <2> QED  BY <2>4, <2>5, <2>6, <2>a, FewerKeeps, ResumePassive
<1>2. CASE ~ (u.input = None /\ u.rx = 0 /\ u.tmr["endSendAck"] = Off /\ u.tmr["sendAck"] = Off)
  <2>1. t = NoInput(u)
    BY <1>2
  <2>2. u \in NodeState
    BY FewerKeeps
  <2> QED  BY <2>1, <2>2, FewerPassive, NoInputSame
<1> QED  BY <1>1, <1>2

\* A frame was received whole that is not taken.
LEMMA IgnoredPassive ==
  ASSUME NEW n, NEW s, Good(s), s.state \in {"Receive", "BackoffReceive"}, s.input # None, NEW u,
         Fewer(s, 0, u), NEW v \in changeNextState(u)
  PROVE  Passive(n, s, NoInput(v))
<1>1. /\ Quiet(u) /\ u.state \in {"Receive", "BackoffReceive"}
      /\ u.state = "BackoffReceive" => u.queue # <<>>
  BY WholeAlone, LessQuiet DEF Fewer
<1>2. Resumes(u, v)
  BY <1>1, NextStateResumes
<1>3. s \in NodeState /\ s.state \notin Await \cup {"Send"}
  BY DEF Good, Await
<1> QED  BY <1>2, <1>3, FewerKeeps, ResumePassive

\* A frame was received whole: g is noted, and the acknowledgement is for the node a.
Receives(n, s, t, g, a) ==
  /\ SenderStep(n, s, t) /\ t.seen = g /\ t.input = None
  /\ t.tmr["sendAck"] # Off => t.tmr["sendAck"] = SIFS /\ t.ackTo = a

\* Nobody acknowledges a broadcast frame.
LEMMA NotedReceives ==
  ASSUME NEW n, NEW s, Good(s), s.state \in {"Receive", "BackoffReceive"}, s.input # None, NEW u,
         Fewer(s, 0, u), NEW g \in [Node -> Nat], NEW v \in changeNextState([u EXCEPT !.seen = g]), NEW a
  PROVE  /\ Receives(n, s, NoInput(v), g, a)
         /\ NoInput(v) \in NodeState /\ NoInput(v).tmr["sendAck"] = Off
<1>1. /\ Quiet(u) /\ u.state \in {"Receive", "BackoffReceive"}
      /\ u.state = "BackoffReceive" => u.queue # <<>>
  BY WholeAlone, LessQuiet DEF Fewer
<1>2. PICK w : w = [u EXCEPT !.seen = g]
  OBVIOUS
<1>3. u \in NodeState /\ s \in NodeState
  BY FewerKeeps DEF Good
<1>4. w \in NodeState /\ w.seen = g
  BY <1>2, <1>3 DEF NodeState
<1>5. /\ w.ok = u.ok /\ w.state = u.state /\ w.queue = u.queue /\ w.idleDest = u.idleDest
      /\ w.retry = u.retry /\ w.tmr = u.tmr /\ w.rx = u.rx
      /\ w.sequenceNumber = u.sequenceNumber /\ w.timeToSend = u.timeToSend
  BY <1>2, <1>3 DEF NodeState
<1>6. /\ Quiet(w) /\ w.state \in {"Receive", "BackoffReceive"}
      /\ w.state = "BackoffReceive" => w.queue # <<>>
  BY <1>1, <1>4, <1>5 DEF Quiet
<1>7. Resumes(w, v)
  BY <1>2, <1>6, NextStateResumes
<1>8. /\ v \in NodeState /\ Settled(v) /\ v.queue = s.queue /\ v.seen = g
      /\ v.sequenceNumber = s.sequenceNumber /\ (SlotRight(s) => SlotRight(v))
  BY <1>4, <1>5, <1>7, FewerKeeps DEF Resumes, Keeps, Settled, SlotRight
<1>9. Onward(n, s, v)
  BY <1>3, <1>8, StayOnward DEF Sent, Await
<1>10. SenderStep(n, s, v)
  BY <1>8, <1>9, SettledSender
<1>11. PICK t : t = NoInput(v)
  OBVIOUS
<1>12. /\ t \in NodeState /\ t.input = None /\ t.state = v.state /\ t.queue = v.queue
       /\ t.sequenceNumber = v.sequenceNumber
       /\ t.seen = v.seen /\ t.timeToSend = v.timeToSend /\ t.tmr = v.tmr
  BY <1>8, <1>11, NoInputSame
<1>13. Onward(n, s, t)
  BY <1>9, <1>12, OnwardSame
<1>14. SlotRight(v) => SlotRight(t)
  BY <1>12 DEF SlotRight
<1>15. v.state \in {"Idle", "Backoff"} /\ v.tmr["sendAck"] = Off
  BY <1>8 DEF Settled, Timer
<1>16. SenderStep(n, s, t)
  BY <1>10, <1>12, <1>13, <1>14, <1>15 DEF SenderStep, Await
<1> QED  BY <1>8, <1>11, <1>12, <1>15, <1>16 DEF Receives

\* The node will send an acknowledgement.
LEMMA AckReceives ==
  ASSUME NEW n, NEW s, Good(s), s.state \in {"Receive", "BackoffReceive"}, NEW w, AckPending(s, w),
         Onward(n, s, w), w.timeToSend = s.timeToSend, NEW t, t = NoInput(w)
  PROVE  Receives(n, s, t, w.seen, w.ackTo)
<1>1. w \in NodeState
  BY DEF AckPending
<1>2. /\ t.input = None /\ t.state = w.state /\ t.queue = w.queue
      /\ t.sequenceNumber = w.sequenceNumber /\ t.ackTo = w.ackTo
      /\ t.seen = w.seen /\ t.timeToSend = w.timeToSend /\ t.tmr = w.tmr /\ t.idleDest = w.idleDest
  BY <1>1, NoInputSame
<1>3. Onward(n, s, t)
  BY <1>2, OnwardSame
<1>4. /\ w.state = s.state /\ w.tmr["backoff"] = s.tmr["backoff"] /\ w.tmr["sendAck"] = SIFS
      /\ w.idleDest = s.idleDest /\ (s.queue # <<>> => w.queue[1] = s.queue[1])
  BY DEF AckPending, Timer
<1>5. SenderStep(n, s, t)
  BY <1>2, <1>3, <1>4, SameSender DEF SlotRight
<1> QED  BY <1>2, <1>4, <1>5 DEF Receives

LEMMA ScheduleFields ==
  ASSUME NEW u \in NodeState, u.tmr["sendAck"] = Off, u.ok, NEW to \in Node, NEW w,
         w = scheduleAck(u, to)
  PROVE  /\ w.queue = u.queue /\ w.sequenceNumber = u.sequenceNumber /\ w.seen = u.seen
         /\ w.timeToSend = u.timeToSend /\ w.state = u.state /\ w.ackTo = to
<1>1. Asserted(u, u.tmr["sendAck"] = Off) = u
  BY DEF Asserted, NodeState
<1>2. PICK g : g = [u.tmr EXCEPT !["sendAck"] = SIFS]
  OBVIOUS
<1>3. w = [u EXCEPT !.ackTo = to, !.tmr = g]
  BY <1>1, <1>2 DEF scheduleAck
<1> QED  BY <1>3 DEF NodeState

LEMMA ForwardFields ==
  ASSUME NEW w \in NodeState, w.state \in {"Receive", "BackoffReceive"}, NEW g \in [Node -> Nat],
         NEW f \in Frame, NEW t, t = Forward([w EXCEPT !.seen = g], f), t \in NodeState
  PROVE  /\ t.seen = g /\ t.ackTo = w.ackTo /\ t.timeToSend = w.timeToSend
         /\ Onward(AP, w, t)
<1>1. w.queue \in Seq(Frame) /\ w.sequenceNumber \in Nat
  BY Fields
<1>2. PICK v : v = [w EXCEPT !.seen = g]
  OBVIOUS
<1>3. v \in NodeState /\ v.sequenceNumber = w.sequenceNumber
  BY <1>2 DEF NodeState
<1>4. PICK c : c = (w.sequenceNumber + 1) % 4096
  OBVIOUS
<1>5. c \in Nat
  BY <1>1, <1>4
<1>6. PICK i : i = incrementSequenceNumber(v)
  OBVIOUS
<1>7. i = [w EXCEPT !.seen = g, !.sequenceNumber = c]
  BY <1>2, <1>3, <1>4, <1>6 DEF incrementSequenceNumber
<1>8. i \in NodeState /\ i.sequenceNumber = c /\ i.seen = g
  BY <1>5, <1>7 DEF NodeState
<1>9. /\ i.queue = w.queue /\ i.ackTo = w.ackTo /\ i.timeToSend = w.timeToSend /\ i.state = w.state
  BY <1>5, <1>7 DEF NodeState
<1>10. AP \in Node /\ AP \notin MS
  BY ParamAssumption DEF Node
<1>11. CASE f.addr3 = Wired
  <2>1. t = i
    BY <1>2, <1>6, <1>11 DEF Forward
  <2>2. Onward(AP, w, t)
    BY <1>4, <1>8, <1>9, <2>1, SkipOnward DEF Sent, Await
  <2> QED  BY <1>8, <1>9, <2>1, <2>2
<1>12. CASE f.addr3 # Wired
  <2>1. PICK b : b = createFrame(AP, v, f.addr2, f.addr3)
    OBVIOUS
  <2>2. b \in Frame /\ b.seq = w.sequenceNumber /\ b.addr2 = AP
    <3>1. /\ f.addr3 \in Node \cup {Broadcast} /\ f.addr2 \in Node
      BY <1>12 DEF Frame
    <3> QED  BY <1>1, <1>3, <1>10, <2>1, <3>1 DEF createFrame, Frame
  <2>3. PICK p : p = IF Len(i.queue) <= maxQueueSize THEN Append(i.queue, b)
                     ELSE <<Head(i.queue)>> \o Append(SubSeq(i.queue, 3, Len(i.queue)), b)
    OBVIOUS
  <2>4. Lengthened(w.queue, b, p)
    <3>1. ASSUME NEW q \in Seq(Frame), q = i.queue  PROVE Lengthened(q, b, p)
      BY <2>2, <2>3, <3>1, InsertQueue
    <3> QED  BY <1>1, <1>9, <3>1
  <2>5. t = [i EXCEPT !.queue = p]
    BY <1>2, <1>6, <1>12, <2>1, <2>3 DEF Forward, insertFrame
  <2>6. /\ t.queue = p /\ t.sequenceNumber = i.sequenceNumber /\ t.seen = i.seen
        /\ t.ackTo = i.ackTo /\ t.timeToSend = i.timeToSend /\ t.state = i.state
    BY <1>8, <2>5 DEF NodeState
  <2>7. Onward(AP, w, t)
    <3>1. t.sequenceNumber = (w.sequenceNumber + 1) % 4096 /\ ~ Sent(w, t)
      BY <1>4, <1>8, <1>9, <2>6 DEF Sent, Await
    <3>2. Lengthened(w.queue, b, t.queue)
      BY <2>4, <2>6
    <3> QED  BY <1>10, <2>2, <3>1, <3>2, InsertOnward
  <2> QED  BY <1>8, <1>9, <2>6, <2>7
<1> QED  BY <1>11, <1>12

-----------------------------------------------------------------------------
\* The wait for an acknowledgement ends.

LEMMA StoppedKeeps ==
  ASSUME NEW u \in NodeState, u.state \in Await, NEW v \in Stopped(u)
  PROVE  Keeps(u, v) /\ v.timeToSend = u.timeToSend /\ v.state \in Await
<1>1. PICK f : f = [u.tmr EXCEPT !["awaitAck"] = Off]
  OBVIOUS
<1>2. \/ v = [u EXCEPT !.tmr = f]
      \/ v = [u EXCEPT !.tmr = f, !.state = "AwaitACK"]
  BY <1>1 DEF Stopped
<1>3. /\ v.queue = u.queue /\ v.sequenceNumber = u.sequenceNumber /\ v.seen = u.seen
      /\ v.timeToSend = u.timeToSend
  BY <1>2 DEF NodeState
<1>4. v.state = u.state \/ v.state = "AwaitACK"
  BY <1>2 DEF NodeState
<1> QED  BY <1>3, <1>4 DEF Keeps, Await

LEMMA EndedAwaitPassive ==
  ASSUME NEW n \in Node, NEW s, Good(s), s.state \in Await, NEW r, NEW u, Fewer(s, r, u),
         NEW v \in Stopped(u), NEW t \in endAwaitACK(v)
  PROVE  Passive(n, s, t) /\ NoInput(t) = t
<1>1. Less(s, r, u) /\ u \in NodeState /\ u.state \in Await /\ u.timeToSend = s.timeToSend /\ Keeps(s, u)
  BY DEF Fewer, Less, Keeps
<1>2. Awaiting(v)
  BY <1>1, AwaitStopped DEF Await
<1>3. Keeps(s, v) /\ v.timeToSend = s.timeToSend /\ v.state \in Await
  BY <1>1, StoppedKeeps DEF Keeps
<1>4. t.input = None /\ NoInput(t) = t
  BY <1>2, EndAwaitGood
<1>5. /\ Onward(n, v, t) /\ t.seen = v.seen /\ (SlotRight(v) => SlotRight(t))
      /\ \/ Settled(t)
         \/ t.state = "AwaitACKReceive" /\ t.queue = v.queue /\ t.tmr = v.tmr
  BY <1>2, EndAwaitSender
<1>6. Onward(n, s, t)
  BY <1>3, <1>5 DEF Onward, Counted, Later, Sent, Keeps
<1>7. SlotRight(s) => SlotRight(t)
  BY <1>3, <1>5 DEF SlotRight
<1>8. t.seen = s.seen
  BY <1>3, <1>5 DEF Keeps
<1>9. CASE Settled(t)
  <2>1. s.state # "Send"
    BY DEF Await
  <2>2. SenderStep(n, s, t)
    BY <1>6, <1>7, <1>9, <2>1, SettledSender
  <2>3. t.tmr["sendAck"] = Off
    BY <1>9 DEF Settled, Timer
  <2> QED  BY <1>4, <1>8, <2>2, <2>3 DEF Passive
<1>10. CASE t.state = "AwaitACKReceive" /\ t.queue = v.queue /\ t.tmr = v.tmr
  <2>1. t.queue = s.queue
    BY <1>3, <1>10 DEF Keeps
  <2>2. SenderStep(n, s, t)
    BY <1>6, <1>7, <1>10, <2>1 DEF SenderStep, Await
  <2>3. t.tmr["sendAck"] = Off
    BY <1>2, <1>10 DEF Awaiting, Timer
  <2> QED  BY <1>4, <1>8, <2>2, <2>3 DEF Passive
<1> QED  BY <1>5, <1>9, <1>10

LEMMA FinishedDrops ==
  ASSUME NEW s, Good(s), s.state \in Await, NEW u, Less(s, 0, u), NEW t, t = Finished(u)
  PROVE  /\ t.queue = IF u.queue = <<>> THEN <<>> ELSE Tail(u.queue)
         /\ t.sequenceNumber = u.sequenceNumber /\ t.seen = u.seen /\ SlotRight(t)
<1>1. PICK v : v = [u EXCEPT !.tmr["awaitAck"] = Off]
  OBVIOUS
<1>2. v \in Stopped(u)
  BY <1>1 DEF Stopped
<1>3. Awaiting(v)
  BY <1>2, AwaitStopped DEF Await
<1>4. v \in NodeState /\ v.queue # <<>> /\ v.ok
  BY <1>3 DEF Awaiting
<1>5. Asserted(v, v.queue # <<>>) = v
  BY <1>4 DEF Asserted, NodeState
<1>6. PICK p : p = prepareNextFrame(v)
  OBVIOUS
<1>7. /\ p \in NodeState /\ p.queue = IF v.queue = <<>> THEN <<>> ELSE Tail(v.queue)
      /\ p.sequenceNumber = v.sequenceNumber /\ p.seen = v.seen /\ SlotRight(p)
  BY <1>4, <1>6, PrepareDrops
<1>8. t = [p EXCEPT !.ackReceived = TRUE]
  BY <1>1, <1>5, <1>6 DEF Finished, finishFrameTx
<1>9. /\ t.queue = p.queue /\ t.sequenceNumber = p.sequenceNumber /\ t.seen = p.seen
      /\ t.timeToSend = p.timeToSend
  BY <1>7, <1>8 DEF NodeState
<1>10. Keeps(u, v)
  <2>1. u \in NodeState /\ u.state \in Await
    BY DEF Less
  <2> QED  BY <1>2, <2>1, StoppedKeeps
<1> QED  BY <1>7, <1>9, <1>10 DEF SlotRight, Keeps

LEMMA FinishedPassive ==
  ASSUME NEW n, NEW s, Good(s), s.state \in Await, NEW u, Fewer(s, 0, u),
         NEW t \in chkOutputBuffer(Finished(u))
  PROVE  Passive(n, s, NoInput(t))
<1>1. PICK w : w = Finished(u)
  OBVIOUS
<1>2. Less(s, 0, u) /\ Keeps(s, u) /\ s \in NodeState
  BY DEF Fewer, Less, Keeps, Good
<1>3. /\ w.queue = IF u.queue = <<>> THEN <<>> ELSE Tail(u.queue)
      /\ w.sequenceNumber = u.sequenceNumber /\ w.seen = u.seen /\ SlotRight(w)
  BY <1>1, <1>2, FinishedDrops
<1>4. Quiet(w)
  BY <1>1, <1>2, FinishedQuiet DEF Await
<1>5. Resumes(w, t)
  BY <1>1, <1>4, ChkOutputResumes
<1>6. /\ t \in NodeState /\ Settled(t) /\ SlotRight(t) /\ t.seen = s.seen
      /\ t.queue = IF s.queue = <<>> THEN <<>> ELSE Tail(s.queue)
      /\ t.sequenceNumber = s.sequenceNumber
  BY <1>2, <1>3, <1>5 DEF Resumes, Keeps, Settled
<1>7. Onward(n, s, t)
  BY <1>2, <1>6, DropOnward
<1> QED  BY <1>6, <1>7, SettledPassive DEF Await

LEMMA AwaitedPassive ==
  ASSUME NEW n \in Node, NEW s, Good(s), s.state = "AwaitACKReceive", NEW r \in Nat, NEW u,
         Fewer(s, r, u), s.rx > 0 => r = s.rx - 1, NEW whole \in BOOLEAN, whole => u.input # None,
         NEW mine \in BOOLEAN, mine => whole, NEW awaiting,
         NEW t \in IF mine THEN chkOutputBuffer(Finished(u))
                   ELSE IF whole /\ u.ackReceived THEN chkOutputBuffer(u)
                   ELSE IF (whole /\ awaiting) \/ (u.input = None /\ ~awaiting /\ u.rx = 0)
                   THEN endAwaitACK([u EXCEPT !.tmr["awaitAck"] = Off, !.state = "AwaitACK"])
                   ELSE {u}
  PROVE  Passive(n, s, NoInput(t))
<1>0. s.state \in Await
  BY DEF Await
<1>1. CASE mine
  <2>1. s.rx = 1 /\ r = 0
    BY <1>1, WholeAlone DEF Less, Fewer
  <2>2. Fewer(s, 0, u) /\ t \in chkOutputBuffer(Finished(u))
    BY <1>1, <2>1
  <2> QED  BY <1>0, <2>2, FinishedPassive
<1>2. CASE ~ mine
  <2>1. ~ u.ackReceived
    BY DEF Fewer, Less, Good, QueueRight
  <2>2. CASE (whole /\ awaiting) \/ (u.input = None /\ ~awaiting /\ u.rx = 0)
    <3>1. PICK v : v = [u EXCEPT !.tmr["awaitAck"] = Off, !.state = "AwaitACK"]
      OBVIOUS
    <3>2. t \in endAwaitACK(v)
      BY <1>2, <2>1, <2>2, <3>1
    <3>3. v \in Stopped(u)
      BY <3>1 DEF Stopped
    <3> QED  BY <1>0, <3>2, <3>3, EndedAwaitPassive
  <2>3. CASE ~ ((whole /\ awaiting) \/ (u.input = None /\ ~awaiting /\ u.rx = 0))
    <3>1. t = u
      BY <1>2, <2>1, <2>3
    <3> QED  BY <3>1, FewerPassive
  <2> QED  BY <2>2, <2>3
<1> QED  BY <1>1, <1>2

LEMMA TimeoutPassive ==
  ASSUME NEW n \in Node, NEW s, Good(s), s.tmr["awaitAck"] = 0,
         NEW t \in endAwaitACK([s EXCEPT !.tmr["awaitAck"] = Off])
  PROVE  Passive(n, s, t)
<1>1. s \in NodeState /\ s.state \in Await
  BY DEF Good, TimersRight, Off, Await
<1>2. Fewer(s, s.rx, s)
  BY <1>1 DEF Less, Fewer
<1>3. PICK v : v = [s EXCEPT !.tmr["awaitAck"] = Off]
  OBVIOUS
<1>4. v \in Stopped(s)
  BY <1>3 DEF Stopped
<1> QED  BY <1>1, <1>2, <1>3, <1>4, EndedAwaitPassive

\* The upper layer sends a frame.
LEMMA UpperPassive ==
  ASSUME NEW n \in Node, NEW s, Good(s), NEW f \in Frame, f.seq = s.sequenceNumber, f.addr2 = n,
         n \in MS => f.addr1 = AP, NEW w, w = insertFrame(incrementSequenceNumber(s), f), Good(w),
         NEW t \in IF w.state = "Idle" THEN chkOutputBuffer(w) ELSE {w}
  PROVE  Passive(n, s, t)
<1>1. s \in NodeState /\ s.queue \in Seq(Frame) /\ s.sequenceNumber \in Nat
  BY Fields DEF Good
<1>2. PICK c : c = (s.sequenceNumber + 1) % 4096
  OBVIOUS
<1>3. PICK p : p = IF Len(s.queue) <= maxQueueSize THEN Append(s.queue, f)
                   ELSE <<Head(s.queue)>> \o Append(SubSeq(s.queue, 3, Len(s.queue)), f)
  OBVIOUS
<1>4. Lengthened(s.queue, f, p)
  <2>1. ASSUME NEW q \in Seq(Frame), q = s.queue  PROVE Lengthened(q, f, p)
    BY <1>3, <2>1, InsertQueue
  <2> QED  BY <1>1, <2>1
<1>5. PICK i : i = [s EXCEPT !.sequenceNumber = c]
  OBVIOUS
<1>6. i = incrementSequenceNumber(s)
  BY <1>2, <1>5 DEF incrementSequenceNumber
<1>7. i.queue = s.queue
  BY <1>1, <1>5 DEF NodeState
<1>8. w = [i EXCEPT !.queue = p]
  BY <1>3, <1>6, <1>7 DEF insertFrame
<1>9. w = [s EXCEPT !.sequenceNumber = c, !.queue = p]
  BY <1>5, <1>8
<1>10. /\ w.queue = p /\ w.sequenceNumber = c /\ w.seen = s.seen /\ w.timeToSend = s.timeToSend
       /\ w.tmr = s.tmr /\ w.state = s.state /\ w.input = s.input /\ w.source = s.source
       /\ w.ackTo = s.ackTo /\ w.idleDest = s.idleDest /\ w \in NodeState
  BY <1>1, <1>9 DEF NodeState, Good
<1>11. \A z \in NodeState : z.queue = w.queue /\ z.sequenceNumber = w.sequenceNumber
                            /\ (Sent(s, z) => z.state \in Await) => Onward(n, s, z)
  BY <1>1, <1>2, <1>4, <1>10, InsertOnward
<1>12. CASE w.state = "Idle"
  <2>1. Quiet(w) /\ w.input = None
    BY <1>12, QuietWhenIdle
  <2>2. t \in chkOutputBuffer(w)
    BY <1>12
  <2>3. Resumes(w, t) /\ t.input = None
    BY <2>1, <2>2, ChkOutputResumes
  <2>4. t \in NodeState /\ Settled(t) /\ Keeps(w, t) /\ (SlotRight(w) => SlotRight(t))
    BY <2>3 DEF Resumes, Settled
  <2>5. ~ Sent(s, t)
    BY <1>10, <1>12 DEF Sent, Await
  <2>6. Onward(n, s, t)
    BY <1>11, <2>4, <2>5 DEF Keeps
  <2>7. NoInput(t) = t
    BY <2>3, <2>4 DEF NoInput, NodeState
  <2>8. (SlotRight(s) => SlotRight(t)) /\ t.seen = s.seen
    BY <1>10, <2>4 DEF SlotRight, Keeps
  <2> QED  BY <1>10, <1>12, <2>4, <2>6, <2>7, <2>8, SettledPassive
<1>13. CASE w.state # "Idle"
  <2>1. t = w
    BY <1>13
  <2>2. Onward(n, s, t)
    <3>1. Sent(s, t) => t.state \in Await
      BY <1>10, <2>1 DEF Sent
    <3> QED  BY <1>10, <1>11, <2>1, <3>1
  <2>3. s.queue # <<>> => t.queue[1] = s.queue[1]
    BY <1>4, <1>10, <2>1 DEF Lengthened
  <2>4. SenderStep(n, s, t)
    BY <1>10, <2>1, <2>2, <2>3, SameSender DEF SlotRight
  <2> QED  BY <1>10, <2>1, <2>4 DEF Passive
<1> QED  BY <1>12, <1>13

-----------------------------------------------------------------------------
\* A frame or an acknowledgement goes out.

Readied(s, d, t) ==
  t = [[[s EXCEPT !.tmr["backoff"] = Off] EXCEPT !.state = "Send", !.tmr["endSendData"] = DATATIME]
         EXCEPT !.idleDest = d]

LEMMA ReadyPassive ==
  ASSUME NEW n, NEW s, Good(s), s.tmr["backoff"] = 0, NEW d \in SUBSET Node, NEW t, Good(t), Readied(s, d, t)
  PROVE  Passive(n, s, t) /\ t.state = "Send" /\ t.queue = s.queue /\ t.idleDest = d
<1>1. s \in NodeState /\ t \in NodeState /\ s.state = "Backoff"
  BY DEF Good, TimersRight, Off
<1>2. PICK g : g = [[s.tmr EXCEPT !["backoff"] = Off] EXCEPT !["endSendData"] = DATATIME]
  OBVIOUS
<1>3. t = [s EXCEPT !.tmr = g, !.state = "Send", !.idleDest = d]
  <2>1. PICK f, e : f = [s.tmr EXCEPT !["backoff"] = Off] /\ e = [s EXCEPT !.tmr = f]
    OBVIOUS
  <2>2. t = [[e EXCEPT !.state = "Send", !.tmr["endSendData"] = DATATIME] EXCEPT !.idleDest = d]
    BY <2>1 DEF Readied
  <2>3. e.tmr = f
    BY <1>1, <2>1 DEF NodeState
  <2>4. t = [e EXCEPT !.state = "Send", !.tmr = g, !.idleDest = d]
    BY <1>2, <2>1, <2>2, <2>3
  <2> QED  BY <1>1, <2>1, <2>4
<1>4. /\ t.queue = s.queue /\ t.sequenceNumber = s.sequenceNumber /\ t.seen = s.seen
      /\ t.timeToSend = s.timeToSend /\ t.state = "Send" /\ t.idleDest = d
  BY <1>1, <1>3 DEF NodeState
<1>5. t.input = None /\ t.tmr["sendAck"] = Off
  BY <1>4 DEF Good, TimersRight, SensesRight
<1>6. Onward(n, s, t)
  BY <1>1, <1>4, StayOnward DEF Sent, Await
<1>7. SenderStep(n, s, t)
  BY <1>1, <1>4, <1>6 DEF SenderStep, SlotRight, Await
<1> QED  BY <1>4, <1>5, <1>7 DEF Passive

LEMMA SendAckPassive ==
  ASSUME NEW n, NEW s, Good(s), s.tmr["sendAck"] = 0, NEW d \in SUBSET Node, NEW e,
         e = [s EXCEPT !.tmr["sendAck"] = Off], NEW t, Good(t),
         t = [[e EXCEPT !.tmr["endSendAck"] = ACKTIME, !.ackTo = None] EXCEPT !.idleDest = d]
  PROVE  Passive(n, s, t) /\ t.tmr["sendAck"] = Off /\ t.state \notin {"Send"} /\ e.ackTo = s.ackTo
<1>1. s \in NodeState /\ t \in NodeState /\ s.state \in {"Receive", "BackoffReceive"} /\ s.input = None
  BY DEF Good, TimersRight, Off
<1>2. PICK g : g = [[s.tmr EXCEPT !["sendAck"] = Off] EXCEPT !["endSendAck"] = ACKTIME]
  OBVIOUS
<1>3. e.tmr = [s.tmr EXCEPT !["sendAck"] = Off] /\ e.ackTo = s.ackTo
  BY <1>1 DEF NodeState
<1>4. t = [e EXCEPT !.tmr = g, !.ackTo = None, !.idleDest = d]
  BY <1>2, <1>3
<1>5. t = [s EXCEPT !.tmr = g, !.ackTo = None, !.idleDest = d]
  BY <1>1, <1>4
<1>6. /\ t.queue = s.queue /\ t.sequenceNumber = s.sequenceNumber /\ t.seen = s.seen
      /\ t.timeToSend = s.timeToSend /\ t.state = s.state /\ t.tmr = g /\ t.input = s.input
  BY <1>1, <1>5 DEF NodeState
<1>7. g["sendAck"] = Off
  BY <1>1, <1>2, Fields DEF Timer
<1>8. Onward(n, s, t)
  BY <1>1, <1>6, StayOnward DEF Sent
<1>9. SenderStep(n, s, t)
  BY <1>1, <1>6, <1>8, SameSender DEF SlotRight
<1> QED  BY <1>1, <1>3, <1>6, <1>7, <1>9 DEF Passive

-----------------------------------------------------------------------------
\* What was sent ends.

LEMMA EndedKeeps ==
  ASSUME NEW s, Good(s), NEW x \in {"endSendData", "endSendAck"}, NEW u,
         u = [[s EXCEPT !.tmr[x] = Off] EXCEPT !.idleDest = {}]
  PROVE  Keeps(s, u) /\ u.timeToSend = s.timeToSend
<1>1. s \in NodeState
  BY DEF Good
<1>2. PICK f : f = [s.tmr EXCEPT ![x] = Off]
  OBVIOUS
<1>3. u = [s EXCEPT !.tmr = f, !.idleDest = {}]
  BY <1>2
<1> QED  BY <1>1, <1>3 DEF NodeState, Keeps

LEMMA BroadcastPassive ==
  ASSUME NEW n, NEW s, Good(s), s.state = "Send", s.tmr["endSendData"] = 0,
         s.queue[1].addr1 = Broadcast, s.queue # <<>>, NEW u, EndedState(s, u), Keeps(s, u),
         u.timeToSend = s.timeToSend, NEW t \in handleSendingBcastFrame(u)
  PROVE  Passive(n, s, t)
<1>1. u \in NodeState /\ u.rx \in Nat /\ u.retry = 0 /\ s \in NodeState
  <2>1. u \in NodeState /\ u.retry \in Nat /\ u.rx \in Nat /\ s \in NodeState
    BY Fields, ParamAssumption DEF EndedState, Good
  <2>2. ~ (u.retry > 0)
    BY DEF EndedState, Good, QueueRight
  <2> QED  BY <2>1, <2>2
<1>2. Asserted(u, u.retry = 0) = u
  BY <1>1 DEF Asserted, NodeState, EndedState
<1>3. PICK p : p = prepareNextFrame(u)
  OBVIOUS
<1>4. /\ p \in NodeState /\ p.queue = IF u.queue = <<>> THEN <<>> ELSE Tail(u.queue)
      /\ p.sequenceNumber = u.sequenceNumber /\ p.seen = u.seen /\ SlotRight(p)
      /\ p.input = u.input /\ p.rx = u.rx /\ p.tmr = u.tmr /\ p.idleDest = u.idleDest
  BY <1>1, <1>3, PrepareDrops
<1>5. /\ p.queue = IF s.queue = <<>> THEN <<>> ELSE Tail(s.queue)
      /\ p.sequenceNumber = s.sequenceNumber /\ p.seen = s.seen /\ p.input = None
      /\ p.tmr["sendAck"] = Off
  BY <1>4 DEF Keeps, EndedState, Timer
<1>6. CASE p.rx > 0
  <2>1. t = [p EXCEPT !.state = "Receive"]
    BY <1>2, <1>3, <1>6 DEF handleSendingBcastFrame
  <2>2. "Receive" \in State
    BY DEF State
  <2>3. /\ t \in NodeState /\ t.state = "Receive" /\ t.queue = p.queue /\ t.seen = p.seen
        /\ t.sequenceNumber = p.sequenceNumber /\ t.timeToSend = p.timeToSend
        /\ t.input = p.input /\ t.tmr = p.tmr
    BY <1>4, <2>1, <2>2 DEF NodeState
  <2>4. Onward(n, s, t)
    BY <1>1, <1>5, <2>3, DropOnward
  <2>5. SenderStep(n, s, t)
    BY <1>4, <2>3, <2>4 DEF SenderStep, SlotRight, Await
  <2> QED  BY <1>5, <2>3, <2>5 DEF Passive
<1>7. CASE ~ (p.rx > 0)
  <2>1. u.rx = 0
    BY <1>1, <1>4, <1>7
  <2>2. t \in chkOutputBuffer(p)
    BY <1>2, <1>3, <1>7 DEF handleSendingBcastFrame
  <2>3. Quiet(p)
    BY <1>1, <1>3, <2>1, PrepareQuiet DEF EndedState
  <2>4. Resumes(p, t) /\ t.input = None
    BY <1>5, <2>2, <2>3, ChkOutputResumes
  <2>5. t \in NodeState /\ Settled(t) /\ SlotRight(t) /\ Keeps(p, t)
    BY <1>4, <2>4 DEF Resumes, Settled
  <2>6. NoInput(t) = t
    BY <2>4, <2>5 DEF NoInput, NodeState
  <2>7. Onward(n, s, t)
    BY <1>1, <1>5, <2>5, DropOnward DEF Keeps
  <2>8. t.seen = s.seen
    BY <1>5, <2>5 DEF Keeps
  <2> QED  BY <2>5, <2>6, <2>7, <2>8, SettledPassive
<1> QED  BY <1>6, <1>7

LEMMA AwaitAckPassive ==
  ASSUME NEW n, NEW s, Good(s), s.state = "Send", s.tmr["endSendData"] = 0, NEW u,
         EndedState(s, u), Keeps(s, u), u.timeToSend = s.timeToSend, NEW t, t = AwaitAck(u), Good(t)
  PROVE  Passive(n, s, t)
<1>1. u \in NodeState /\ s \in NodeState /\ t \in NodeState
  BY DEF EndedState, Good
<1>2. PICK b, g : b = FALSE /\ g = [u.tmr EXCEPT !["awaitAck"] = AwaitTime]
  OBVIOUS
<1>3. PICK w : w = [u EXCEPT !.ackReceived = b]
  OBVIOUS
<1>4. w \in NodeState /\ w.rx = u.rx /\ w.tmr = u.tmr
  BY <1>1, <1>2, <1>3 DEF NodeState
<1>5. \/ t = [w EXCEPT !.state = "AwaitACKReceive"]
      \/ t = [w EXCEPT !.state = "AwaitACK", !.tmr = g]
  BY <1>2, <1>3, <1>4 DEF AwaitAck
<1>6. \/ t = [u EXCEPT !.ackReceived = b, !.state = "AwaitACKReceive"]
      \/ t = [u EXCEPT !.ackReceived = b, !.state = "AwaitACK", !.tmr = g]
  BY <1>3, <1>5
<1>7. /\ t.queue = u.queue /\ t.sequenceNumber = u.sequenceNumber /\ t.seen = u.seen
      /\ t.timeToSend = u.timeToSend /\ t.input = u.input /\ t.state \in Await
  BY <1>1, <1>6 DEF NodeState, Await
<1>8. t.input = None /\ t.tmr["sendAck"] = Off
  BY <1>7 DEF EndedState, Good, TimersRight, Await
<1>9. Onward(n, s, t)
  BY <1>1, <1>7, StayOnward DEF Keeps
<1>10. SenderStep(n, s, t)
  BY <1>7, <1>9 DEF SenderStep, SlotRight, Await, Keeps
<1> QED  BY <1>7, <1>8, <1>10 DEF Passive, Keeps

LEMMA EndAckPassive ==
  ASSUME NEW n, NEW s, Good(s), s.tmr["endSendAck"] = 0, NEW u, EndedState(s, u), Keeps(s, u),
         u.timeToSend = s.timeToSend, NEW t \in IF u.rx = 0 THEN changeNextState(u) ELSE {u}
  PROVE  Passive(n, s, t)
<1>1. /\ s.state \in {"Receive", "BackoffReceive"} /\ (s.state = "BackoffReceive" => s.queue # <<>>)
      /\ s \in NodeState
  BY DEF Good, TimersRight, QueueRight, Off
<1>2. s.state \notin Await \cup {"Send"}
  BY <1>1 DEF Await
<1>3. CASE u.rx = 0
  <2>1. Quiet(u)
    BY <1>3 DEF EndedState, Quiet, Good, QueueRight
  <2>2. Resumes(u, t) /\ t.input = None
    BY <1>1, <1>3, <2>1, NextStateResumes DEF EndedState
  <2>3. NoInput(t) = t
    BY <2>2 DEF NoInput, NodeState, Resumes, Settled
  <2>4. SlotRight(s) => SlotRight(u)
    BY DEF SlotRight
  <2> QED  BY <1>1, <1>2, <2>2, <2>3, <2>4, ResumePassive
<1>4. CASE u.rx # 0
  <2>1. t = u
    BY <1>4
  <2>2. u.input = None /\ u.tmr["sendAck"] = Off /\ u.state = s.state /\ u \in NodeState
    BY DEF EndedState, Timer
  <2>3. Onward(n, s, u)
    BY <1>1, <2>2, StayOnward DEF Keeps, Sent
  <2>4. SenderStep(n, s, u)
    BY <1>1, <2>2, <2>3, SameSender DEF SlotRight, Keeps
  <2> QED  BY <2>1, <2>2, <2>4 DEF Passive, Keeps
<1> QED  BY <1>3, <1>4

-----------------------------------------------------------------------------
\* What a step, other than the passing of time, does to the frames that are sent, noted and
\* acknowledged.

\* The node has received a frame whole, and its end has arrived.
Taken(n) ==
  /\ node[n].input # None /\ node[n].input.type = "DATA"
  /\ Signal(node[n].source, n, None) \in wire

InFlight(x, m, f) == node[x].state = "Send" /\ m \in node[x].idleDest /\ f = node[x].queue[1]

\* Whoever ends a frame tells those that heard it start; whoever is told takes nothing in any
\* more; and what begins to be sent is the first frame or the acknowledgement that was due.
AirFlow ==
  /\ \A x \in Node : node[x].state = "Send" /\ node'[x].state # "Send" =>
       \A m \in node[x].idleDest : Signal(x, m, None) \in wire'
  /\ \A sig \in wire \ wire' : sig.frame = None => node'[sig.to].input = None
  /\ \A sig \in wire' \ wire :
       \/ sig.frame = None
       \/ /\ sig.frame.type = "DATA" /\ node'[sig.from].state = "Send"
          /\ sig.to \in node'[sig.from].idleDest /\ sig.frame = node'[sig.from].queue[1]
       \/ /\ sig.frame.type = "ACK" /\ node[sig.from].tmr["sendAck"] = 0
          /\ sig.frame.addr1 = node[sig.from].ackTo

InputFlow(m) ==
  node'[m].input # None =>
    \/ node'[m].input = node[m].input /\ node'[m].source = node[m].source
    \/ \E sig \in wire :
         /\ sig.to = m /\ sig.frame # None /\ node'[m].input = sig.frame /\ node'[m].source = sig.from
         /\ node[m].state \in {"Idle", "AwaitACK", "Backoff"}

AckFlow(m) ==
  node'[m].tmr["sendAck"] # Off =>
    \/ node'[m].tmr["sendAck"] = node[m].tmr["sendAck"] /\ node'[m].ackTo = node[m].ackTo
    \/ /\ Taken(m) /\ node'[m].tmr["sendAck"] = SIFS /\ node'[m].ackTo = node[m].input.addr2
       /\ m \in MS => node[m].input.addr1 = m
       /\ node'[m].seen[node[m].input.addr2] = node[m].input.seq

SeenFlow(m) ==
  \/ got'[m] = got[m] /\ node'[m].seen = node[m].seen
  \/ /\ Taken(m) /\ node'[m].input = None /\ node[m].input.addr2 \in Node
     /\ node[m].seen[node[m].input.addr2] # node[m].input.seq \/ ~ node[m].input.retry
     /\ node'[m].seen = [node[m].seen EXCEPT ![node[m].input.addr2] = node[m].input.seq]
     /\ got'[m] = [got[m] EXCEPT ![node[m].input.addr2] = Append(@, node[m].input.seq)]

AckedFlow ==
  \/ acked' = acked
  \/ \E m \in Node :
       /\ node[m].state = "AwaitACKReceive" /\ node[m].input # None
       /\ node[m].input.type = "ACK" /\ node[m].input.addr1 = m
       /\ acked' \subseteq acked \cup {node[m].queue[1]}

Flow ==
  /\ \A m \in Node : /\ SenderStep(m, node[m], node'[m]) /\ InputFlow(m) /\ AckFlow(m) /\ SeenFlow(m)
                     /\ node'[m] \in NodeState
  /\ AirFlow /\ AckedFlow /\ got' \in [Node -> [Node -> Seq(Nat)]]

LEMMA NoSenderStep ==
  ASSUME NEW n, NEW s, Good(s)
  PROVE  SenderStep(n, s, s)
<1>1. s \in NodeState
  BY DEF Good
<1>2. Onward(n, s, s)
  BY <1>1, StayOnward DEF Sent
<1> QED  BY <1>2, SameSender

\* Nothing happens at a node.
LEMMA OtherFlows ==
  ASSUME NodesInv, NEW m \in Node, node'[m] = node[m], got'[m] = got[m]
  PROVE  /\ SenderStep(m, node[m], node'[m]) /\ InputFlow(m) /\ AckFlow(m) /\ SeenFlow(m)
         /\ node'[m] \in NodeState
<1>1. Good(node[m]) /\ node[m] \in NodeState
  BY AtNode
<1>2. SenderStep(m, node[m], node'[m])
  BY <1>1, NoSenderStep
<1> QED  BY <1>1, <1>2 DEF InputFlow, AckFlow, SeenFlow

LEMMA PassiveFlows ==
  ASSUME NodesInv, NEW n \in Node, NEW t \in NodeState, Passive(n, node[n], t),
         node' = [node EXCEPT ![n] = t], got' = got, AirFlow, AckedFlow,
         got \in [Node -> [Node -> Seq(Nat)]]
  PROVE  Flow
<1>1. node'[n] = t /\ \A m \in Node \ {n} : node'[m] = node[m]
  BY DEF NodesInv
<1>2. SenderStep(n, node[n], node'[n]) /\ InputFlow(n) /\ AckFlow(n) /\ SeenFlow(n)
  BY <1>1 DEF Passive, InputFlow, AckFlow, SeenFlow
<1>3. ASSUME NEW m \in Node \ {n}
      PROVE  /\ SenderStep(m, node[m], node'[m]) /\ InputFlow(m) /\ AckFlow(m) /\ SeenFlow(m)
             /\ node'[m] \in NodeState
  BY <1>1, OtherFlows
<1> QED  BY <1>1, <1>2, <1>3 DEF Flow

LEMMA BeginsFlows ==
  ASSUME NodesInv, NEW n \in Node, NEW t \in NodeState, NEW sig \in wire, sig.to = n,
         sig.frame # None, Begins(n, node[n], t, sig), node' = [node EXCEPT ![n] = t], got' = got,
         AirFlow, AckedFlow, got \in [Node -> [Node -> Seq(Nat)]]
  PROVE  Flow
<1>1. node'[n] = t /\ \A m \in Node \ {n} : node'[m] = node[m]
  BY DEF NodesInv
<1>2. SenderStep(n, node[n], node'[n]) /\ InputFlow(n) /\ AckFlow(n) /\ SeenFlow(n)
  BY <1>1 DEF Begins, InputFlow, AckFlow, SeenFlow
<1>3. ASSUME NEW m \in Node \ {n}
      PROVE  /\ SenderStep(m, node[m], node'[m]) /\ InputFlow(m) /\ AckFlow(m) /\ SeenFlow(m)
             /\ node'[m] \in NodeState
  BY <1>1, OtherFlows
<1> QED  BY <1>1, <1>2, <1>3 DEF Flow

\* A signal arrives.
LEMMA ArrivalAir ==
  ASSUME NodesInv, NEW sig \in wire, NEW t, node' = [node EXCEPT ![sig.to] = t],
         wire' = wire \ {sig}, sig.frame = None => t.input = None,
         node[sig.to].state = "Send" => t.state = "Send"
  PROVE  AirFlow
<1>1. sig.to \in Node
  BY OnWire
<1>2. node'[sig.to] = t /\ \A m \in Node \ {sig.to} : node'[m] = node[m]
  BY <1>1 DEF NodesInv
<1> QED  BY <1>2 DEF AirFlow

LEMMA AloneAir ==
  ASSUME NodesInv, NEW n \in Node, NEW t, node' = [node EXCEPT ![n] = t], wire' = wire,
         node[n].state = "Send" => t.state = "Send"
  PROVE  AirFlow
<1>1. node'[n] = t /\ \A m \in Node \ {n} : node'[m] = node[m]
  BY DEF NodesInv
<1> QED  BY <1>1 DEF AirFlow

-----------------------------------------------------------------------------
\* The start of a frame.

Counts == got \in [Node -> [Node -> Seq(Nat)]]

LEMMA StartFlows ==
  ASSUME NodesInv, Counts, NEW sig \in wire,
         IdleData(sig) \/ AwaitACKData(sig) \/ BackoffData(sig) \/ SendData(sig) \/ Collision(sig)
  PROVE  Flow
<1> DEFINE n == sig.to
           s == node[n]
           h == [s EXCEPT !.rx = @ + 1]
<1>1. Good(s) /\ s \in NodeState /\ s.rx \in Nat /\ sig \in Sig /\ n \in Node /\ sig.from \in Node
  BY AtNode, OnWire, Fields
<1>2. Heard(n) = h
  BY DEF Heard
<1>3. sig.frame # None
  BY DEF IdleData, AwaitACKData, BackoffData, SendData, Collision, Data
<1>4. ASSUME NEW t \in NodeState, s.state = "Send" => t.state = "Send", processData(sig, t),
             Passive(n, s, t) \/ Begins(n, s, t, sig)
      PROVE  Flow
  <2>1. node' = [node EXCEPT ![n] = t] /\ wire' = wire \ {sig} /\ got' = got /\ acked' = acked
    BY <1>4 DEF processData, Becomes
  <2>2. AirFlow /\ AckedFlow
    BY <1>3, <1>4, <2>1, ArrivalAir DEF AckedFlow
  <2> QED  BY <1>1, <1>3, <1>4, <2>1, <2>2, PassiveFlows, BeginsFlows DEF Counts
<1> HIDE DEF h
<1>5. CASE IdleData(sig)
  <2>1. s.state = "Idle" /\ processData(sig, TakeIn(h, sig, "Receive"))
    BY <1>2, <1>5 DEF IdleData, Data, Arrives
  <2>2. Turns(s, s.rx + 1, TakeIn(h, sig, "Receive"))
    BY <1>1, <1>3, <2>1, TakeInGood DEF h
  <2>3. Begins(n, s, TakeIn(h, sig, "Receive"), sig)
    BY <1>1, <1>3, <2>1, TakeInBegins DEF h
  <2> QED  BY <1>4, <2>1, <2>2, <2>3 DEF Turns, Good
<1>6. CASE AwaitACKData(sig)
  <2>1. s.state = "AwaitACK" /\ processData(sig, TakeIn(h, sig, "AwaitACKReceive"))
    BY <1>2, <1>6 DEF AwaitACKData, Data, Arrives
  <2>2. Turns(s, s.rx + 1, TakeIn(h, sig, "AwaitACKReceive"))
    BY <1>1, <1>3, <2>1, TakeInGood DEF h
  <2>3. Begins(n, s, TakeIn(h, sig, "AwaitACKReceive"), sig)
    BY <1>1, <1>3, <2>1, TakeInBegins DEF h
  <2> QED  BY <1>4, <2>1, <2>2, <2>3 DEF Turns, Good
<1>7. CASE BackoffData(sig)
  <2>1. s.state = "Backoff" /\ s.tmr["backoff"] # Off
    BY <1>1, <1>7 DEF BackoffData, Data, Arrives, Good, TimersRight
  <2>2. h.tmr = s.tmr
    BY <1>1 DEF h, NodeState
  <2>3. CASE s.tmr["backoff"] < RXTXTURNAROUND
    <3>1. processData(sig, [h EXCEPT !.source = sig.from])
      BY <1>2, <1>7, <2>1, <2>2, <2>3 DEF BackoffData
    <3>2. Turns(s, s.rx + 1, [h EXCEPT !.source = sig.from])
      BY <1>1, <2>1, <2>3, LateGood DEF h
    <3>a. PICK r \in Nat : r = s.rx + 1
      BY <1>1
    <3>3. PICK t : t = [h EXCEPT !.source = sig.from]
      OBVIOUS
    <3>4. t = [s EXCEPT !.rx = r, !.source = sig.from]
      BY <3>3, <3>a DEF h
    <3>5. s.input = None
      BY <1>1, <2>1 DEF Good, SensesRight
    <3>6. Passive(n, s, t)
      BY <1>1, <3>4, <3>5, HeardPassive
    <3>7. processData(sig, t) /\ t \in NodeState
      BY <3>1, <3>2, <3>3 DEF Turns, Good
    <3> QED  BY <1>4, <2>1, <3>6, <3>7
  <2>4. CASE ~ (s.tmr["backoff"] < RXTXTURNAROUND)
    <3>1. PICK t : t = TakeIn([contentionInterrupted(h) EXCEPT !.tmr["backoff"] = Off],
                              sig, "BackoffReceive")
      OBVIOUS
    <3>2. processData(sig, t)
      BY <1>2, <1>7, <2>1, <2>2, <2>4, <3>1 DEF BackoffData
    <3>3. Turns(s, s.rx + 1, t)
      BY <1>1, <1>3, <2>1, <2>4, <3>1, InterruptGood DEF h
    <3>4. Begins(n, s, t, sig)
      BY <1>1, <1>3, <2>1, <2>4, <3>1, InterruptBegins DEF h
    <3> QED  BY <1>4, <2>1, <3>2, <3>3, <3>4 DEF Turns, Good
  <2> QED  BY <2>3, <2>4
<1>8. CASE SendData(sig) \/ Collision(sig)
  <2>a. PICK r \in Nat : r = s.rx + 1
    BY <1>1
  <2>1. PICK t : t = [s EXCEPT !.rx = r, !.input = None]
    OBVIOUS
  <2>2. processData(sig, t)
    <3>1. CASE SendData(sig)
      <4>1. s.state = "Send" /\ processData(sig, h)
        BY <1>2, <3>1 DEF SendData, Data, Arrives
      <4>2. s.input = None
        BY <1>1, <4>1 DEF Good, SensesRight
      <4>3. h = t
        BY <1>1, <2>a, <2>1, <4>2 DEF h, NodeState
      <4> QED  BY <4>1, <4>3
    <3>2. CASE Collision(sig)
      <4>1. processData(sig, [h EXCEPT !.input = None])
        BY <1>2, <3>2 DEF Collision, Data, Arrives
      <4>2. [h EXCEPT !.input = None] = t
        BY <2>a, <2>1 DEF h
      <4> QED  BY <4>1, <4>2
    <3> QED  BY <1>8, <3>1, <3>2
  <2>3. t \in NodeState /\ t.state = s.state
    BY <1>1, <2>1 DEF NodeState
  <2>4. Passive(n, s, t)
    BY <1>1, <2>1, HeardPassive
  <2> QED  BY <1>4, <2>2, <2>3, <2>4
<1>9. CASE SendData(sig)
  BY <1>8, <1>9
<1>10. CASE Collision(sig)
  BY <1>8, <1>10
<1> QED  BY <1>5, <1>6, <1>7, <1>9, <1>10

-----------------------------------------------------------------------------
\* The end of a frame that the node was not taking in.

LEMMA OtherEndFlows ==
  ASSUME NodesInv, Counts, NEW sig \in wire, OtherIdle(sig) \/ ReceiveNothing(sig)
  PROVE  Flow
<1> DEFINE n == sig.to
           s == node[n]
           u == decNoOfRxFrames(s)
<1>1. Good(s) /\ s \in NodeState /\ n \in Node /\ sig.frame = None
  BY AtNode, OnWire DEF OtherIdle, ReceiveNothing, End
<1>2. PICK r \in Nat : Less(s, r, u)
  BY <1>1, EndBegins
<1>3. Fewer(s, r, u)
  BY <1>1, <1>2, DecFewer
<1>4. ASSUME NEW t \in NodeState, s.state = "Send" => t.state = "Send", t.input = None,
             processData(sig, t), Passive(n, s, t)
      PROVE  Flow
  <2>1. node' = [node EXCEPT ![n] = t] /\ wire' = wire \ {sig} /\ got' = got /\ acked' = acked
    BY <1>4 DEF processData, Becomes
  <2>2. AirFlow /\ AckedFlow
    BY <1>4, <2>1, ArrivalAir DEF AckedFlow
  <2> QED  BY <1>1, <1>4, <2>1, <2>2, PassiveFlows DEF Counts
<1> HIDE DEF u
<1>5. CASE OtherIdle(sig)
  <2>1. s.state \in {"Idle", "Backoff", "Send", "AwaitACK"} /\ processData(sig, u)
    BY <1>5 DEF OtherIdle, End, Arrives, u
  <2>2. s.input = None
    BY <1>1, <2>1 DEF Good, SensesRight
  <2>3. Passive(n, s, u)
    BY <1>1, <1>3, FewerPassive
  <2>4. u \in NodeState /\ u.state = s.state /\ u.input = None
    BY <1>2, <2>2 DEF Less
  <2> QED  BY <1>4, <2>1, <2>3, <2>4
<1>6. CASE ReceiveNothing(sig)
  <2>1. s.state \in {"Receive", "BackoffReceive"}
    BY <1>6 DEF ReceiveNothing, End, Arrives
  <2>2. PICK t \in IF u.input = None /\ u.rx = 0 /\ u.tmr["endSendAck"] = Off /\ u.tmr["sendAck"] = Off
                   THEN changeNextState(u) ELSE {NoInput(u)} : processData(sig, t)
    BY <1>6 DEF ReceiveNothing, u
  <2>3. Passive(n, s, t) /\ t.input = None
    BY <1>1, <1>3, <2>1, <2>2, NothingPassive
  <2>4. t \in NodeState
    <3>1. PICK k \in Nat : Less(s, k, u) /\ k <= s.rx
      BY <1>1, EndBegins DEF u
    <3>2. Turns(s, k, t)
      BY <1>1, <2>1, <2>2, <3>1, NothingGood
    <3> QED  BY <3>2 DEF Turns, Good
  <2> QED  BY <1>4, <2>1, <2>2, <2>3, <2>4
<1> QED  BY <1>5, <1>6

\* The end of the frame that the node has taken in.
LEMMA WholeFlows ==
  ASSUME NodesInv, NEW sig \in wire, NEW n, n = sig.to, NEW s, s = node[n],
         Whole(sig, decNoOfRxFrames(s))
  PROVE  /\ n \in Node /\ Good(s) /\ s \in NodeState /\ Fewer(s, 0, decNoOfRxFrames(s))
         /\ s.input # None /\ s.state \in {"Receive", "BackoffReceive"}
         /\ sig.frame = None /\ Signal(s.source, n, None) \in wire
<1>1. PICK u : u = decNoOfRxFrames(s)
  OBVIOUS
<1>2. /\ Good(s) /\ Less(s, 0, u) /\ s.input # None /\ s.state \in {"Receive", "BackoffReceive"}
      /\ n \in Node
  BY <1>1, WholeArrives
<1>3. s \in NodeState
  BY <1>2 DEF Good
<1>4. Fewer(s, 0, u)
  BY <1>1, <1>2, <1>3, DecFewer
<1>5. sig.frame = None /\ u.source = sig.from
  BY <1>1 DEF Whole, End
<1>6. sig = Signal(s.source, n, None)
  <2>1. s.source = sig.from
    BY <1>2, <1>5 DEF Less
  <2> QED  BY <1>5, <2>1, OnWire, EndIs DEF Starts
<1> QED  BY <1>1, <1>2, <1>3, <1>4, <1>5, <1>6

\* The node passes nothing up and acknowledges nothing.
LEMMA WholePassive ==
  ASSUME NodesInv, Counts, NEW sig \in wire, sig.frame = None, node[sig.to].state # "Send", NEW t,
         Passive(sig.to, node[sig.to], NoInput(t)), t \in NodeState,
         Becomes(sig.to, NoInput(t), wire \ {sig}), got' = got, AckedFlow
  PROVE  Flow
<1>1. PICK v : v = NoInput(t)
  OBVIOUS
<1>2. v \in NodeState /\ v.input = None
  BY <1>1, NoInputSame
<1>3. node' = [node EXCEPT ![sig.to] = v] /\ wire' = wire \ {sig} /\ sig.to \in Node
  BY <1>1, OnWire DEF Becomes
<1>4. AirFlow
  BY <1>2, <1>3, ArrivalAir
<1> QED  BY <1>1, <1>2, <1>3, <1>4, PassiveFlows DEF Counts

LEMMA NextState ==
  ASSUME NEW s, Good(s), s.state \in {"Receive", "BackoffReceive"}, s.input # None, NEW u,
         Fewer(s, 0, u), NEW v \in changeNextState(u)
  PROVE  v \in NodeState
<1>1. /\ Quiet(u) /\ u.state \in {"Receive", "BackoffReceive"}
      /\ u.state = "BackoffReceive" => u.queue # <<>>
  BY WholeAlone, LessQuiet DEF Fewer
<1> QED  BY <1>1, NextStateResumes DEF Resumes, Settled

LEMMA ErrorFlows ==
  ASSUME NodesInv, Counts, NEW sig \in wire, ReceiveError(sig)
  PROVE  Flow
<1> DEFINE n == sig.to
           s == node[n]
           u == decNoOfRxFrames(s)
<1>1. Whole(sig, u) /\ \E t \in changeNextState(u) : processData(sig, NoInput(t))
  BY DEF ReceiveError
<1>2. /\ n \in Node /\ Good(s) /\ Fewer(s, 0, u) /\ s.input # None
      /\ s.state \in {"Receive", "BackoffReceive"} /\ sig.frame = None
  BY <1>1, WholeFlows
<1> HIDE DEF u
<1>3. PICK t \in changeNextState(u) : processData(sig, NoInput(t))
  BY <1>1
<1>4. Passive(n, s, NoInput(t)) /\ t \in NodeState
  BY <1>2, <1>3, IgnoredPassive, NextState
<1>5. Becomes(n, NoInput(t), wire \ {sig}) /\ got' = got /\ AckedFlow
  BY <1>3 DEF processData, AckedFlow
<1> QED  BY <1>2, <1>4, <1>5, WholePassive

\* An acknowledgement is heard that nobody waits for.
LEMMA AckIgnored ==
  ASSUME NodesInv, Counts, NEW sig \in wire, ReceiveAck(sig)
  PROVE  Flow
<1> DEFINE n == sig.to
           s == node[n]
           u == decNoOfRxFrames(s)
<1>1. /\ Whole(sig, u) /\ got' = got /\ acked' = IF IsMyAck(n, u) THEN Acked(u) ELSE acked
      /\ \E t \in IF IsMyAck(n, u) THEN {Finished(u)} ELSE changeNextState(u) :
           Becomes(n, NoInput(t), wire \ {sig})
  BY DEF ReceiveAck
<1>2. /\ n \in Node /\ Good(s) /\ Fewer(s, 0, u) /\ s.input # None
      /\ s.state \in {"Receive", "BackoffReceive"} /\ sig.frame = None
  BY <1>1, WholeFlows
<1>3. ~ IsMyAck(n, u)
  BY <1>2 DEF IsMyAck, Fewer, Less, Good, TimersRight
<1> HIDE DEF u
<1>4. PICK t \in changeNextState(u) : Becomes(n, NoInput(t), wire \ {sig})
  BY <1>1, <1>3
<1>5. Passive(n, s, NoInput(t)) /\ t \in NodeState
  BY <1>2, <1>4, IgnoredPassive, NextState
<1>6. AckedFlow
  BY <1>1, <1>3 DEF AckedFlow
<1> QED  BY <1>1, <1>2, <1>4, <1>5, <1>6, WholePassive

LEMMA NoInputIs ==
  ASSUME NEW t, NEW v \in NodeState, v = NoInput(t)
  PROVE  v.input = None
<1>1. v = [t EXCEPT !["input"] = None]
  BY DEF NoInput
<1>2. "input" \in DOMAIN v
  BY DEF NodeState
<1> QED  BY <1>1, <1>2

\* A frame ends while an acknowledgement is awaited.
LEMMA AwaitedFlows ==
  ASSUME NodesInv, Counts, NEW sig \in wire, AwaitACKReceiveIdle(sig)
  PROVE  Flow
<1> DEFINE n == sig.to
           s == node[n]
           u == decNoOfRxFrames(s)
           whole == u.input # None /\ u.source = sig.from
           mine == whole /\ IsMyAck(n, u)
           awaiting == u.tmr["awaitAck"] # Off
<1>1. Good(s) /\ s \in NodeState /\ s.state = "AwaitACKReceive" /\ sig.frame = None /\ n \in Node
  BY AtNode, OnWire DEF AwaitACKReceiveIdle, End, Arrives
<1>2. PICK r \in Nat : Less(s, r, u) /\ r <= s.rx /\ (s.rx > 0 => r = s.rx - 1)
  BY <1>1, EndBegins
<1>3. Fewer(s, r, u)
  BY <1>1, <1>2, DecFewer
<1>4. /\ \E t \in IF mine THEN chkOutputBuffer(Finished(u))
                  ELSE IF whole /\ u.ackReceived THEN chkOutputBuffer(u)
                  ELSE IF (whole /\ awaiting) \/ (u.input = None /\ ~awaiting /\ u.rx = 0)
                  THEN endAwaitACK([u EXCEPT !.tmr["awaitAck"] = Off, !.state = "AwaitACK"])
                  ELSE {u} : Becomes(n, NoInput(t), wire \ {sig})
      /\ acked' = IF mine THEN Acked(u) ELSE acked
      /\ got' = got
  BY DEF AwaitACKReceiveIdle
<1>5. whole \in BOOLEAN /\ (whole => u.input # None) /\ (mine => whole)
  OBVIOUS
<1>6. mine => s.input # None /\ s.input.type = "ACK" /\ s.input.addr1 = n
  BY <1>2 DEF IsMyAck, Less
<1>7. PICK m \in BOOLEAN : m = mine
  BY DEF IsMyAck
<1> HIDE DEF u, whole, mine, awaiting
<1>8. PICK t \in IF m THEN chkOutputBuffer(Finished(u))
                 ELSE IF whole /\ u.ackReceived THEN chkOutputBuffer(u)
                 ELSE IF (whole /\ awaiting) \/ (u.input = None /\ ~awaiting /\ u.rx = 0)
                 THEN endAwaitACK([u EXCEPT !.tmr["awaitAck"] = Off, !.state = "AwaitACK"])
                 ELSE {u} : Becomes(n, NoInput(t), wire \ {sig})
  BY <1>4, <1>7
<1>9. m => whole
  BY <1>5, <1>7
<1>10. Turns(s, r, NoInput(t))
  BY <1>1, <1>2, <1>5, <1>8, <1>9, AwaitIdleGood
<1>11. Passive(n, s, NoInput(t))
  BY <1>1, <1>2, <1>3, <1>5, <1>8, <1>9, AwaitedPassive
<1>12. PICK v \in NodeState : v = NoInput(t)
  BY <1>10 DEF Turns, Good
<1>13. v.input = None
  BY <1>12, NoInputIs
<1>14. node' = [node EXCEPT ![n] = v] /\ wire' = wire \ {sig}
  BY <1>8, <1>12 DEF Becomes
<1>15. AirFlow
  BY <1>1, <1>13, <1>14, ArrivalAir
<1>16. AckedFlow
  <2>1. CASE mine
    <3>1. acked' = acked \cup {u.queue[i] : i \in DOMAIN u.queue \cap {1}}
      BY <1>4, <2>1 DEF Acked
    <3>2. acked' \subseteq acked \cup {s.queue[1]}
      BY <1>2, <3>1 DEF Less
    <3> QED  BY <1>1, <1>6, <2>1, <3>2 DEF AckedFlow
  <2>2. CASE ~ mine
    BY <1>4, <2>2 DEF AckedFlow
  <2> QED  BY <2>1, <2>2
<1> QED  BY <1>1, <1>4, <1>11, <1>12, <1>14, <1>15, <1>16, PassiveFlows DEF Counts

-----------------------------------------------------------------------------
\* A frame has been received whole.

LEMMA AppendIs ==
  ASSUME NEW q \in Seq(Nat), NEW k \in Nat, NEW p, p = Append(q, k)
  PROVE  /\ p \in Seq(Nat) /\ DOMAIN p = 1 .. Len(q) + 1 /\ DOMAIN q = 1 .. Len(q) /\ Len(q) \in Nat
         /\ p[Len(q) + 1] = k /\ \A i \in 1 .. Len(q) : p[i] = q[i]
  OBVIOUS

LEMMA AppendedAt ==
  ASSUME NEW c \in [Node -> Seq(Nat)], NEW x \in Node, NEW k \in Nat
  PROVE  \E d \in Seq(Nat) : d = Append(c[x], k)
<1>1. PICK q \in Seq(Nat) : q = c[x]
  OBVIOUS
<1>2. PICK d : d = Append(q, k)
  OBVIOUS
<1>3. d \in Seq(Nat)
  BY <1>2, AppendIs
<1> QED  BY <1>1, <1>2, <1>3

\* The node m, which has received f, is in t: f was noted and passed up, or neither.
LEMMA ReceivesFlows ==
  ASSUME NodesInv, Counts, NEW n \in Node, NEW t \in NodeState, NEW sig \in wire, sig.to = n,
         sig.frame = None, Taken(n), node[n].state # "Send", NEW f, f = node[n].input, f.addr2 \in Node,
         f.seq \in Nat, NEW g, Receives(n, node[n], t, g, f.addr2),
         node' = [node EXCEPT ![n] = t], wire' = wire \ {sig}, acked' = acked,
         t.tmr["sendAck"] # Off => (n \in MS => f.addr1 = n) /\ g[f.addr2] = f.seq,
         \/ g = node[n].seen /\ got' = got
         \/ /\ g = [node[n].seen EXCEPT ![f.addr2] = f.seq]
            /\ node[n].seen[f.addr2] # f.seq \/ ~ f.retry
            /\ got' = [got EXCEPT ![n][f.addr2] = Append(@, f.seq)]
  PROVE  Flow
<1>1. node'[n] = t /\ \A m \in Node \ {n} : node'[m] = node[m]
  BY DEF NodesInv
<1>2. /\ SenderStep(n, node[n], t) /\ t.seen = g /\ t.input = None
      /\ t.tmr["sendAck"] # Off => t.tmr["sendAck"] = SIFS /\ t.ackTo = f.addr2
  BY DEF Receives
<1>3. InputFlow(n)
  BY <1>1, <1>2 DEF InputFlow
<1>4. AckFlow(n)
  BY <1>1, <1>2 DEF AckFlow
<1>5. AirFlow
  BY <1>2, ArrivalAir
<1>6. AckedFlow
  BY DEF AckedFlow
<1>7. CASE g = node[n].seen /\ got' = got
  <2>1. SeenFlow(n)
    BY <1>1, <1>2, <1>7 DEF SeenFlow
  <2>2. \A m \in Node : /\ SenderStep(m, node[m], node'[m]) /\ InputFlow(m) /\ AckFlow(m) /\ SeenFlow(m)
                        /\ node'[m] \in NodeState
    BY <1>1, <1>2, <1>3, <1>4, <1>7, <2>1, OtherFlows
  <2> QED  BY <1>5, <1>6, <1>7, <2>2 DEF Flow, Counts
<1>8. CASE /\ g = [node[n].seen EXCEPT ![f.addr2] = f.seq]
           /\ node[n].seen[f.addr2] # f.seq \/ ~ f.retry
           /\ got' = [got EXCEPT ![n][f.addr2] = Append(@, f.seq)]
  <2>1. PICK c \in [Node -> Seq(Nat)] : c = got[n]
    BY DEF Counts
  <2>2. PICK d \in Seq(Nat) : d = Append(c[f.addr2], f.seq)
    <3>1. PICK x \in Node, k \in Nat : x = f.addr2 /\ k = f.seq
      OBVIOUS
    <3>2. \E d \in Seq(Nat) : d = Append(c[x], k)
      BY ONLY <2>1, <3>1, AppendedAt
    <3> QED  BY <3>1, <3>2
  <2>3. PICK e : e = [c EXCEPT ![f.addr2] = d]
    OBVIOUS
  <2>4. e \in [Node -> Seq(Nat)]
    BY <2>1, <2>2, <2>3
  <2>5. got' = [got EXCEPT ![n] = e]
    BY <1>8, <2>1, <2>2, <2>3
  <2>6. got' \in [Node -> [Node -> Seq(Nat)]] /\ got'[n] = e /\ \A m \in Node \ {n} : got'[m] = got[m]
    BY <2>4, <2>5 DEF Counts
  <2>7. got'[n] = [got[n] EXCEPT ![f.addr2] = Append(@, f.seq)]
    BY <2>1, <2>2, <2>3, <2>6
  <2>8. SeenFlow(n)
    BY <1>1, <1>2, <1>8, <2>7 DEF SeenFlow
  <2>9. \A m \in Node : /\ SenderStep(m, node[m], node'[m]) /\ InputFlow(m) /\ AckFlow(m) /\ SeenFlow(m)
                        /\ node'[m] \in NodeState
    BY <1>1, <1>2, <1>3, <1>4, <2>6, <2>8, OtherFlows, ZenonT(60)
  <2> QED  BY <1>5, <1>6, <2>6, <2>9 DEF Flow
<1> QED  BY <1>7, <1>8

LEMMA InputFrame ==
  ASSUME NEW s \in NodeState, s.input # None, s.input.type = "DATA"
  PROVE  s.input \in Frame /\ s.input.addr2 \in Node /\ s.input.seq \in Nat /\ s.seen \in [Node -> Nat]
<1>1. s.seen \in [Node -> Nat] /\ s.input \in Frame \cup AckFrame \cup {None}
  BY Fields
<1> QED  BY <1>1, DataIsFrame

LEMMA OnwardFrom ==
  ASSUME NEW n, NEW s, NEW w, NEW t, Onward(n, w, t), w.queue = s.queue,
         w.sequenceNumber = s.sequenceNumber, w.state = s.state
  PROVE  Onward(n, s, t)
  BY DEF Onward, Counted, Later, Sent

LEMMA StationFlows ==
  ASSUME NodesInv, Counts, NEW sig \in wire, StationData(sig)
  PROVE  Flow
<1> DEFINE n == sig.to
           s == node[n]
<1>u. PICK u : u = decNoOfRxFrames(s)
  OBVIOUS
<1>f. PICK f : f = u.input
  OBVIOUS
<1>w. PICK w : w = [u EXCEPT !.seen[AP] = f.seq]
  OBVIOUS
<1> DEFINE takes == StationTakes(n, u, f)
<1>1. /\ Whole(sig, u) /\ f.type = "DATA" /\ acked' = acked
      /\ \E t \in IF takes /\ f.addr1 # Broadcast THEN {scheduleAck(w, f.addr2)}
                  ELSE changeNextState(IF takes THEN w ELSE u) :
           Becomes(n, NoInput(t), wire \ {sig})
      /\ got' = IF takes THEN [got EXCEPT ![n][AP] = Append(@, f.seq)] ELSE got
  BY <1>u, <1>f, <1>w DEF StationData
<1>2. /\ n \in Node /\ Good(s) /\ s \in NodeState /\ Fewer(s, 0, u) /\ s.input # None
      /\ s.state \in {"Receive", "BackoffReceive"} /\ sig.frame = None
      /\ Signal(s.source, n, None) \in wire
  BY <1>1, <1>u, WholeFlows
<1>3. takes => f.addr2 = AP /\ f.addr1 \in {n, Broadcast} /\ (u.seen[f.addr2] # f.seq \/ ~ f.retry)
  BY DEF StationTakes, isFrameForMe, IsNew
<1>4. PICK o \in BOOLEAN : o = takes
  BY DEF StationTakes, isFrameForMe
<1>5. /\ \E t \in IF o /\ f.addr1 # Broadcast THEN {scheduleAck(w, f.addr2)}
                  ELSE changeNextState(IF o THEN w ELSE u) :
           Becomes(n, NoInput(t), wire \ {sig})
      /\ got' = IF o THEN [got EXCEPT ![n][AP] = Append(@, f.seq)] ELSE got
      /\ o => f.addr2 = AP /\ f.addr1 \in {n, Broadcast} /\ (u.seen[f.addr2] # f.seq \/ ~ f.retry)
  BY <1>1, <1>3, <1>4
<1> HIDE DEF takes
<1>6. /\ u \in NodeState /\ f = s.input /\ u.seen = s.seen /\ u.queue = s.queue /\ u.state = s.state
      /\ u.sequenceNumber = s.sequenceNumber /\ u.timeToSend = s.timeToSend /\ u.ok
      /\ u.tmr["sendAck"] = Off
  BY <1>2, <1>u, <1>f, WholeAlone DEF Fewer, Less, Good
<1>7. f \in Frame /\ f.addr2 \in Node /\ f.seq \in Nat /\ u.seen \in [Node -> Nat] /\ Taken(n)
  BY <1>1, <1>2, <1>6, InputFrame DEF Taken
<1>8. PICK g : g = [u.seen EXCEPT ![AP] = f.seq]
  OBVIOUS
<1>9. AP \in Node
  BY DEF Node
<1>10. g \in [Node -> Nat] /\ w = [u EXCEPT !.seen = g] /\ g[AP] = f.seq
  BY <1>7, <1>8, <1>9, <1>w
<1>11. PICK t \in IF o /\ f.addr1 # Broadcast THEN {scheduleAck(w, f.addr2)}
                  ELSE changeNextState(IF o THEN w ELSE u) :
         Becomes(n, NoInput(t), wire \ {sig})
  BY <1>5
<1>12. CASE o /\ f.addr1 # Broadcast
  <2>1. t = scheduleAck(w, f.addr2)
    BY <1>11, <1>12
  <2>2. AckPending(s, t)
    BY <1>2, <1>7, <1>10, <2>1, ScheduleState DEF Fewer
  <2>3. /\ w \in NodeState /\ w.seen = g /\ w.queue = u.queue /\ w.timeToSend = u.timeToSend
        /\ w.sequenceNumber = u.sequenceNumber /\ w.state = u.state /\ w.tmr = u.tmr /\ w.ok = u.ok
    <3>1. u \in NodeState /\ g \in [Node -> Nat] /\ w = [u EXCEPT !.seen = g]
      BY <1>6, <1>10
    <3> QED  BY <3>1 DEF NodeState
  <2>4. /\ t.queue = w.queue /\ t.sequenceNumber = w.sequenceNumber /\ t.seen = w.seen
        /\ t.timeToSend = w.timeToSend /\ t.state = w.state /\ t.ackTo = f.addr2
    <3>1. w \in NodeState /\ w.tmr["sendAck"] = Off /\ w.ok /\ f.addr2 \in Node
      BY <1>6, <1>7, <2>3
    <3> QED  BY <2>1, <3>1, ScheduleFields, SMTT(30)
  <2>5. t \in NodeState
    BY <2>2 DEF AckPending
  <2>6. Onward(n, s, t)
    BY <1>2, <1>6, <2>3, <2>4, <2>5, StayOnward DEF Sent
  <2>7. Receives(n, s, NoInput(t), g, f.addr2)
    BY <1>2, <1>6, <2>2, <2>3, <2>4, <2>6, AckReceives
  <2>8. PICK v \in NodeState : v = NoInput(t)
    BY <2>5, NoInputSame
  <2>9. node' = [node EXCEPT ![n] = v] /\ wire' = wire \ {sig}
    BY <1>11, <2>8 DEF Becomes
  <2>10. f.addr2 = AP /\ f.addr1 = n /\ (s.seen[f.addr2] # f.seq \/ ~ f.retry) /\ g[f.addr2] = f.seq
    BY <1>5, <1>6, <1>10, <1>12
  <2>11. g = [s.seen EXCEPT ![f.addr2] = f.seq] /\ got' = [got EXCEPT ![n][f.addr2] = Append(@, f.seq)]
    BY <1>5, <1>6, <1>8, <1>12, <2>10
  <2>12. Receives(n, s, v, g, f.addr2)
    BY <2>7, <2>8
  <2> QED  BY <1>1, <1>2, <1>6, <1>7, <2>9, <2>10, <2>11, <2>12, ReceivesFlows
<1>13. CASE o /\ f.addr1 = Broadcast
  <2>1. t \in changeNextState([u EXCEPT !.seen = g])
    BY <1>10, <1>11, <1>13
  <2>2. PICK v : v = NoInput(t)
    OBVIOUS
  <2>3. Receives(n, s, v, g, f.addr2) /\ v \in NodeState /\ v.tmr["sendAck"] = Off
    BY <1>2, <1>10, <2>1, <2>2, NotedReceives
  <2>4. node' = [node EXCEPT ![n] = v] /\ wire' = wire \ {sig}
    BY <1>11, <2>2 DEF Becomes
  <2>5. f.addr2 = AP /\ (s.seen[f.addr2] # f.seq \/ ~ f.retry)
    BY <1>5, <1>6, <1>13
  <2>6. g = [s.seen EXCEPT ![f.addr2] = f.seq] /\ got' = [got EXCEPT ![n][f.addr2] = Append(@, f.seq)]
    BY <1>5, <1>6, <1>8, <1>13, <2>5
  <2> QED  BY <1>1, <1>2, <1>6, <1>7, <2>3, <2>4, <2>5, <2>6, ReceivesFlows
<1>14. CASE ~ o
  <2>1. t \in changeNextState(u) /\ got' = got
    BY <1>5, <1>11, <1>14
  <2>2. Passive(n, s, NoInput(t)) /\ t \in NodeState
    BY <1>2, <2>1, IgnoredPassive, NextState
  <2>3. AckedFlow
    BY <1>1 DEF AckedFlow
  <2> QED  BY <1>2, <1>11, <2>1, <2>2, <2>3, WholePassive
<1> QED  BY <1>12, <1>13, <1>14

LEMMA AccessPointFlows ==
  ASSUME NodesInv, Counts, NEW sig \in wire, AccessPointData(sig)
  PROVE  Flow
<1> DEFINE s == node[AP]
           u == decNoOfRxFrames(s)
           f == u.input
           w == scheduleAck(u, f.addr2)
           mine == isFrameForMe(AP, f)
           new == mine /\ IsNew(u, f)
<1>1. /\ sig.to = AP /\ Whole(sig, u) /\ f.type = "DATA" /\ acked' = acked
      /\ \E t \in IF mine THEN {IF new THEN Forward([w EXCEPT !.seen[f.addr2] = f.seq], f) ELSE w}
                  ELSE changeNextState(u) : Becomes(AP, NoInput(t), wire \ {sig})
      /\ got' = IF new THEN [got EXCEPT ![AP][f.addr2] = Append(@, f.seq)] ELSE got
  BY DEF AccessPointData
<1>2. /\ AP \in Node /\ Good(s) /\ s \in NodeState /\ Fewer(s, 0, u) /\ s.input # None
      /\ s.state \in {"Receive", "BackoffReceive"} /\ sig.frame = None
      /\ Signal(s.source, AP, None) \in wire
  BY <1>1, WholeFlows
<1>3. new <=> mine /\ (u.seen[f.addr2] # f.seq \/ ~ f.retry)
  BY DEF IsNew
<1> HIDE DEF u, mine, new
<1>4. /\ u \in NodeState /\ f = s.input /\ u.seen = s.seen /\ u.queue = s.queue /\ u.state = s.state
      /\ u.sequenceNumber = s.sequenceNumber /\ u.timeToSend = s.timeToSend /\ u.ok
      /\ u.tmr["sendAck"] = Off
  BY <1>2, WholeAlone DEF Fewer, Less, Good
<1>5. f \in Frame /\ f.addr2 \in Node /\ f.seq \in Nat /\ u.seen \in [Node -> Nat] /\ Taken(AP)
  BY <1>1, <1>2, <1>4, InputFrame DEF Taken
<1> HIDE DEF f
<1>6. AckPending(s, w)
  BY <1>2, <1>5, ScheduleState DEF Fewer
<1>7. /\ w.queue = u.queue /\ w.sequenceNumber = u.sequenceNumber /\ w.seen = u.seen
      /\ w.timeToSend = u.timeToSend /\ w.state = u.state /\ w.ackTo = f.addr2
  BY <1>4, <1>5, ScheduleFields
<1> HIDE DEF w
<1>8. w \in NodeState
  BY <1>6 DEF AckPending
<1>9. AP \notin MS
  BY ParamAssumption
<1>10. PICK t \in IF mine THEN {IF new THEN Forward([w EXCEPT !.seen[f.addr2] = f.seq], f) ELSE w}
                  ELSE changeNextState(u) : Becomes(AP, NoInput(t), wire \ {sig})
  BY <1>1
<1>11. CASE new
  <2>1. PICK g : g = [w.seen EXCEPT ![f.addr2] = f.seq]
    OBVIOUS
  <2>2. g \in [Node -> Nat] /\ g[f.addr2] = f.seq /\ g = [s.seen EXCEPT ![f.addr2] = f.seq]
    BY <1>4, <1>5, <1>7, <2>1
  <2>3. t = Forward([w EXCEPT !.seen[f.addr2] = f.seq], f)
    BY <1>3, <1>10, <1>11
  <2>4. AckPending(s, t)
    BY <1>5, <1>6, <2>3, ForwardState
  <2>5. t \in NodeState
    BY <2>4 DEF AckPending
  <2>6. t = Forward([w EXCEPT !.seen = g], f)
    BY <2>1, <2>3
  <2>7. w.state \in {"Receive", "BackoffReceive"}
    BY <1>2, <1>4, <1>7
  <2>8. t.seen = g /\ t.ackTo = w.ackTo /\ t.timeToSend = w.timeToSend /\ Onward(AP, w, t)
    BY <1>5, <1>8, <2>2, <2>5, <2>6, <2>7, ForwardFields
  <2>9. Onward(AP, s, t) /\ t.timeToSend = s.timeToSend /\ t.ackTo = f.addr2
    BY <1>4, <1>7, <2>8, OnwardFrom
  <2>10. Receives(AP, s, NoInput(t), g, f.addr2)
    BY <1>2, <2>4, <2>8, <2>9, AckReceives
  <2>11. PICK v \in NodeState : v = NoInput(t)
    BY <2>5, NoInputSame
  <2>12. node' = [node EXCEPT ![AP] = v] /\ wire' = wire \ {sig} /\ Receives(AP, s, v, g, f.addr2)
    BY <1>10, <2>10, <2>11 DEF Becomes
  <2>13. s.seen[f.addr2] # f.seq \/ ~ f.retry
    BY <1>3, <1>4, <1>11
  <2>14. got' = [got EXCEPT ![AP][f.addr2] = Append(@, f.seq)]
    BY <1>1, <1>11
  <2> QED  BY <1>1, <1>2, <1>4, <1>5, <1>9, <2>2, <2>12, <2>13, <2>14, ReceivesFlows
<1>12. CASE mine /\ ~ new
  <2>1. t = w
    BY <1>10, <1>12
  <2>2. Onward(AP, s, t)
    BY <1>2, <1>4, <1>7, <1>8, <2>1, StayOnward DEF Sent
  <2>3. Receives(AP, s, NoInput(t), s.seen, f.addr2)
    BY <1>2, <1>4, <1>6, <1>7, <2>1, <2>2, AckReceives
  <2>4. PICK v \in NodeState : v = NoInput(t)
    BY <1>8, <2>1, NoInputSame
  <2>5. node' = [node EXCEPT ![AP] = v] /\ wire' = wire \ {sig} /\ Receives(AP, s, v, s.seen, f.addr2)
    BY <1>10, <2>3, <2>4 DEF Becomes
  <2>6. s.seen[f.addr2] = f.seq
    BY <1>3, <1>4, <1>12
  <2>7. got' = got
    BY <1>1, <1>12
  <2> QED  BY <1>1, <1>2, <1>4, <1>5, <1>9, <2>5, <2>6, <2>7, ReceivesFlows
<1>13. CASE ~ mine
  <2>1. t \in changeNextState(u) /\ got' = got
    BY <1>1, <1>3, <1>10, <1>13
  <2>2. Passive(AP, s, NoInput(t)) /\ t \in NodeState
    BY <1>2, <2>1, IgnoredPassive, NextState
  <2>3. AckedFlow
    BY <1>1 DEF AckedFlow
  <2> QED  BY <1>1, <1>2, <1>10, <2>1, <2>2, <2>3, WholePassive
<1> QED  BY <1>3, <1>11, <1>12, <1>13

-----------------------------------------------------------------------------
\* A node's own timers, and its upper layer.

\* A frame starts to go out.
GoesOut(n, t, f) ==
  /\ t.state = "Send" \/ node[n].state # "Send"
  /\ \/ f.type = "DATA" /\ t.state = "Send" /\ f = t.queue[1]
     \/ f.type = "ACK" /\ node[n].tmr["sendAck"] = 0 /\ f.addr1 = node[n].ackTo

LEMMA SentAir ==
  ASSUME NodesInv, NEW n \in Node, NEW t, NEW f, GoesOut(n, t, f),
         node' = [node EXCEPT ![n] = t], NEW M, wire' = wire \cup M,
         \A sig \in M : sig.from = n /\ sig.to \in t.idleDest /\ sig.frame = f
  PROVE  AirFlow
<1>1. node'[n] = t /\ \A m \in Node \ {n} : node'[m] = node[m]
  BY DEF NodesInv
<1>2. \A sig \in wire' \ wire : sig.from = n /\ sig.to \in t.idleDest /\ sig.frame = f
  OBVIOUS
<1> QED  BY <1>1, <1>2 DEF AirFlow, GoesOut

\* What was sent ends.
LEMMA EndsAir ==
  ASSUME NodesInv, NEW n \in Node, NEW t, node' = [node EXCEPT ![n] = t],
         wire' = wire \cup {Signal(n, m, None) : m \in node[n].idleDest}
  PROVE  AirFlow
<1>1. node'[n] = t /\ \A m \in Node \ {n} : node'[m] = node[m]
  BY DEF NodesInv
<1>2. ASSUME NEW sig \in wire' \ wire
      PROVE  sig.frame = None
  <2>1. PICK m \in node[n].idleDest : sig = Signal(n, m, None)
    BY <1>2
  <2> QED  BY <2>1, SignalFields
<1>3. \A m \in node[n].idleDest : Signal(n, m, None) \in wire'
  OBVIOUS
<1>4. wire \ wire' = {}
  OBVIOUS
<1> QED  BY <1>1, <1>2, <1>3, <1>4 DEF AirFlow

LEMMA ReadyFlows ==
  ASSUME NodesInv, Counts, NEW n \in Node, readyToSend(n)
  PROVE  Flow
<1> DEFINE s == node[n]
<1>1. Good(s) /\ s \in NodeState /\ s.tmr["backoff"] = 0
  BY AtNode DEF readyToSend, Expires
<1>e. PICK e : e = [s EXCEPT !.tmr["backoff"] = Off]
  OBVIOUS
<1>w. PICK w : w = [e EXCEPT !.state = "Send", !.tmr["endSendData"] = DATATIME]
  OBVIOUS
<1>2. PICK d, t : d = Hears[n] /\ t = [w EXCEPT !.idleDest = d]
  OBVIOUS
<1>3. d \in SUBSET Node
  BY <1>2, ParamAssumption
<1>4. Sends(s, d, t) /\ s.queue # <<>> /\ Head(s.queue) \in Frame
  BY <1>1, <1>2, <1>3, <1>e, <1>w, ReadyGood
<1>5. e.queue = s.queue
  BY <1>1, <1>e DEF NodeState
<1>6. sendFrame(n, w, Head(s.queue))
  BY <1>4, <1>5, <1>e, <1>w DEF readyToSend, Expired
<1>7. /\ node' = [node EXCEPT ![n] = t] /\ wire' = wire \cup {Signal(n, m, Head(s.queue)) : m \in d}
      /\ got' = got /\ acked' = acked
  BY <1>2, <1>6 DEF sendFrame, Becomes
<1>8. t \in NodeState /\ Good(t)
  BY <1>4 DEF Sends, Good
<1>9. Passive(n, s, t) /\ t.state = "Send" /\ t.queue = s.queue /\ t.idleDest = d
  <2>1. Readied(s, d, t)
    BY <1>2, <1>e, <1>w DEF Readied
  <2> QED  BY <1>1, <1>3, <1>8, <2>1, ReadyPassive
<1>10. Head(s.queue) = t.queue[1] /\ Head(s.queue).type = "DATA"
  <2>1. s.queue \in Seq(Frame)
    BY <1>1, Fields
  <2>2. Head(s.queue) = s.queue[1]
    BY <1>4, <2>1
  <2> QED  BY <1>4, <1>9, <2>2 DEF Frame
<1>11. PICK f, M : f = Head(s.queue) /\ M = {Signal(n, m, f) : m \in d}
  OBVIOUS
<1>12. \A sig \in M : sig.from = n /\ sig.to \in t.idleDest /\ sig.frame = f
  BY <1>9, <1>11, SignalFields
<1>13. wire' = wire \cup M /\ node' = [node EXCEPT ![n] = t]
  BY <1>7, <1>11
<1>14. GoesOut(n, t, f)
  BY <1>9, <1>10, <1>11 DEF GoesOut
<1>15. AirFlow
  BY <1>12, <1>13, <1>14, SentAir
<1> QED  BY <1>7, <1>8, <1>9, <1>15, PassiveFlows DEF AckedFlow, Counts

LEMMA SendAckFlows ==
  ASSUME NodesInv, Counts, NEW n \in Node, sendAck(n)
  PROVE  Flow
<1> DEFINE s == node[n]
           e == [s EXCEPT !.tmr["sendAck"] = Off]
<1>1. Good(s) /\ s \in NodeState /\ s.tmr["sendAck"] = 0
  BY AtNode DEF sendAck, Expires
<1>2. PICK d, w, t : /\ d = Hears[n] /\ w = [e EXCEPT !.tmr["endSendAck"] = ACKTIME, !.ackTo = None]
                     /\ t = [w EXCEPT !.idleDest = d]
  OBVIOUS
<1>3. d \in SUBSET Node
  BY <1>2, ParamAssumption
<1>4. /\ Sends(s, d, t) /\ e.ackTo \in Node \cup {None}
      /\ e \in NodeState /\ e.ok /\ e.tmr["endSendAck"] = Off
  BY <1>1, <1>2, <1>3, SendAckGood
<1>5. Asserted(e, e.tmr["endSendAck"] = Off) = e
  BY <1>4 DEF Asserted, NodeState
<1>6. sendFrame(n, w, [type |-> "ACK", addr1 |-> e.ackTo])
  BY <1>2, <1>5 DEF sendAck, Expired
<1>7. PICK f : f = [type |-> "ACK", addr1 |-> e.ackTo]
  OBVIOUS
<1>8. f.type = "ACK" /\ f.addr1 = e.ackTo
  BY <1>7
<1>9. /\ node' = [node EXCEPT ![n] = t] /\ wire' = wire \cup {Signal(n, m, f) : m \in d}
      /\ got' = got /\ acked' = acked
  BY <1>2, <1>6, <1>7 DEF sendFrame, Becomes
<1>10. t \in NodeState /\ Good(t) /\ t.idleDest = d
  BY <1>4 DEF Sends, Good
<1>11. /\ Passive(n, s, t) /\ e.ackTo = s.ackTo
  BY <1>1, <1>2, <1>3, <1>10, SendAckPassive
<1>12. s.state # "Send"
  BY <1>1 DEF Good, TimersRight, Off
<1> HIDE DEF e
<1>13. PICK M : M = {Signal(n, m, f) : m \in d}
  OBVIOUS
<1>14. \A sig \in M : sig.from = n /\ sig.to \in t.idleDest /\ sig.frame = f
  BY <1>10, <1>13, SignalFields
<1>15. wire' = wire \cup M /\ node' = [node EXCEPT ![n] = t]
  BY <1>9, <1>13
<1>16. GoesOut(n, t, f)
  BY <1>1, <1>8, <1>11, <1>12 DEF GoesOut
<1>17. AirFlow
  BY <1>14, <1>15, <1>16, SentAir
<1> QED  BY <1>9, <1>10, <1>11, <1>17, PassiveFlows DEF AckedFlow, Counts

LEMMA EndsFlows ==
  ASSUME NodesInv, Counts, NEW n \in Node, NEW t, Passive(n, node[n], t), Good(t), sendEndOfFrame(n, t)
  PROVE  Flow
<1>1. /\ node' = [node EXCEPT ![n] = t] /\ got' = got /\ acked' = acked
      /\ wire' = wire \cup {Signal(n, m, None) : m \in node[n].idleDest}
  BY DEF sendEndOfFrame, Becomes
<1>2. AirFlow
  BY <1>1, EndsAir
<1>3. t \in NodeState
  BY DEF Good
<1> QED  BY <1>1, <1>2, <1>3, PassiveFlows DEF AckedFlow, Counts

LEMMA EndDataFlows ==
  ASSUME NodesInv, Counts, NEW n \in Node, endSendingData(n)
  PROVE  Flow
<1> DEFINE s == node[n]
<1>1. Good(s) /\ s \in NodeState
  BY AtNode
<1>2. PICK u : u = [[s EXCEPT !.tmr["endSendData"] = Off] EXCEPT !.idleDest = {}]
  OBVIOUS
<1>3. u = Ended(n, "endSendData") /\ s.tmr["endSendData"] = 0
  BY <1>2 DEF Ended, Expired, endSendingData, Expires
<1>4. EndedState(s, u) /\ Keeps(s, u) /\ u.timeToSend = s.timeToSend
  BY <1>1, <1>2, <1>3, EndedIs, EndedKeeps
<1>5. s.state = "Send" /\ s.queue # <<>> /\ u.queue = s.queue /\ s.queue \in Seq(Frame)
  BY <1>1, <1>3, <1>4, Fields DEF Good, TimersRight, QueueRight, EndedState, Off
<1>6. Head(u.queue) = s.queue[1]
  BY <1>5
<1>7. PICK t \in IF s.queue[1].addr1 = Broadcast THEN handleSendingBcastFrame(u) ELSE {AwaitAck(u)} :
        sendEndOfFrame(n, t)
  BY <1>3, <1>5, <1>6 DEF endSendingData
<1>8. CASE s.queue[1].addr1 = Broadcast
  <2>1. t \in handleSendingBcastFrame(u)
    BY <1>7, <1>8
  <2>2. Sends(s, {}, t)
    BY <1>1, <1>4, <1>5, <1>8, <2>1, BroadcastGood
  <2>3. Passive(n, s, t)
    BY <1>1, <1>3, <1>4, <1>5, <1>8, <2>1, BroadcastPassive
  <2> QED  BY <1>7, <2>2, <2>3, EndsFlows DEF Sends
<1>9. CASE s.queue[1].addr1 # Broadcast
  <2>1. t = AwaitAck(u)
    BY <1>7, <1>9
  <2>2. Sends(s, {}, t)
    BY <1>1, <1>4, <1>5, <1>9, <2>1, AwaitAckGood
  <2>3. Passive(n, s, t)
    BY <1>1, <1>3, <1>4, <1>5, <1>9, <2>1, <2>2, AwaitAckPassive DEF Sends
  <2> QED  BY <1>7, <2>2, <2>3, EndsFlows DEF Sends
<1> QED  BY <1>8, <1>9

LEMMA EndAckFlows ==
  ASSUME NodesInv, Counts, NEW n \in Node, endSendingAck(n)
  PROVE  Flow
<1> DEFINE s == node[n]
<1>1. Good(s) /\ s \in NodeState
  BY AtNode
<1>2. PICK u : u = [[s EXCEPT !.tmr["endSendAck"] = Off] EXCEPT !.idleDest = {}]
  OBVIOUS
<1>3. u = Ended(n, "endSendAck") /\ s.tmr["endSendAck"] = 0
  BY <1>2 DEF Ended, Expired, endSendingAck, Expires
<1>4. EndedState(s, u) /\ Keeps(s, u) /\ u.timeToSend = s.timeToSend
  BY <1>1, <1>2, <1>3, EndedIs, EndedKeeps
<1>5. PICK t \in IF u.rx = 0 THEN changeNextState(u) ELSE {u} : sendEndOfFrame(n, t)
  BY <1>3 DEF endSendingAck
<1>6. Sends(s, {}, t)
  BY <1>1, <1>3, <1>4, <1>5, EndAckGood
<1>7. Passive(n, s, t)
  BY <1>1, <1>3, <1>4, <1>5, EndAckPassive
<1> QED  BY <1>5, <1>6, <1>7, EndsFlows DEF Sends

\* Nobody else notices.
LEMMA AloneFlows ==
  ASSUME NodesInv, Counts, NEW n \in Node, NEW t, Passive(n, node[n], t), Good(t),
         node[n].state = "Send" => t.state = "Send", Becomes(n, t, wire), got' = got, acked' = acked
  PROVE  Flow
<1>1. node' = [node EXCEPT ![n] = t] /\ wire' = wire
  BY DEF Becomes
<1>2. AirFlow
  BY <1>1, AloneAir
<1>3. t \in NodeState
  BY DEF Good
<1> QED  BY <1>1, <1>2, <1>3, PassiveFlows DEF AckedFlow, Counts

LEMMA TimeoutFlows ==
  ASSUME NodesInv, Counts, NEW n \in Node, awaitAckTimeout(n)
  PROVE  Flow
<1> DEFINE s == node[n]
<1>1. Good(s) /\ s.tmr["awaitAck"] = 0
  BY AtNode DEF awaitAckTimeout, Expires
<1>2. PICK t \in endAwaitACK([s EXCEPT !.tmr["awaitAck"] = Off]) : Becomes(n, t, wire)
  BY DEF awaitAckTimeout, Expired
<1>3. Turns(s, s.rx, t) /\ Passive(n, s, t)
  BY <1>1, <1>2, TimeoutGood, TimeoutPassive
<1>4. s.state # "Send"
  BY <1>1 DEF Good, TimersRight, Off
<1>5. got' = got /\ acked' = acked
  BY DEF awaitAckTimeout
<1> QED  BY <1>2, <1>3, <1>4, <1>5, AloneFlows DEF Turns

LEMMA UpperFlows ==
  ASSUME NodesInv, Counts, NEW n \in Node, receiveData(n)
  PROVE  Flow
<1> DEFINE s == node[n]
<1>1. Good(s) /\ s \in NodeState /\ got' = got /\ acked' = acked
  BY AtNode DEF receiveData
<1>2. PICK to \in Traffic[n] :
        LET w == insertFrame(incrementSequenceNumber(s),
                             createFrame(n, s, IF n = AP THEN Wired ELSE n, to))
        IN  \E t \in IF w.state = "Idle" THEN chkOutputBuffer(w) ELSE {w} : Becomes(n, t, wire)
  BY DEF receiveData
<1>3. PICK f : f = createFrame(n, s, IF n = AP THEN Wired ELSE n, to)
  OBVIOUS
<1>4. PICK w : w = insertFrame(incrementSequenceNumber(s), f)
  OBVIOUS
<1>5. PICK t \in IF w.state = "Idle" THEN chkOutputBuffer(w) ELSE {w} : Becomes(n, t, wire)
  BY <1>2, <1>3, <1>4
<1>6. f \in Frame
  BY <1>3, UpperFrame
<1>7. f.seq = s.sequenceNumber /\ f.addr2 = n /\ (n \in MS => f.addr1 = AP)
  BY <1>3, ParamAssumption DEF createFrame
<1>8. Turns(s, s.rx, w)
  BY <1>1, <1>4, <1>6, InsertGood
<1>9. Passive(n, s, t)
  BY <1>1, <1>4, <1>5, <1>6, <1>7, <1>8, UpperPassive DEF Turns
<1>10. Turns(s, s.rx, t)
  <2>1. CASE w.state = "Idle"
    <3>1. Quiet(w) /\ w.input = None
      BY <1>8, <2>1, QuietWhenIdle DEF Turns
    <3>2. Settled(t) /\ t.input = None
      BY <1>5, <2>1, <3>1, ChkOutputSettles
    <3>3. s.idleDest = {} /\ s.rx = 0
      BY <1>8, <3>1 DEF Turns, Quiet
    <3> QED  BY <3>2, <3>3, SettledTurns
  <2>2. CASE w.state # "Idle"
    BY <1>5, <1>8, <2>2
  <2> QED  BY <2>1, <2>2
<1>11. s.state = "Send" => t.state = "Send"
  <2>1. w.state = s.state
    BY <1>1, <1>4 DEF insertFrame, incrementSequenceNumber, NodeState
  <2> QED  BY <1>5, <2>1
<1> QED  BY <1>1, <1>5, <1>9, <1>10, <1>11, AloneFlows DEF Turns

\* Every step, other than the passing of time, is one of these.
LEMMA StepFlows ==
  ASSUME NodesInv, Counts, [Next]_vars
  PROVE  Flow \/ Tick
<1>1. ASSUME NEW sig \in wire,
             \/ IdleData(sig) \/ AwaitACKData(sig) \/ BackoffData(sig) \/ SendData(sig) \/ Collision(sig)
             \/ OtherIdle(sig) \/ ReceiveNothing(sig) \/ ReceiveError(sig) \/ StationData(sig)
             \/ AccessPointData(sig) \/ ReceiveAck(sig) \/ AwaitACKReceiveIdle(sig)
      PROVE  Flow
  <2>1. CASE IdleData(sig) \/ AwaitACKData(sig) \/ BackoffData(sig) \/ SendData(sig) \/ Collision(sig)
    BY <2>1, StartFlows
  <2>2. CASE OtherIdle(sig) \/ ReceiveNothing(sig)
    BY <2>2, OtherEndFlows
  <2>3. CASE ReceiveError(sig)
    BY <2>3, ErrorFlows
  <2>4. CASE StationData(sig)
    BY <2>4, StationFlows
  <2>5. CASE AccessPointData(sig)
    BY <2>5, AccessPointFlows
  <2>6. CASE ReceiveAck(sig)
    BY <2>6, AckIgnored
  <2>7. CASE AwaitACKReceiveIdle(sig)
    BY <2>7, AwaitedFlows
  <2> QED  BY <1>1, <2>1, <2>2, <2>3, <2>4, <2>5, <2>6, <2>7
<1>2. ASSUME NEW n \in Node,
             \/ readyToSend(n) \/ endSendingData(n) \/ awaitAckTimeout(n) \/ sendAck(n)
             \/ endSendingAck(n) \/ receiveData(n)
      PROVE  Flow
  BY <1>2, ReadyFlows, SendAckFlows, EndDataFlows, EndAckFlows, TimeoutFlows, UpperFlows
<1>3. CASE UNCHANGED vars
  <2>1. node' = node /\ wire' = wire /\ got' = got /\ acked' = acked
    BY <1>3 DEF vars
  <2>2. \A m \in Node : /\ SenderStep(m, node[m], node'[m]) /\ InputFlow(m) /\ AckFlow(m) /\ SeenFlow(m)
                        /\ node'[m] \in NodeState
    BY <2>1, OtherFlows
  <2>3. AirFlow
    BY <2>1 DEF AirFlow
  <2> QED  BY <2>1, <2>2, <2>3 DEF Flow, AckedFlow, Counts
<1> QED  BY <1>1, <1>2, <1>3 DEF Next, Event

-----------------------------------------------------------------------------
\* What is true of the two ends of a transmission.

Received(g, f) == \E i \in DOMAIN g[f.addr1][f.addr2] : g[f.addr1][f.addr2][i] = f.seq

\* The numbers of n's frames have not started again, and n has kept them in order.
Owner(n, s) == Owns(n, s.queue) /\ SlotRight(s) /\ Counted(s)

\* The node will hear in time, before k has passed, an acknowledgement that is for it.
DueAt(s, k, g) ==
  /\ s.state # "Send"
  /\ s.state = "Backoff" => s.tmr["backoff"] > k
  /\ s.state = "AwaitACK" => Received(g, s.queue[1])

\* The node has just sent f.
OverAt(s, f) ==
  /\ s.state # "Send"
  /\ s.state = "Backoff" => s.tmr["backoff"] >= DIFS
  /\ s.state \in Await => f = s.queue[1]

\* The node will not send a frame numbered v, or only to repeat it.
Behind(s, v) ==
  /\ v < s.sequenceNumber
  /\ s.queue # <<>> => /\ v <= s.queue[1].seq
                       /\ v = s.queue[1].seq => s.queue[1].retry \/ s.state \in Await

LEMMA OwnerStep ==
  ASSUME NEW n, NEW s, NEW t, SenderStep(n, s, t), Owner(n, s), t.sequenceNumber # 0
  PROVE  Owner(n, t) /\ Later(s, t)
  BY DEF SenderStep, Onward, Owner

LEMMA BehindStep ==
  ASSUME NEW s \in NodeState, NEW t \in NodeState, Later(s, t), NEW v \in Nat, Behind(s, v)
  PROVE  /\ Behind(t, v)
         /\ t.queue # <<>> /\ t.queue[1].seq = v => s.queue # <<>> /\ s.queue[1].seq = v
<1>1. /\ s.queue \in Seq(Frame) /\ t.queue \in Seq(Frame) /\ s.sequenceNumber \in Nat
      /\ t.sequenceNumber \in Nat
  BY Fields
<1>2. PICK c \in Nat, d \in Nat : c = s.sequenceNumber /\ d = t.sequenceNumber
  BY <1>1
<1>3. v < c /\ c <= d
  BY <1>2 DEF Behind, Later
<1>4. v < d
  BY <1>3
<1>5. CASE t.queue = <<>>
  BY <1>2, <1>4, <1>5 DEF Behind
<1>6. CASE t.queue # <<>>
  <2>1. PICK b \in Nat : b = t.queue[1].seq
    BY <1>1, <1>6, SeqDomain
  <2>2. CASE s.queue = <<>>
    <3>1. c <= b
      BY <1>2, <1>6, <2>1, <2>2 DEF Later
    <3>2. v < b
      BY <1>3, <3>1
    <3> QED  BY <1>2, <1>4, <1>6, <2>1, <3>2 DEF Behind
  <2>3. CASE s.queue # <<>>
    <3>1. PICK a \in Nat : a = s.queue[1].seq
      BY <1>1, <2>3, SeqDomain
    <3>2. v <= a /\ (v = a => s.queue[1].retry \/ s.state \in Await)
      BY <2>3, <3>1 DEF Behind
    <3>3. a < b \/ (a = b /\ (s.queue[1].retry \/ Sent(s, t) => t.queue[1].retry \/ t.state \in Await))
      BY <1>6, <2>1, <2>3, <3>1 DEF Later
    <3>4. v <= b /\ (v = b => v = a)
      BY <3>2, <3>3
    <3>5. v = b => t.queue[1].retry \/ t.state \in Await
      BY <3>2, <3>3, <3>4 DEF Sent
    <3> QED  BY <1>2, <1>4, <1>6, <2>1, <2>3, <3>1, <3>4, <3>5 DEF Behind
  <2> QED  BY <2>2, <2>3
<1> QED  BY <1>5, <1>6

LEMMA SentBehind ==
  ASSUME NEW s \in NodeState, NEW t \in NodeState, Counted(s), Later(s, t), s.state = "Send",
         s.queue # <<>>, t.state # "Send"
  PROVE  Behind(t, s.queue[1].seq)
<1>1. /\ s.queue \in Seq(Frame) /\ t.queue \in Seq(Frame) /\ s.sequenceNumber \in Nat
      /\ t.sequenceNumber \in Nat
  BY Fields
<1>2. PICK c \in Nat, d \in Nat : c = s.sequenceNumber /\ d = t.sequenceNumber
  BY <1>1
<1>3. PICK a \in Nat : a = s.queue[1].seq
  BY <1>1, SeqDomain
<1>4. a < c /\ c <= d
  <2>1. 1 \in DOMAIN s.queue
    BY <1>1, SeqDomain
  <2> QED  BY <1>2, <1>3, <2>1 DEF Counted, Numbered, Later
<1>5. a < d
  BY <1>4
<1>6. CASE t.queue = <<>>
  BY <1>2, <1>3, <1>5, <1>6 DEF Behind
<1>7. CASE t.queue # <<>>
  <2>1. PICK b \in Nat : b = t.queue[1].seq
    BY <1>1, <1>7, SeqDomain
  <2>2. a < b \/ (a = b /\ (t.queue[1].retry \/ t.state \in Await))
    BY <1>3, <1>7, <2>1 DEF Later, Sent
  <2>3. a <= b
    BY <2>2
  <2> QED  BY <1>2, <1>3, <1>5, <2>1, <2>2, <2>3 DEF Behind
<1> QED  BY <1>6, <1>7

LEMMA DueStep ==
  ASSUME NEW n, NEW s \in NodeState, NEW t \in NodeState, SenderStep(n, s, t), SlotRight(s),
         NEW k \in Nat, k < DIFS, NEW g, NEW h, DueAt(s, k, g),
         s.state = "AwaitACK" /\ Received(g, s.queue[1]) => Received(h, s.queue[1])
  PROVE  DueAt(t, k, h)
<1>1. DIFS \in Nat
  BY ParamAssumption
<1>2. s.state # "Send" /\ (s.state = "Backoff" => s.tmr["backoff"] > k)
  BY DEF DueAt
<1>3. t.state # "Send"
  BY <1>2 DEF SenderStep
<1>4. ASSUME t.state = "Backoff"  PROVE t.tmr["backoff"] > k
  <2>1. PICK b \in Nat \cup {Off} : b = t.tmr["backoff"]
    BY Fields DEF Timer
  <2>2. b >= DIFS \/ b > k
    BY <1>2, <1>4, <2>1 DEF SenderStep
  <2>3. b > k
    BY <1>1, <2>2 DEF Off
  <2> QED  BY <2>1, <2>3
<1>5. ASSUME t.state = "AwaitACK"  PROVE Received(h, t.queue[1])
  <2>1. s.state = "AwaitACK" /\ t.queue[1] = s.queue[1]
    BY <1>2, <1>5 DEF SenderStep, Await
  <2> QED  BY <2>1 DEF DueAt
<1> QED  BY <1>3, <1>4, <1>5 DEF DueAt

LEMMA OverStep ==
  ASSUME NEW n, NEW s \in NodeState, NEW t \in NodeState, SenderStep(n, s, t), SlotRight(s), NEW f,
         OverAt(s, f)
  PROVE  OverAt(t, f)
<1>1. DIFS \in Nat /\ DIFS > 0
  BY ParamAssumption
<1>2. s.state # "Send" /\ (s.state = "Backoff" => s.tmr["backoff"] >= DIFS /\ s.tmr["backoff"] # 0)
  BY <1>1 DEF OverAt
<1>3. t.state # "Send"
  BY <1>2 DEF SenderStep
<1>4. t.state = "Backoff" => t.tmr["backoff"] >= DIFS
  BY <1>2 DEF SenderStep
<1>5. t.state \in Await => f = t.queue[1]
  BY <1>2 DEF SenderStep, OverAt, Await
<1> QED  BY <1>3, <1>4, <1>5 DEF OverAt

LEMMA FlightStep ==
  ASSUME NEW n, NEW s, NEW t, SenderStep(n, s, t), SlotRight(s), s.state = "Send"
  PROVE  /\ t.state = "Send" => t.queue[1] = s.queue[1] /\ t.idleDest = s.idleDest
         /\ t.state # "Send" => OverAt(t, s.queue[1]) /\ s.tmr["endSendData"] = 0
  BY DEF SenderStep, OverAt, Await

LEMMA OverDue ==
  ASSUME NEW s \in NodeState, NEW f, OverAt(s, f), NEW g, Received(g, f)
  PROVE  DueAt(s, SIFS, g)
<1>1. DIFS \in Nat /\ SIFS \in Nat /\ SIFS < DIFS
  BY ParamAssumption, TimesAssumption
<1>2. PICK b \in Nat \cup {Off} : b = s.tmr["backoff"]
  BY Fields DEF Timer
<1>3. b >= DIFS => b > SIFS
  BY <1>1, <1>2 DEF Off
<1> QED  BY <1>2, <1>3 DEF OverAt, DueAt, Await

-----------------------------------------------------------------------------
\* The invariant, part by part: each part is kept by Flow, whatever step that was.

\* Fewer than 4095 frames have been numbered by each node.
Unwrapped == \A n \in Node : node[n].sequenceNumber # 0

Owning == \A n \in Node : Owner(n, node[n])

\* What begins to be heard.
Starting ==
  \A sig \in wire : sig.frame # None =>
    /\ sig.frame.type = "DATA" => InFlight(sig.from, sig.to, sig.frame)
    /\ sig.frame.type = "ACK" /\ sig.frame.addr1 = sig.to => DueAt(node[sig.to], 0, got)

Over(x, m, f) == Signal(x, m, None) \in wire /\ OverAt(node[x], f)

\* What is being received.
ComingIs(m, f, x) ==
  /\ x \in Node /\ x # m /\ f \in Frame /\ f.addr2 = x /\ f.seq > 0 /\ (x \in MS => f.addr1 = AP)
  /\ InFlight(x, m, f) \/ Over(x, m, f)

Coming == \A m \in Node : node[m].input # None /\ node[m].input.type = "DATA" =>
            ComingIs(m, node[m].input, node[m].source)

AckDue ==
  \A m \in Node : node[m].tmr["sendAck"] # Off =>
    /\ node[m].ackTo \in Node /\ node[m].tmr["sendAck"] <= SIFS
    /\ DueAt(node[node[m].ackTo], node[m].tmr["sendAck"], got)

AckIn ==
  \A m \in Node :
    node[m].state = "AwaitACKReceive" /\ node[m].input # None /\ node[m].input.type = "ACK"
    /\ node[m].input.addr1 = m => Received(got, node[m].queue[1])

SeenIn ==
  \A n, m \in Node : node[n].seen[m] # 0 => \E i \in DOMAIN got[n][m] : got[n][m][i] = node[n].seen[m]

AckedIn == \A f \in acked : f.addr1 \in Node /\ f.addr2 \in Node /\ Received(got, f)

\* What n has received from m.
PastIs(n, m, v) ==
  /\ Behind(node[m], v)
  /\ node[m].queue # <<>> /\ node[m].queue[1].seq = v => node[n].seen[m] = v

Past == \A n, m \in Node : \A i \in DOMAIN got[n][m] : PastIs(n, m, got[n][m][i])

\* What m is receiving comes after what it has received.
NewerIs(m, f, x) ==
  /\ Over(x, m, f) => Behind(node[x], f.seq)
  /\ \A i \in DOMAIN got[m][x] :
       got[m][x][i] <= f.seq /\ (got[m][x][i] = f.seq => node[m].seen[x] = f.seq /\ f.retry)

Newer == \A m \in Node : node[m].input # None /\ node[m].input.type = "DATA" =>
           NewerIs(m, node[m].input, node[m].source)

\* What is received in the air, and what was received and noted.
Delivery == Owning /\ Starting /\ Coming /\ AckDue /\ AckIn /\ SeenIn /\ AckedIn
Order == Past /\ Newer /\ InOrderOnce

\* What a node has been given stays.
Grows(g, h) ==
  \A n, m \in Node : \A i \in DOMAIN g[n][m] : \E j \in DOMAIN h[n][m] : h[n][m][j] = g[n][m][i]

LEMMA FlowAt ==
  ASSUME Flow, NEW m \in Node
  PROVE  /\ SenderStep(m, node[m], node'[m]) /\ InputFlow(m) /\ AckFlow(m) /\ SeenFlow(m)
         /\ node'[m] \in NodeState
  BY DEF Flow

\* m passes up nothing, or the frame it has received whole.
PassesUp(m, x, f) ==
  /\ Taken(m) /\ f = node[m].input /\ x = f.addr2 /\ x \in Node /\ f.seq \in Nat /\ node'[m].input = None
  /\ node[m].seen[x] # f.seq \/ ~ f.retry
  /\ node'[m].seen[x] = f.seq /\ \A y \in Node \ {x} : node'[m].seen[y] = node[m].seen[y]
  /\ got'[m][x] = Append(got[m][x], f.seq) /\ \A y \in Node \ {x} : got'[m][y] = got[m][y]

LEMMA UpIs ==
  ASSUME NodesInv, Counts, Flow, NEW m \in Node
  PROVE  \/ got'[m] = got[m] /\ node'[m].seen = node[m].seen
         \/ \E x \in Node, f \in Frame : PassesUp(m, x, f)
<1>1. CASE got'[m] = got[m] /\ node'[m].seen = node[m].seen
  BY <1>1
<1>2. CASE ~ (got'[m] = got[m] /\ node'[m].seen = node[m].seen)
  <2>1. PICK f : f = node[m].input
    OBVIOUS
  <2>2. /\ Taken(m) /\ node'[m].input = None /\ f.addr2 \in Node
        /\ node[m].seen[f.addr2] # f.seq \/ ~ f.retry
        /\ node'[m].seen = [node[m].seen EXCEPT ![f.addr2] = f.seq]
        /\ got'[m] = [got[m] EXCEPT ![f.addr2] = Append(@, f.seq)]
    BY <1>2, <2>1, FlowAt DEF SeenFlow
  <2>3. node[m] \in NodeState
    BY AtNode
  <2>4. f \in Frame /\ f.seq \in Nat /\ node[m].seen \in [Node -> Nat]
    BY <2>1, <2>2, <2>3, InputFrame DEF Taken
  <2>5. PICK x \in Node : x = f.addr2
    BY <2>2
  <2>6. got[m] \in [Node -> Seq(Nat)]
    BY DEF Counts
  <2>7. node'[m].seen[x] = f.seq /\ \A y \in Node \ {x} : node'[m].seen[y] = node[m].seen[y]
    BY <2>2, <2>4, <2>5
  <2>8. got'[m][x] = Append(got[m][x], f.seq) /\ \A y \in Node \ {x} : got'[m][y] = got[m][y]
    BY <2>2, <2>5, <2>6
  <2>9. PassesUp(m, x, f)
    BY <2>1, <2>2, <2>4, <2>5, <2>7, <2>8 DEF PassesUp
  <2> QED  BY <2>4, <2>9
<1> QED  BY <1>1, <1>2

LEMMA GotGrows ==
  ASSUME NodesInv, Counts, Flow
  PROVE  Grows(got, got')
<1>1. ASSUME NEW n \in Node, NEW m \in Node, NEW i \in DOMAIN got[n][m]
      PROVE  \E j \in DOMAIN got'[n][m] : got'[n][m][j] = got[n][m][i]
  <2>1. CASE got'[n][m] = got[n][m]
    BY <2>1
  <2>2. CASE got'[n][m] # got[n][m]
    <3>1. PICK x \in Node, f \in Frame : PassesUp(n, x, f)
      BY <2>2, UpIs
    <3>2. m = x /\ got'[n][x] = Append(got[n][x], f.seq) /\ f.seq \in Nat
      BY <2>2, <3>1 DEF PassesUp
    <3>3. PICK q, p : q \in Seq(Nat) /\ q = got[n][m] /\ p = got'[n][m]
      BY DEF Counts
    <3>4. i \in 1 .. Len(q) /\ p[i] = q[i] /\ i \in DOMAIN p
      BY <3>2, <3>3, AppendIs, SMTT(40)
    <3> QED  BY <3>3, <3>4
  <2> QED  BY <2>1, <2>2
<1> QED  BY <1>1, Zenon DEF Grows

LEMMA ReceivedStays ==
  ASSUME NEW g, NEW h, Grows(g, h), NEW f, f.addr1 \in Node, f.addr2 \in Node, Received(g, f)
  PROVE  Received(h, f)
<1>1. PICK n, m, v : n \in Node /\ m \in Node /\ n = f.addr1 /\ m = f.addr2 /\ v = f.seq
  OBVIOUS
<1>2. PICK i \in DOMAIN g[n][m] : g[n][m][i] = v
  BY <1>1 DEF Received
<1>3. PICK j \in DOMAIN h[n][m] : h[n][m][j] = g[n][m][i]
  BY <1>1, <1>2 DEF Grows
<1> QED  BY <1>1, <1>2, <1>3 DEF Received

\* The first frame of a node that awaits its acknowledgement is for one node.
LEMMA AwaitsOne ==
  ASSUME NodesInv, NEW m \in Node, node[m].state \in Await
  PROVE  /\ node[m].queue # <<>> /\ node[m].queue[1] \in Frame
         /\ node[m].queue[1].addr1 \in Node /\ node[m].queue[1].addr2 \in Node
<1>1. Good(node[m]) /\ node[m].queue \in Seq(Frame)
  BY AtNode, Fields
<1>2. node[m].queue # <<>> /\ node[m].queue[1].addr1 # Broadcast
  BY <1>1 DEF Good, QueueRight, Await
<1>3. node[m].queue[1] \in Frame
  BY <1>1, <1>2, SeqDomain
<1> QED  BY <1>2, <1>3 DEF Frame

LEMMA DueStays ==
  ASSUME NodesInv, Counts, Owning, Flow, NEW m \in Node, NEW k \in Nat, k < DIFS, DueAt(node[m], k, got)
  PROVE  DueAt(node'[m], k, got')
<1>1. PICK s \in NodeState, t \in NodeState : s = node[m] /\ t = node'[m]
  BY AtNode, FlowAt
<1>2. SenderStep(m, s, t) /\ SlotRight(s) /\ DueAt(s, k, got)
  BY <1>1, FlowAt DEF Owning, Owner
<1>3. s.state = "AwaitACK" /\ Received(got, s.queue[1]) => Received(got', s.queue[1])
  <2>1. ASSUME s.state = "AwaitACK"
        PROVE  s.queue[1].addr1 \in Node /\ s.queue[1].addr2 \in Node
    BY <1>1, <2>1, AwaitsOne DEF Await
  <2> QED  BY <2>1, GotGrows, ReceivedStays
<1> QED  BY <1>1, <1>2, <1>3, DueStep

-----------------------------------------------------------------------------
\* What is received in the air.

LEMMA OwningKept ==
  ASSUME Owning, Flow, Unwrapped'
  PROVE  Owning' /\ \A m \in Node : Later(node[m], node'[m])
<1>1. ASSUME NEW m \in Node  PROVE Owner(m, node'[m]) /\ Later(node[m], node'[m])
  BY FlowAt, OwnerStep DEF Owning, Unwrapped
<1> QED  BY <1>1 DEF Owning

\* The frame that is being sent.
LEMMA HeadSent ==
  ASSUME NodesInv, Owning, NEW x \in Node, NEW m, NEW f, InFlight(x, m, f)
  PROVE  /\ node[x].queue # <<>> /\ f = node[x].queue[1] /\ f \in Frame
         /\ f.addr2 = x /\ f.seq \in Nat /\ f.seq > 0 /\ (x \in MS => f.addr1 = AP)
<1>1. Good(node[x]) /\ node[x].queue \in Seq(Frame)
  BY AtNode, Fields
<1>2. node[x].queue # <<>> /\ f = node[x].queue[1]
  BY <1>1 DEF InFlight, Good, QueueRight
<1>3. 1 \in DOMAIN node[x].queue /\ f \in Frame /\ f.seq \in Nat
  BY <1>1, <1>2, SeqDomain
<1> QED  BY <1>2, <1>3 DEF Owning, Owner, Owns, Counted, Numbered

LEMMA FlightMoves ==
  ASSUME Owning, Flow, NEW x \in Node, NEW m, NEW f, InFlight(x, m, f)
  PROVE  InFlight(x, m, f)' \/ (Over(x, m, f)' /\ node'[x].state # "Send")
<1>1. PICK s, t : s = node[x] /\ t = node'[x]
  OBVIOUS
<1>2. SenderStep(x, s, t) /\ SlotRight(s)
  BY <1>1, FlowAt DEF Owning, Owner
<1>3. s.state = "Send" /\ m \in s.idleDest /\ f = s.queue[1]
  BY <1>1 DEF InFlight
<1>4. CASE t.state = "Send"
  <2>1. t.queue[1] = f /\ m \in t.idleDest
    BY <1>2, <1>3, <1>4, FlightStep
  <2> QED  BY <1>1, <1>4, <2>1 DEF InFlight
<1>5. CASE t.state # "Send"
  <2>1. OverAt(t, f)
    BY <1>2, <1>3, <1>5, FlightStep
  <2>2. Signal(x, m, None) \in wire'
    BY <1>1, <1>3, <1>5 DEF Flow, AirFlow
  <2> QED  BY <1>1, <1>5, <2>1, <2>2 DEF Over
<1> QED  BY <1>4, <1>5

LEMMA OverMoves ==
  ASSUME NodesInv, Owning, Flow, NEW x \in Node, NEW m, NEW f, Over(x, m, f)
  PROVE  OverAt(node'[x], f) /\ (node'[m].input # None => Over(x, m, f)')
<1>1. PICK s \in NodeState, t \in NodeState : s = node[x] /\ t = node'[x]
  BY AtNode, FlowAt
<1>2. SenderStep(x, s, t) /\ SlotRight(s) /\ OverAt(s, f)
  BY <1>1, FlowAt DEF Owning, Owner, Over
<1>3. OverAt(node'[x], f)
  BY <1>1, <1>2, OverStep
<1>4. ASSUME node'[m].input # None  PROVE Signal(x, m, None) \in wire'
  <2>1. PICK sig \in wire : sig = Signal(x, m, None)
    BY DEF Over
  <2>2. sig.frame = None /\ sig.to = m
    BY <2>1, SignalFields
  <2> QED  BY <1>4, <2>1, <2>2 DEF Flow, AirFlow
<1> QED  BY <1>3, <1>4 DEF Over

LEMMA StartingKept ==
  ASSUME NodesInv, NodesInv', Counts, Owning, Starting, AckDue, Flow
  PROVE  Starting'
<1>1. 0 < DIFS /\ SIFS < DIFS /\ SIFS \in Nat /\ DIFS \in Nat
  BY ParamAssumption, TimesAssumption
<1>2. ASSUME NEW sig \in wire, sig.frame # None
      PROVE  /\ sig.frame.type = "DATA" => InFlight(sig.from, sig.to, sig.frame)'
             /\ sig.frame.type = "ACK" /\ sig.frame.addr1 = sig.to => DueAt(node'[sig.to], 0, got')
  <2>1. PICK x, m, f : x \in Node /\ m \in Node /\ x = sig.from /\ m = sig.to /\ f = sig.frame
    BY OnWire
  <2>2. ASSUME f.type = "DATA"  PROVE InFlight(x, m, f)'
    <3>1. InFlight(x, m, f)
      BY <1>2, <2>1, <2>2 DEF Starting
    <3>2. SenderStep(x, node[x], node'[x]) /\ SlotRight(node[x]) /\ node[x].state = "Send"
      BY <2>1, <3>1, FlowAt DEF Owning, Owner, InFlight
    <3>3. node[x].tmr["endSendData"] # 0
      BY <2>1 DEF NodesInv, WireRight, Sending
    <3>4. node'[x].state = "Send"
      BY <2>1, <3>2, <3>3, FlightStep
    <3> QED  BY <2>1, <3>1, <3>4, FlightMoves
  <2>3. ASSUME f.type = "ACK", f.addr1 = m  PROVE DueAt(node'[m], 0, got')
    <3>1. DueAt(node[m], 0, got)
      BY <1>2, <2>1, <2>3 DEF Starting
    <3> QED  BY <1>1, <2>1, <3>1, DueStays
  <2> QED  BY <2>1, <2>2, <2>3 DEF InFlight
<1>3. ASSUME NEW sig \in wire' \ wire, sig.frame # None
      PROVE  /\ sig.frame.type = "DATA" => InFlight(sig.from, sig.to, sig.frame)'
             /\ sig.frame.type = "ACK" /\ sig.frame.addr1 = sig.to => DueAt(node'[sig.to], 0, got')
  <2>1. \/ /\ sig.frame.type = "DATA" /\ node'[sig.from].state = "Send"
           /\ sig.to \in node'[sig.from].idleDest /\ sig.frame = node'[sig.from].queue[1]
        \/ /\ sig.frame.type = "ACK" /\ node[sig.from].tmr["sendAck"] = 0
           /\ sig.frame.addr1 = node[sig.from].ackTo
    BY <1>3 DEF Flow, AirFlow
  <2>2. ASSUME sig.frame.type = "DATA"  PROVE InFlight(sig.from, sig.to, sig.frame)'
    BY <2>1, <2>2 DEF InFlight
  <2>3. ASSUME sig.frame.type = "ACK", sig.frame.addr1 = sig.to  PROVE DueAt(node'[sig.to], 0, got')
    <3>1. sig.from \in Node
      BY <1>3 DEF NodesInv, WireRight
    <3>2. PICK x, m : x \in Node /\ x = sig.from /\ m = sig.to
      BY <3>1
    <3>3. node[x].tmr["sendAck"] = 0 /\ m = node[x].ackTo
      BY <2>1, <2>3, <3>2
    <3>4. m \in Node /\ DueAt(node[m], 0, got)
      BY <3>2, <3>3 DEF AckDue, Off
    <3>5. DueAt(node'[m], 0, got')
      BY <1>1, <3>4, DueStays
    <3> QED  BY <3>2, <3>5
  <2> QED  BY <2>2, <2>3
<1> QED  BY <1>2, <1>3 DEF Starting, InFlight

\* What a node is hearing: as before, or what has just begun.
LEMMA InputMoves ==
  ASSUME NodesInv, Flow, NEW m \in Node, NEW f, f = node'[m].input, f # None
  PROVE  \/ f = node[m].input /\ node'[m].source = node[m].source /\ node[m].state # "Send"
         \/ \E sig \in wire :
              /\ sig.to = m /\ sig.from = node'[m].source /\ sig.from \in Node /\ sig.frame = f
              /\ node[m].state \in {"Idle", "AwaitACK", "Backoff"}
<1>1. CASE f = node[m].input /\ node'[m].source = node[m].source
  <2>1. node[m].state # "Send"
    BY <1>1, AtNode DEF Good, SensesRight
  <2> QED  BY <1>1, <2>1
<1>2. CASE ~ (f = node[m].input /\ node'[m].source = node[m].source)
  <2>1. PICK sig \in wire : /\ sig.to = m /\ node'[m].input = sig.frame /\ node'[m].source = sig.from
                            /\ node[m].state \in {"Idle", "AwaitACK", "Backoff"}
    BY <1>2, FlowAt DEF InputFlow
  <2>2. sig.from \in Node
    BY OnWire
  <2> QED  BY <2>1, <2>2
<1> QED  BY <1>1, <1>2

LEMMA ComingKept ==
  ASSUME NodesInv, Owning, Starting, Coming, Flow
  PROVE  Coming'
<1>1. ASSUME NEW m \in Node, NEW f, NEW x, f = node'[m].input, x = node'[m].source, f # None,
             f.type = "DATA"
      PROVE  ComingIs(m, f, x)'
  <2>1. CASE f = node[m].input /\ x = node[m].source
    <3>1. ComingIs(m, f, x)
      BY <1>1, <2>1 DEF Coming
    <3>2. /\ x \in Node /\ x # m /\ f \in Frame /\ f.addr2 = x /\ f.seq > 0 /\ (x \in MS => f.addr1 = AP)
          /\ InFlight(x, m, f) \/ Over(x, m, f)
      BY <3>1 DEF ComingIs
    <3>3. InFlight(x, m, f)' \/ Over(x, m, f)'
      BY <1>1, <3>2, FlightMoves, OverMoves
    <3> QED  BY <3>2, <3>3 DEF ComingIs
  <2>2. CASE ~ (f = node[m].input /\ x = node[m].source)
    <3>1. PICK sig \in wire : /\ sig.to = m /\ sig.from = x /\ x \in Node /\ sig.frame = f
                              /\ node[m].state \in {"Idle", "AwaitACK", "Backoff"}
      BY <1>1, <2>2, InputMoves
    <3>2. InFlight(x, m, f)
      BY <1>1, <3>1 DEF Starting
    <3>3. f \in Frame /\ f.addr2 = x /\ f.seq > 0 /\ (x \in MS => f.addr1 = AP)
      BY <3>1, <3>2, HeadSent
    <3>4. x # m
      BY <3>1, <3>2 DEF InFlight
    <3>5. InFlight(x, m, f)' \/ Over(x, m, f)'
      BY <3>1, <3>2, FlightMoves
    <3> QED  BY <3>1, <3>3, <3>4, <3>5 DEF ComingIs
  <2> QED  BY <2>1, <2>2
<1> QED  BY <1>1 DEF Coming, ComingIs, InFlight, Over

\* A frame that has been received whole has been sent whole.
LEMMA TakenOver ==
  ASSUME NodesInv, AirInv, Coming, NEW m \in Node, Taken(m), NEW f, f = node[m].input
  PROVE  /\ f.addr2 = node[m].source /\ f.addr2 \in Node /\ f.addr2 # m /\ f \in Frame /\ f.seq > 0
         /\ f.addr2 \in MS => f.addr1 = AP
         /\ Over(f.addr2, m, f)
<1>1. PICK x : x = node[m].source
  OBVIOUS
<1>2. ComingIs(m, f, x)
  BY <1>1 DEF Taken, Coming
<1>3. PICK sig \in wire : sig = Signal(x, m, None)
  BY <1>1 DEF Taken
<1>4. m \notin node[x].idleDest
  BY <1>3, SignalFields DEF AirInv, Starts
<1>5. ~ InFlight(x, m, f)
  BY <1>4 DEF InFlight
<1>6. /\ x \in Node /\ x # m /\ f \in Frame /\ f.addr2 = x /\ f.seq > 0 /\ (x \in MS => f.addr1 = AP)
      /\ Over(x, m, f)
  BY <1>2, <1>5 DEF ComingIs
<1> QED  BY <1>1, <1>6

LEMMA SeenInKept ==
  ASSUME NodesInv, Counts, SeenIn, Flow
  PROVE  SeenIn'
<1>1. ASSUME NEW n \in Node, NEW m \in Node, node'[n].seen[m] # 0
      PROVE  \E i \in DOMAIN got'[n][m] : got'[n][m][i] = node'[n].seen[m]
  <2>1. CASE node'[n].seen[m] = node[n].seen[m]
    <3>1. PICK i \in DOMAIN got[n][m] : got[n][m][i] = node[n].seen[m]
      BY <1>1, <2>1 DEF SeenIn
    <3>2. PICK j \in DOMAIN got'[n][m] : got'[n][m][j] = got[n][m][i]
      BY GotGrows DEF Grows
    <3> QED  BY <2>1, <3>1, <3>2
  <2>2. CASE node'[n].seen[m] # node[n].seen[m]
    <3>1. PICK x \in Node, f \in Frame : PassesUp(n, x, f)
      BY <2>2, UpIs
    <3>2. m = x /\ node'[n].seen[m] = f.seq /\ f.seq \in Nat /\ got'[n][m] = Append(got[n][m], f.seq)
      BY <2>2, <3>1 DEF PassesUp
    <3>3. PICK q, p : q \in Seq(Nat) /\ q = got[n][m] /\ p = got'[n][m]
      BY DEF Counts
    <3>4. Len(q) + 1 \in DOMAIN p /\ p[Len(q) + 1] = f.seq
      BY <3>2, <3>3, AppendIs
    <3> QED  BY <3>2, <3>3, <3>4
  <2> QED  BY <2>1, <2>2
<1> QED  BY <1>1 DEF SeenIn

LEMMA AckDueKept ==
  ASSUME NodesInv, AirInv, Counts, Owning, Coming, AckDue, SeenIn', Flow
  PROVE  AckDue'
<1>1. DIFS \in Nat /\ SIFS \in Nat /\ SIFS < DIFS
  BY ParamAssumption, TimesAssumption
<1>2. ASSUME NEW m \in Node, node'[m].tmr["sendAck"] # Off
      PROVE  /\ node'[m].ackTo \in Node /\ node'[m].tmr["sendAck"] <= SIFS
             /\ DueAt(node'[node'[m].ackTo], node'[m].tmr["sendAck"], got')
  <2>1. CASE node'[m].tmr["sendAck"] = node[m].tmr["sendAck"] /\ node'[m].ackTo = node[m].ackTo
    <3>1. PICK x, k : x = node[m].ackTo /\ k = node[m].tmr["sendAck"]
      OBVIOUS
    <3>2. k # Off /\ x \in Node /\ k <= SIFS /\ DueAt(node[x], k, got)
      BY <1>2, <2>1, <3>1 DEF AckDue
    <3>3. k \in Nat
      BY <3>1, <3>2, AtNode, Fields DEF Timer
    <3>4. k < DIFS
      BY <1>1, <3>2, <3>3
    <3>5. DueAt(node'[x], k, got')
      BY <3>2, <3>3, <3>4, DueStays
    <3> QED  BY <2>1, <3>1, <3>2, <3>5
  <2>2. CASE ~ (node'[m].tmr["sendAck"] = node[m].tmr["sendAck"] /\ node'[m].ackTo = node[m].ackTo)
    <3>1. PICK f, x : f = node[m].input /\ x = f.addr2
      OBVIOUS
    <3>2. /\ Taken(m) /\ node'[m].tmr["sendAck"] = SIFS /\ node'[m].ackTo = x
          /\ m \in MS => f.addr1 = m
          /\ node'[m].seen[x] = f.seq
      BY <1>2, <2>2, <3>1, FlowAt DEF AckFlow
    <3>3. x \in Node /\ x # m /\ f \in Frame /\ f.seq > 0 /\ (x \in MS => f.addr1 = AP) /\ Over(x, m, f)
      BY <3>1, <3>2, TakenOver
    <3>4. f.addr1 = m
      BY <3>2, <3>3 DEF Node
    <3>5. Received(got', f)
      <4>1. f.seq # 0
        BY <3>3 DEF Frame
      <4>2. \E i \in DOMAIN got'[m][x] : got'[m][x][i] = f.seq
        BY <3>2, <3>3, <4>1 DEF SeenIn
      <4> QED  BY <3>1, <3>4, <4>2 DEF Received
    <3>6. OverAt(node'[x], f)
      BY <3>3, OverMoves
    <3>7. DueAt(node'[x], SIFS, got')
      BY <3>3, <3>5, <3>6, FlowAt, OverDue
    <3> QED  BY <1>1, <3>2, <3>3, <3>7
  <2> QED  BY <2>1, <2>2
<1> QED  BY <1>2 DEF AckDue

LEMMA AckInKept ==
  ASSUME NodesInv, Counts, Starting, AckIn, Flow
  PROVE  AckIn'
<1>1. ASSUME NEW m \in Node, NEW f, f = node'[m].input, node'[m].state = "AwaitACKReceive", f # None,
             f.type = "ACK", f.addr1 = m
      PROVE  Received(got', node'[m].queue[1])
  <2>1. PICK s \in NodeState, t \in NodeState : s = node[m] /\ t = node'[m]
    BY AtNode, FlowAt
  <2>2. t.queue[1] = s.queue[1] /\ s.state \in Await \cup {"Send"}
    BY <1>1, <2>1, FlowAt DEF SenderStep, Await
  <2>3. Received(got, s.queue[1]) /\ s.state \in Await
    <3>1. CASE f = node[m].input /\ node[m].state # "Send"
      <4>1. s.state \in Await
        BY <2>1, <2>2, <3>1
      <4>2. s.state = "AwaitACKReceive"
        BY <1>1, <2>1, <3>1, <4>1, AtNode DEF Good, SensesRight, Await
      <4> QED  BY <1>1, <2>1, <3>1, <4>1, <4>2 DEF AckIn
    <3>2. CASE ~ (f = node[m].input /\ node[m].state # "Send")
      <4>1. PICK sig \in wire : sig.to = m /\ sig.frame = f /\ s.state \in {"Idle", "AwaitACK", "Backoff"}
        BY <1>1, <2>1, <3>2, InputMoves
      <4>2. s.state = "AwaitACK"
        BY <2>2, <4>1 DEF Await
      <4>3. DueAt(s, 0, got)
        BY <1>1, <2>1, <4>1 DEF Starting
      <4> QED  BY <4>2, <4>3 DEF DueAt, Await
    <3> QED  BY <3>1, <3>2
  <2>4. s.queue[1].addr1 \in Node /\ s.queue[1].addr2 \in Node
    BY <2>1, <2>3, AwaitsOne
  <2>5. Received(got', s.queue[1])
    BY <2>3, <2>4, GotGrows, ReceivedStays
  <2> QED  BY <2>1, <2>2, <2>5
<1> QED  BY <1>1 DEF AckIn

LEMMA AckedInKept ==
  ASSUME NodesInv, Counts, AckIn, AckedIn, Flow
  PROVE  AckedIn'
<1>1. ASSUME NEW f \in acked'
      PROVE  f.addr1 \in Node /\ f.addr2 \in Node /\ Received(got, f)
  <2>1. CASE f \in acked
    BY <2>1 DEF AckedIn
  <2>2. CASE f \notin acked
    <3>1. PICK m \in Node :
            /\ node[m].state = "AwaitACKReceive" /\ node[m].input # None
            /\ node[m].input.type = "ACK" /\ node[m].input.addr1 = m
            /\ acked' \subseteq acked \cup {node[m].queue[1]}
      BY <1>1, <2>2 DEF Flow, AckedFlow
    <3>2. f = node[m].queue[1]
      BY <1>1, <2>2, <3>1
    <3>3. Received(got, f)
      BY <3>1, <3>2 DEF AckIn
    <3>4. f.addr1 \in Node /\ f.addr2 \in Node
      BY <3>1, <3>2, AwaitsOne DEF Await
    <3> QED  BY <3>3, <3>4
  <2> QED  BY <2>1, <2>2
<1>2. ASSUME NEW f \in acked'
      PROVE  f.addr1 \in Node /\ f.addr2 \in Node /\ Received(got', f)
  BY <1>1, GotGrows, ReceivedStays
<1> QED  BY <1>2 DEF AckedIn

-----------------------------------------------------------------------------
\* What a receiver has passed up, in the order of its sender.

LEMMA BehindStays ==
  ASSUME NodesInv, Flow, NEW x \in Node, Later(node[x], node'[x]), NEW v \in Nat, Behind(node[x], v)
  PROVE  /\ Behind(node'[x], v)
         /\ node'[x].queue # <<>> /\ node'[x].queue[1].seq = v =>
              node[x].queue # <<>> /\ node[x].queue[1].seq = v
<1>1. PICK s \in NodeState, t \in NodeState : s = node[x] /\ t = node'[x]
  BY AtNode, FlowAt
<1> QED  BY <1>1, BehindStep

\* What has just been sent is not ahead of its sender.
LEMMA FlightBehind ==
  ASSUME NodesInv, Owning, Flow, NEW x \in Node, Later(node[x], node'[x]), NEW m, NEW f,
         InFlight(x, m, f), node'[x].state # "Send"
  PROVE  Behind(node'[x], f.seq)
<1>1. PICK s \in NodeState, t \in NodeState : s = node[x] /\ t = node'[x]
  BY AtNode, FlowAt
<1>2. s.queue # <<>> /\ f = s.queue[1] /\ s.state = "Send" /\ Counted(s)
  BY <1>1, HeadSent DEF InFlight, Owning, Owner
<1>3. Behind(t, s.queue[1].seq)
  BY <1>1, <1>2, SentBehind
<1> QED  BY <1>1, <1>2, <1>3

\* The frame that has been received whole.
LEMMA TakenNewer ==
  ASSUME NodesInv, AirInv, Coming, Newer, NEW m \in Node, NEW x \in Node, NEW f \in Frame,
         PassesUp(m, x, f)
  PROVE  /\ Behind(node[x], f.seq) /\ f.seq \in Nat
         /\ \A i \in DOMAIN got[m][x] :
              got[m][x][i] <= f.seq /\ (got[m][x][i] = f.seq => node[m].seen[x] = f.seq /\ f.retry)
<1>1. Taken(m) /\ f = node[m].input /\ x = f.addr2 /\ f.seq \in Nat
  BY DEF PassesUp
<1>2. x = node[m].source /\ Over(x, m, f)
  BY <1>1, TakenOver
<1>3. NewerIs(m, f, x)
  BY <1>1, <1>2 DEF Newer, Taken
<1> QED  BY <1>1, <1>2, <1>3 DEF NewerIs

LEMMA GotNat ==
  ASSUME Counts, NEW n \in Node, NEW m \in Node
  PROVE  got[n][m] \in Seq(Nat) /\ \A i \in DOMAIN got[n][m] : i \in Nat /\ got[n][m][i] \in Nat
<1>1. PICK q \in Seq(Nat) : q = got[n][m]
  BY DEF Counts
<1>2. \A i \in DOMAIN q : i \in Nat /\ q[i] \in Nat
  OBVIOUS
<1> QED  BY <1>1, <1>2

LEMMA PastKept ==
  ASSUME NodesInv, AirInv, Counts, Coming, Newer, Past, Flow,
         \A m \in Node : Later(node[m], node'[m])
  PROVE  Past'
<1>1. ASSUME NEW n \in Node, NEW m \in Node, NEW i \in DOMAIN got[n][m], NEW v \in Nat,
             v = got[n][m][i]
      PROVE  PastIs(n, m, v)'
  <2>1. /\ Behind(node[m], v)
        /\ node[m].queue # <<>> /\ node[m].queue[1].seq = v => node[n].seen[m] = v
    BY <1>1 DEF Past, PastIs
  <2>2. /\ Behind(node'[m], v)
        /\ node'[m].queue # <<>> /\ node'[m].queue[1].seq = v =>
             node[m].queue # <<>> /\ node[m].queue[1].seq = v
    BY <2>1, BehindStays
  <2>3. ASSUME node'[m].queue # <<>>, node'[m].queue[1].seq = v
        PROVE  node'[n].seen[m] = v
    <3>1. node[m].queue # <<>> /\ node[m].queue[1].seq = v /\ node[n].seen[m] = v
      BY <2>1, <2>2, <2>3
    <3>2. CASE node'[n].seen[m] = node[n].seen[m]
      BY <3>1, <3>2
    <3>3. CASE node'[n].seen[m] # node[n].seen[m]
      <4>1. PICK x \in Node, f \in Frame : PassesUp(n, x, f)
        BY <3>3, UpIs
      <4>2. m = x /\ node'[n].seen[m] = f.seq
        BY <3>3, <4>1 DEF PassesUp
      <4>3. PICK k \in Nat : k = f.seq
        BY <4>1 DEF PassesUp
      <4>4. Behind(node[m], k) /\ v <= k
        BY <1>1, <4>1, <4>2, <4>3, TakenNewer
      <4>5. k <= v
        BY <3>1, <4>4 DEF Behind
      <4>6. k = v
        BY <4>4, <4>5
      <4> QED  BY <4>2, <4>3, <4>6
    <3> QED  BY <3>2, <3>3
  <2> QED  BY <2>2, <2>3 DEF PastIs
<1>2. ASSUME NEW n \in Node, NEW x \in Node, NEW f \in Frame, PassesUp(n, x, f), NEW v \in Nat, v = f.seq
      PROVE  PastIs(n, x, v)'
  <2>1. Behind(node[x], v)
    BY <1>2, TakenNewer
  <2>2. Behind(node'[x], v)
    BY <2>1, BehindStays
  <2> QED  BY <1>2, <2>2 DEF PastIs, PassesUp
<1>3. ASSUME NEW n \in Node, NEW m \in Node, NEW j \in DOMAIN got'[n][m], NEW w,
             w = got'[n][m][j]
      PROVE  PastIs(n, m, w)'
  <2>1. CASE got'[n][m] = got[n][m]
    <3>1. PICK v \in Nat : v = got[n][m][j]
      BY <1>3, <2>1, GotNat
    <3>2. PastIs(n, m, v)'
      BY <1>1, <1>3, <2>1, <3>1
    <3> QED  BY <1>3, <2>1, <3>1, <3>2
  <2>2. CASE got'[n][m] # got[n][m]
    <3>1. PICK x \in Node, f \in Frame : PassesUp(n, x, f)
      BY <2>2, UpIs
    <3>2. m = x /\ got'[n][m] = Append(got[n][m], f.seq) /\ f.seq \in Nat
      BY <2>2, <3>1 DEF PassesUp
    <3>3. PICK q, p : q \in Seq(Nat) /\ q = got[n][m] /\ p = got'[n][m]
      BY DEF Counts
    <3>4. PICK v \in Nat : v = p[j] /\ (v = f.seq \/ (j \in DOMAIN q /\ v = q[j]))
      <4>1. /\ p \in Seq(Nat) /\ DOMAIN p = 1 .. Len(q) + 1 /\ DOMAIN q = 1 .. Len(q) /\ Len(q) \in Nat
            /\ p[Len(q) + 1] = f.seq /\ \A i \in 1 .. Len(q) : p[i] = q[i]
        BY <3>2, <3>3, AppendIs
      <4>2. j \in 1 .. Len(q) + 1 /\ p[j] \in Nat
        BY <3>3, <4>1
      <4>3. j = Len(q) + 1 \/ j \in 1 .. Len(q)
        BY <4>1, <4>2
      <4>4. p[j] = f.seq \/ (j \in DOMAIN q /\ p[j] = q[j])
        BY <4>1, <4>3
      <4> QED  BY <4>2, <4>4
    <3>5. PastIs(n, m, v)'
      <4>1. CASE v = f.seq
        BY <1>2, <3>1, <3>2, <4>1
      <4>2. CASE j \in DOMAIN q /\ v = q[j]
        BY <1>1, <3>3, <4>2
      <4> QED  BY <3>4, <4>1, <4>2
    <3> QED  BY <1>3, <3>3, <3>4, <3>5
  <2> QED  BY <2>1, <2>2
<1> QED  BY <1>3 DEF Past, PastIs

LEMMA RisingKept ==
  ASSUME NodesInv, AirInv, Counts, Coming, Newer, InOrderOnce, Flow
  PROVE  InOrderOnce'
<1>1. ASSUME NEW n \in Node, NEW m \in Node, NEW i \in DOMAIN got'[n][m], NEW j \in DOMAIN got'[n][m], i < j
      PROVE  got'[n][m][i] < got'[n][m][j]
  <2>1. CASE got'[n][m] = got[n][m]
    BY <1>1, <2>1 DEF InOrderOnce
  <2>2. CASE got'[n][m] # got[n][m]
    <3>1. PICK x \in Node, f \in Frame : PassesUp(n, x, f)
      BY <2>2, UpIs
    <3>2. m = x /\ got'[n][m] = Append(got[n][m], f.seq) /\ f.seq \in Nat
      BY <2>2, <3>1 DEF PassesUp
    <3>3. PICK q, p : q \in Seq(Nat) /\ q = got[n][m] /\ p = got'[n][m]
      BY DEF Counts
    <3>4. /\ p \in Seq(Nat) /\ DOMAIN p = 1 .. Len(q) + 1 /\ DOMAIN q = 1 .. Len(q) /\ Len(q) \in Nat
          /\ p[Len(q) + 1] = f.seq /\ \A k \in 1 .. Len(q) : p[k] = q[k]
      BY <3>2, <3>3, AppendIs
    <3>5. i \in 1 .. Len(q) /\ p[i] = q[i] /\ i \in DOMAIN q /\ (j \in 1 .. Len(q) \/ j = Len(q) + 1)
      <4>1. i \in 1 .. Len(q) + 1 /\ j \in 1 .. Len(q) + 1
        BY <3>3, <3>4
      <4>2. i \in 1 .. Len(q) /\ (j \in 1 .. Len(q) \/ j = Len(q) + 1)
        BY <1>1, <3>4, <4>1
      <4> QED  BY <3>4, <4>2
    <3>6. CASE j \in 1 .. Len(q)
      <4>1. j \in DOMAIN q /\ p[j] = q[j]
        BY <3>4, <3>6
      <4>2. q[i] < q[j]
        BY <1>1, <3>3, <3>5, <4>1 DEF InOrderOnce
      <4> QED  BY <3>3, <3>5, <4>1, <4>2
    <3>7. CASE j = Len(q) + 1
      <4>1. q[i] \in Nat
        BY <3>3, <3>5
      <4>2. q[i] <= f.seq /\ (q[i] = f.seq => node[n].seen[m] = f.seq /\ f.retry)
        BY <3>1, <3>2, <3>3, <3>5, TakenNewer
      <4>3. node[n].seen[m] # f.seq \/ ~ f.retry
        BY <3>1, <3>2 DEF PassesUp
      <4>4. q[i] < f.seq
        BY <3>2, <4>1, <4>2, <4>3
      <4> QED  BY <3>3, <3>4, <3>5, <3>7, <4>4
    <3> QED  BY <3>5, <3>6, <3>7
  <2> QED  BY <2>1, <2>2
<1> QED  BY <1>1 DEF InOrderOnce

LEMMA NewerKept ==
  ASSUME NodesInv, Counts, Owning, Starting, Coming, Newer, Past, Flow,
         \A m \in Node : Later(node[m], node'[m])
  PROVE  Newer'
<1>1. ASSUME NEW m \in Node, NEW f, NEW x, f = node'[m].input, x = node'[m].source, f # None,
             f.type = "DATA"
      PROVE  NewerIs(m, f, x)'
  <2>1. got'[m] = got[m] /\ node'[m].seen = node[m].seen
    BY <1>1, UpIs DEF PassesUp
  <2>2. CASE f = node[m].input /\ x = node[m].source
    <3>1. NewerIs(m, f, x) /\ ComingIs(m, f, x)
      BY <1>1, <2>2 DEF Newer, Coming
    <3>2. /\ x \in Node /\ f.seq \in Nat /\ (InFlight(x, m, f) \/ Over(x, m, f))
      BY <3>1 DEF ComingIs, Frame
    <3>3. Over(x, m, f)' => Behind(node'[x], f.seq)
      <4>1. CASE InFlight(x, m, f)
        BY <3>2, <4>1, FlightBehind DEF Over, OverAt
      <4>2. CASE Over(x, m, f)
        <5>1. PICK v \in Nat : v = f.seq
          BY <3>2
        <5>2. Behind(node[x], v)
          BY <3>1, <4>2, <5>1 DEF NewerIs
        <5> QED  BY <3>2, <5>1, <5>2, BehindStays
      <4> QED  BY <3>2, <4>1, <4>2
    <3> QED  BY <2>1, <3>1, <3>3 DEF NewerIs
  <2>3. CASE ~ (f = node[m].input /\ x = node[m].source)
    <3>1. PICK sig \in wire : /\ sig.to = m /\ sig.from = x /\ x \in Node /\ sig.frame = f
                              /\ node[m].state \in {"Idle", "AwaitACK", "Backoff"}
      BY <1>1, <2>3, InputMoves
    <3>2. InFlight(x, m, f)
      BY <1>1, <3>1 DEF Starting
    <3>3. Over(x, m, f)' => Behind(node'[x], f.seq)
      BY <3>1, <3>2, FlightBehind DEF Over, OverAt
    <3>4. node[x].queue # <<>> /\ f = node[x].queue[1] /\ f.seq \in Nat /\ node[x].state = "Send"
      BY <3>1, <3>2, HeadSent DEF InFlight
    <3>5. ASSUME NEW i \in DOMAIN got[m][x]
          PROVE  got[m][x][i] <= f.seq /\ (got[m][x][i] = f.seq => node[m].seen[x] = f.seq /\ f.retry)
      <4>1. PICK v \in Nat : v = got[m][x][i]
        BY <3>1, <3>5, GotNat
      <4>2. PastIs(m, x, v)
        BY <3>1, <3>5, <4>1 DEF Past
      <4>3. v <= f.seq /\ (v = f.seq => f.retry)
        BY <3>4, <4>2 DEF PastIs, Behind, Await
      <4>4. v = f.seq => node[m].seen[x] = v
        BY <3>4, <4>2 DEF PastIs
      <4> QED  BY <4>1, <4>3, <4>4
    <3> QED  BY <2>1, <3>3, <3>5 DEF NewerIs
  <2> QED  BY <2>2, <2>3
<1> QED  BY <1>1 DEF Newer, NewerIs, Over

-----------------------------------------------------------------------------
\* Time passes: nothing is on the wire, and every timer that runs is nearer to its end.

Nearer(s, t) ==
  /\ t.state = s.state /\ t.queue = s.queue /\ t.sequenceNumber = s.sequenceNumber /\ t.seen = s.seen
  /\ t.timeToSend = s.timeToSend /\ t.idleDest = s.idleDest /\ t.input = s.input /\ t.source = s.source
  /\ t.ackTo = s.ackTo
  /\ \A x \in Timer : /\ s.tmr[x] # Off => s.tmr[x] \in Nat /\ t.tmr[x] = s.tmr[x] - 1
                      /\ t.tmr[x] # Off => s.tmr[x] # Off

LEMMA TickNears ==
  ASSUME NodesInv, Tick, NEW n \in Node
  PROVE  Nearer(node[n], node'[n])
<1>1. PICK s \in NodeState : s = node[n]
  BY AtNode
<1>2. PICK f : f = [x \in Timer |-> IF s.tmr[x] = Off THEN Off ELSE s.tmr[x] - 1]
  OBVIOUS
<1>3. node'[n] = [s EXCEPT !.tmr = f]
  BY <1>1, <1>2 DEF Tick
<1>4. PICK t : t = node'[n]
  OBVIOUS
<1>5. t.tmr = f
  BY <1>3, <1>4 DEF NodeState
<1>6. ASSUME NEW x \in Timer
      PROVE  /\ s.tmr[x] # Off => s.tmr[x] \in Nat /\ t.tmr[x] = s.tmr[x] - 1
             /\ t.tmr[x] # Off => s.tmr[x] # Off
  <2>1. s.tmr[x] \in Nat \cup {Off}
    BY Fields
  <2>2. t.tmr[x] = IF s.tmr[x] = Off THEN Off ELSE s.tmr[x] - 1
    BY <1>2, <1>5
  <2> QED  BY <2>1, <2>2
<1>7. /\ t.state = s.state /\ t.queue = s.queue /\ t.sequenceNumber = s.sequenceNumber
      /\ t.seen = s.seen /\ t.timeToSend = s.timeToSend /\ t.idleDest = s.idleDest
      /\ t.input = s.input /\ t.source = s.source /\ t.ackTo = s.ackTo
  BY <1>3, <1>4 DEF NodeState
<1> QED  BY <1>1, <1>4, <1>6, <1>7 DEF Nearer

LEMMA NearerDue ==
  ASSUME NEW s, NEW t, Nearer(s, t), NEW k \in Nat, NEW g, DueAt(s, k, g)
  PROVE  DueAt(t, k - 1, g)
<1>1. ASSUME s.state = "Backoff"  PROVE t.tmr["backoff"] > k - 1
  <2>1. s.tmr["backoff"] > k
    BY <1>1 DEF DueAt
  <2>2. s.tmr["backoff"] # Off
    BY <2>1 DEF Off
  <2>3. s.tmr["backoff"] \in Nat /\ t.tmr["backoff"] = s.tmr["backoff"] - 1
    BY <2>2 DEF Nearer, Timer
  <2> QED  BY <2>1, <2>3
<1> QED  BY <1>1 DEF DueAt, Nearer

LEMMA TickKeepsDelivery ==
  ASSUME NodesInv, Tick, Delivery
  PROVE  Delivery'
<1>1. wire = {} /\ wire' = {} /\ got' = got /\ acked' = acked
  BY DEF Tick
<1>2. \A n \in Node : Nearer(node[n], node'[n])
  BY TickNears
<1>3. Owning'
  BY <1>2 DEF Delivery, Owning, Owner, Nearer, SlotRight, Counted
<1>4. Starting'
  BY <1>1 DEF Starting
<1>5. Coming'
  <2>1. ASSUME NEW m \in Node, NEW f, NEW x, f = node'[m].input, x = node'[m].source, f # None,
               f.type = "DATA"
        PROVE  ComingIs(m, f, x)'
    <3>1. f = node[m].input /\ x = node[m].source
      BY <1>2, <2>1 DEF Nearer
    <3>2. ComingIs(m, f, x)
      BY <2>1, <3>1 DEF Delivery, Coming
    <3>3. InFlight(x, m, f) /\ x \in Node
      BY <1>1, <3>2 DEF ComingIs, Over
    <3>4. InFlight(x, m, f)'
      BY <1>2, <3>3 DEF InFlight, Nearer
    <3> QED  BY <3>2, <3>4 DEF ComingIs
  <2> QED  BY <2>1 DEF Coming, ComingIs, InFlight, Over
<1>6. AckDue'
  <2>1. ASSUME NEW m \in Node, node'[m].tmr["sendAck"] # Off
        PROVE  /\ node'[m].ackTo \in Node /\ node'[m].tmr["sendAck"] <= SIFS
               /\ DueAt(node'[node'[m].ackTo], node'[m].tmr["sendAck"], got')
    <3>1. PICK x, k : x = node[m].ackTo /\ k = node[m].tmr["sendAck"]
      OBVIOUS
    <3>2. k # Off /\ k \in Nat /\ node'[m].tmr["sendAck"] = k - 1 /\ node'[m].ackTo = x
      BY <1>2, <2>1, <3>1 DEF Nearer, Timer
    <3>3. x \in Node /\ k <= SIFS /\ DueAt(node[x], k, got)
      BY <3>1, <3>2 DEF Delivery, AckDue
    <3>4. DueAt(node'[x], k - 1, got)
      BY <1>2, <3>2, <3>3, NearerDue
    <3>5. k - 1 <= SIFS
      BY <3>2, <3>3, ParamAssumption
    <3> QED  BY <1>1, <3>2, <3>3, <3>4, <3>5
  <2> QED  BY <2>1 DEF AckDue
<1>7. AckIn'
  BY <1>1, <1>2 DEF Delivery, AckIn, Nearer
<1>8. SeenIn' /\ AckedIn'
  BY <1>1, <1>2 DEF Delivery, SeenIn, AckedIn, Nearer
<1> QED  BY <1>3, <1>4, <1>5, <1>6, <1>7, <1>8 DEF Delivery

LEMMA TickKeepsOrder ==
  ASSUME NodesInv, Tick, Order
  PROVE  Order'
<1>1. wire = {} /\ wire' = {} /\ got' = got
  BY DEF Tick
<1>2. \A n \in Node : Nearer(node[n], node'[n])
  BY TickNears
<1>3. Past'
  BY <1>1, <1>2 DEF Order, Past, PastIs, Behind, Nearer
<1>4. Newer'
  <2>1. ASSUME NEW m \in Node, NEW f, NEW x, f = node'[m].input, x = node'[m].source, f # None,
               f.type = "DATA"
        PROVE  NewerIs(m, f, x)'
    <3>1. f = node[m].input /\ x = node[m].source /\ node'[m].seen = node[m].seen
      BY <1>2, <2>1 DEF Nearer
    <3>2. NewerIs(m, f, x)
      BY <2>1, <3>1 DEF Order, Newer
    <3> QED  BY <1>1, <3>1, <3>2 DEF NewerIs, Over
  <2> QED  BY <2>1 DEF Newer, NewerIs, Over
<1>5. InOrderOnce'
  BY <1>1 DEF Order, InOrderOnce
<1> QED  BY <1>3, <1>4, <1>5 DEF Order

-----------------------------------------------------------------------------
\* The invariant, and what follows from it.

LEMMA TickSame ==
  ASSUME Tick, Counts
  PROVE  Counts'
  BY DEF Tick, Counts

LEMMA InitCounts ==
  ASSUME Init
  PROVE  Counts
<1>1. got = [n \in Node |-> [m \in Node |-> <<>>]]
  BY DEF Init
<1> QED  BY <1>1 DEF Counts

LEMMA CountsKept ==
  ASSUME NodesInv, Counts, [Next]_vars
  PROVE  Counts'
<1>1. CASE Flow
  BY <1>1 DEF Flow, Counts
<1> QED  BY <1>1, StepFlows, TickSame

LEMMA CountsHold ==
  Spec => []Counts
<1>1. Init => Counts
  BY InitCounts
<1>2. NodesInv /\ Counts /\ [Next]_vars => Counts'
  BY CountsKept
<1> QED  BY <1>1, <1>2, NodesAreRight, PTL DEF Spec

LEMMA InitFresh ==
  ASSUME Init, NEW n \in Node
  PROVE  /\ node[n].state = "Idle" /\ node[n].queue = <<>> /\ node[n].timeToSend = 0
         /\ node[n].input = None /\ node[n].sequenceNumber = 1
         /\ node[n].tmr["sendAck"] = Off /\ \A m \in Node : node[n].seen[m] = 0
<1>1. node[n] = Fresh
  BY DEF Init
<1> QED  BY <1>1 DEF Fresh, Timer

LEMMA InitDelivery ==
  ASSUME Init
  PROVE  Delivery
<1>1. wire = {} /\ acked = {}
  BY DEF Init
<1>2. Owning
  BY InitFresh DEF Owning, Owner, Owns, SlotRight, Counted, Numbered
<1>3. Starting /\ AckedIn
  BY <1>1 DEF Starting, AckedIn
<1>4. Coming /\ AckDue /\ AckIn /\ SeenIn
  BY InitFresh DEF Coming, AckDue, AckIn, SeenIn
<1> QED  BY <1>2, <1>3, <1>4 DEF Delivery

LEMMA InitOrder ==
  ASSUME Init
  PROVE  Order
<1>1. \A n, m \in Node : got[n][m] = <<>>
  BY DEF Init
<1>2. Past
  BY <1>1 DEF Past
<1>3. Newer
  BY InitFresh DEF Newer
<1>4. InOrderOnce
  BY <1>1 DEF InOrderOnce
<1> QED  BY <1>2, <1>3, <1>4 DEF Order

LEMMA DeliveryKept ==
  ASSUME NodesInv, NodesInv', AirInv, Counts, Unwrapped', Delivery, [Next]_vars
  PROVE  Delivery'
<1>1. CASE Flow
  <2>1. Owning'
    BY <1>1, OwningKept DEF Delivery
  <2>2. Starting' /\ Coming'
    BY <1>1, StartingKept, ComingKept DEF Delivery
  <2>3. SeenIn'
    BY <1>1, SeenInKept DEF Delivery
  <2>4. AckDue'
    BY <1>1, <2>3, AckDueKept DEF Delivery
  <2>5. AckIn' /\ AckedIn'
    BY <1>1, AckInKept, AckedInKept DEF Delivery
  <2> QED  BY <2>1, <2>2, <2>3, <2>4, <2>5 DEF Delivery
<1>2. CASE Tick
  BY <1>2, TickKeepsDelivery
<1> QED  BY <1>1, <1>2, StepFlows

LEMMA OrderKept ==
  ASSUME NodesInv, AirInv, Counts, Unwrapped', Delivery, Order, [Next]_vars
  PROVE  Order'
<1>1. CASE Flow
  <2>1. \A m \in Node : Later(node[m], node'[m])
    BY <1>1, OwningKept DEF Delivery
  <2>2. Past'
    BY <1>1, <2>1, PastKept DEF Delivery, Order
  <2>3. InOrderOnce'
    BY <1>1, RisingKept DEF Delivery, Order
  <2>4. Newer'
    BY <1>1, <2>1, NewerKept DEF Delivery, Order
  <2> QED  BY <2>2, <2>3, <2>4 DEF Order
<1>2. CASE Tick
  BY <1>2, TickKeepsOrder
<1> QED  BY <1>1, <1>2, StepFlows

LEMMA DeliveryHolds ==
  Spec /\ []Unwrapped => []Delivery
<1>1. Init => Delivery
  BY InitDelivery
<1>2. NodesInv /\ NodesInv' /\ AirInv /\ Counts /\ Unwrapped' /\ Delivery /\ [Next]_vars => Delivery'
  BY DeliveryKept
<1> QED  BY <1>1, <1>2, NodesAreRight, AirIsRight, CountsHold, PTL DEF Spec

\* A frame that its sender takes for acknowledged has been received by the node that it was sent
\* to, whatever is lost, collides or is repeated and whoever hears whom, as long as no node
\* comes to the end of its sequence numbers: the node that awaits the acknowledgement and the
\* one that sends it agree on the frame, since nobody takes a turn within SIFS.
THEOREM AcksMeanReceived ==
  Spec /\ []Unwrapped => []AckMeansReceived
<1>1. Delivery => AckMeansReceived
  BY DEF Delivery, AckedIn, AckMeansReceived, Received
<1> QED  BY <1>1, DeliveryHolds, PTL

\* What a receiver passes up from one sender is in the order in which it was queued, and each
\* frame once, although frames are repeated when their acknowledgement is lost and the oldest
\* of those that wait is thrown away; as long as the sequence numbers do not start again.
THEOREM OrderIsKept ==
  Spec /\ []Unwrapped => []InOrderOnce
<1>1. Init => Order
  BY InitOrder
<1>2. NodesInv /\ AirInv /\ Counts /\ Unwrapped' /\ Delivery /\ Order /\ [Next]_vars => Order'
  BY OrderKept
<1>3. Order => InOrderOnce
  BY DEF Order
<1> QED  BY <1>1, <1>2, <1>3, NodesAreRight, AirIsRight, CountsHold, DeliveryHolds, PTL DEF Spec

================================================================================
