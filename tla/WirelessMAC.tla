------------------------------ MODULE WirelessMAC ------------------------------
(***************************************************************************)
(* The 802.11 medium access of an access point and the stations that are   *)
(* associated with it, NetworkInterfaces/Wireless: the state classes       *)
(* WirelessEtherState*.cc, the data mode of both receivers and the single  *)
(* queue WESingleQueue.cc.                                                 *)
(*                                                                         *)
(* Time is counted; a signal arrives before time passes on, and what is    *)
(* due at one time happens in any order.  A frame is in the air from the   *)
(* signal that starts it to the one that ends it, and a node hears only    *)
(* those in range: two stations may be hidden from each other.             *)
(*                                                                         *)
(* Left out: scanning, authentication, association and its expiry (all     *)
(* stations stay associated and in range, on one channel), beacons, the    *)
(* QoS queue, the access point's count of consecutive failures (it ends an *)
(* association), statistics.                                               *)
(***************************************************************************)
EXTENDS Integers, Sequences, FiniteSets

CONSTANTS
  MS, AP,             \* the mobile stations and the access point
  Hears,              \* per node, the nodes that it hears and that hear it
  Wired,              \* a destination behind the access point's bridge
  Broadcast,
  None,
  SIFS, SLOTTIME, DIFS, RXTXTURNAROUND,
  DATATIME, ACKTIME,  \* how long a frame and an acknowledgement are in the air
  CW_MIN, CWmax, retryLimit, maxQueueSize,
  Traffic,            \* per node, the destinations its upper layer sends to
  MaxFrames           \* how many frames the upper layer of each node sends

Node == MS \cup {AP}

\* addr1: the receiver; addr2: the sender; addr3: where the frame comes from or goes to,
\* behind the access point.
Frame == [type : {"DATA"}, addr1 : Node \cup {Broadcast}, addr2 : Node,
          addr3 : Node \cup {Wired, Broadcast}, seq : Nat, retry : BOOLEAN]

AckFrame == [type : {"ACK"}, addr1 : Node \cup {None}]

ASSUME ParamAssumption ==
  /\ IsFiniteSet(MS) /\ None \notin Node \cup Frame \cup AckFrame
  /\ AP \notin MS /\ Wired \notin Node /\ Broadcast \notin Node \cup {Wired}
  /\ Hears \in [Node -> SUBSET Node]
  /\ \A n \in Node : n \notin Hears[n] /\ \A m \in Hears[n] : n \in Hears[m]
  /\ \A p \in {SIFS, SLOTTIME, DIFS, RXTXTURNAROUND, ACKTIME, maxQueueSize} : p \in Nat \ {0}
  /\ DATATIME \in Nat /\ DATATIME > SLOTTIME
  /\ CW_MIN \in Nat /\ CWmax \in Nat /\ CW_MIN <= CWmax
  /\ retryLimit \in Nat
  /\ MaxFrames \in [Node -> Nat]
  /\ Traffic[AP] \subseteq MS \cup {Broadcast}
  /\ \A n \in MS : Traffic[n] \subseteq (MS \ {n}) \cup {Wired, Broadcast}

\* An acknowledgement goes out before another node may take its turn.
ASSUME TimesAssumption == SIFS < DIFS

VARIABLES
  node,    \* the state of each WirelessEtherModule
  wire,    \* the signals that have not arrived yet
  made,    \* how many frames each upper layer has sent
  got,     \* per receiver and sender, the sequence numbers of the frames passed up or on
  acked    \* the frames that were taken from a queue because of an acknowledgement

vars == <<node, wire, made, got, acked>>

Off == -1

Timer == {"backoff", "awaitAck", "sendAck", "endSendAck", "endSendData"}

State == {"Idle", "Send", "Backoff", "Receive", "BackoffReceive", "AwaitACK", "AwaitACKReceive"}

\* ok: no assertion has failed; ackTo: whom the scheduled acknowledgement is for;
\* seen: the last sequence number received from each node; idleDest: who is hearing
\* a frame of this node; queue: the ready frame and the waiting ones.
Fresh ==
  [ok |-> TRUE, state |-> "Idle", queue |-> <<>>, retry |-> 0, timeToSend |-> 0,
   rx |-> 0, input |-> None, source |-> None, ackReceived |-> FALSE, ackTo |-> None,
   tmr |-> [t \in Timer |-> Off], sequenceNumber |-> 1, seen |-> [m \in Node |-> 0],
   idleDest |-> {}]

Signal(from, to, f) == [from |-> from, to |-> to, frame |-> f]

-----------------------------------------------------------------------------
(***************************************************************************)
(* Functions of a node's state.  One that draws the number of back-off     *)
(* slots returns the set of the states it may lead to.                     *)
(***************************************************************************)

\* assert(p)
Asserted(s, p) == [s EXCEPT !.ok = @ /\ p]

createFrame(n, s, source, destination) ==
  [type |-> "DATA", addr1 |-> IF n = AP THEN destination ELSE AP,
   addr2 |-> IF n = AP THEN AP ELSE source, addr3 |-> IF n = AP THEN source ELSE destination,
   seq |-> s.sequenceNumber, retry |-> FALSE]

\* When too many frames wait the oldest of them is lost, never the ready one.
insertFrame(s, f) ==
  [s EXCEPT !.queue = IF Len(@) <= maxQueueSize THEN Append(@, f)
                      ELSE <<Head(@)>> \o Append(SubSeq(@, 3, Len(@)), f)]

incrementSequenceNumber(s) == [s EXCEPT !.sequenceNumber = (@ + 1) % 4096]

prepareNextFrame(s) ==
  [s EXCEPT !.queue = IF @ = <<>> THEN <<>> ELSE Tail(@), !.retry = 0, !.timeToSend = 0]

\* The contention window after r retries.
CW[r \in 0..retryLimit] ==
  IF r = 0 THEN CW_MIN ELSE IF CW[r - 1] < CWmax THEN 2 * CW[r - 1] + 1 ELSE CW[r - 1]

\* getTimeToSend draws the slots unless an interrupted wait goes on.
TimeToSend(s) ==
  IF s.timeToSend # 0 THEN {s.timeToSend} ELSE {DIFS + k * SLOTTIME : k \in 0..CW[s.retry]}

StartBackoff(s) ==
  {[Asserted(s, s.tmr["backoff"] = Off /\ s.queue # <<>>)
      EXCEPT !.state = "Backoff", !.timeToSend = t, !.tmr["backoff"] = t] : t \in TimeToSend(s)}

\* The whole slots that have passed after DIFS are not waited for again.
contentionInterrupted(s) ==
  LET elapsed == s.timeToSend - s.tmr["backoff"]
  IN  [Asserted(s, s.timeToSend > 0)
         EXCEPT !.timeToSend = IF elapsed > DIFS
                               THEN @ - ((elapsed - DIFS) \div SLOTTIME) * SLOTTIME ELSE @]

\* The node is idle and sends if there is something to send.
chkOutputBuffer(s) ==
  LET idle == [s EXCEPT !.state = "Idle"]
  IN  IF s.queue = <<>> THEN {idle} ELSE StartBackoff(idle)

\* Mutant: the node leaves the receiving state for Idle, whatever it had interrupted.
changeNextState_Idle(s) == {[s EXCEPT !.state = "Idle"]}

\* Receive ends in Idle, BackoffReceive goes on with the interrupted wait.
changeNextState(s) ==
  IF s.state = "BackoffReceive" THEN StartBackoff(s)
  ELSE chkOutputBuffer(Asserted(s, s.state = "Receive"))

decNoOfRxFrames(s) == IF s.rx > 0 THEN [s EXCEPT !.rx = @ - 1] ELSE [s EXCEPT !.input = None]

\* A frame begins to arrive at a node that can take it in.
TakeIn(s, sig, next) ==
  [Asserted(s, s.tmr["backoff"] = Off /\ s.input = None)
     EXCEPT !.input = sig.frame, !.source = sig.from, !.state = next]

scheduleAck(s, to) ==
  [Asserted(s, s.tmr["sendAck"] = Off) EXCEPT !.ackTo = to, !.tmr["sendAck"] = SIFS]

initiateRetry(s) ==
  [s EXCEPT !.queue[1].retry = TRUE, !.retry = @ + 1, !.timeToSend = 0]

endAwaitACK(s) ==
  LET t == [s EXCEPT !.input = None]
  IN  IF t.rx > 0 THEN {[t EXCEPT !.state = "AwaitACKReceive"]}
      ELSE IF t.queue = <<>> THEN {Asserted(t, FALSE)}
      ELSE IF t.retry + 1 > retryLimit THEN chkOutputBuffer(prepareNextFrame(t))
      ELSE StartBackoff(initiateRetry(t))

finishFrameTx(s) ==
  [prepareNextFrame(Asserted(s, s.queue # <<>>)) EXCEPT !.ackReceived = TRUE]

-----------------------------------------------------------------------------
(* What the upper layer does.                                              *)

Running == \A n \in Node : node[n].ok

\* The simulation goes on with node n in state s and these signals on the wire.
Becomes(n, s, signals) == node' = [node EXCEPT ![n] = s] /\ wire' = signals

\* The upper layer of a station, or the bridge of the access point, sends a frame.  The
\* access point has a receiveData of its own (WirelessAccessPoint.cc:383), which also
\* renews the association and otherwise does the same.
receiveData(n) ==
  /\ Running
  /\ made[n] < MaxFrames[n]
  /\ \E to \in Traffic[n] :
       LET f == createFrame(n, node[n], IF n = AP THEN Wired ELSE n, to)
           s == insertFrame(incrementSequenceNumber(node[n]), f)
       IN  \E t \in IF s.state = "Idle" THEN chkOutputBuffer(s) ELSE {s} : Becomes(n, t, wire)
  /\ made' = [made EXCEPT ![n] = @ + 1]
  /\ UNCHANGED <<got, acked>>

-----------------------------------------------------------------------------
(* The start of a frame, WESignalData.                                     *)

\* A signal arrives at n, in one of these states.
Arrives(sig, states) == Running /\ sig \in wire /\ node[sig.to].state \in states

Data(sig, states) == Arrives(sig, states) /\ sig.frame # None

End(sig, states) == Arrives(sig, states) /\ sig.frame = None

Heard(n) == [node[n] EXCEPT !.rx = @ + 1]

processData(sig, s) == Becomes(sig.to, s, wire \ {sig}) /\ UNCHANGED <<made, got, acked>>

IdleData(sig) ==
  Data(sig, {"Idle"}) /\ processData(sig, TakeIn(Heard(sig.to), sig, "Receive"))

AwaitACKData(sig) ==
  Data(sig, {"AwaitACK"}) /\ processData(sig, TakeIn(Heard(sig.to), sig, "AwaitACKReceive"))

\* The wait is interrupted, unless it is too late to turn around.
BackoffData(sig) ==
  LET s == Heard(sig.to)
      wait == s.tmr["backoff"]
  IN  /\ Data(sig, {"Backoff"})
      /\ processData(sig,
           IF wait = Off THEN Asserted(s, FALSE)
           ELSE IF wait < RXTXTURNAROUND THEN [s EXCEPT !.source = sig.from]
           ELSE TakeIn([contentionInterrupted(s) EXCEPT !.tmr["backoff"] = Off], sig, "BackoffReceive"))

SendData(sig) == Data(sig, {"Send"}) /\ processData(sig, Heard(sig.to))

Collision(sig) ==
  /\ Data(sig, {"Receive", "BackoffReceive", "AwaitACKReceive"})
  /\ processData(sig, [Heard(sig.to) EXCEPT !.input = None])

-----------------------------------------------------------------------------
(* The end of a frame, WESignalIdle.                                       *)

OtherIdle(sig) ==
  /\ End(sig, {"Idle", "Backoff", "Send", "AwaitACK"})
  /\ processData(sig, decNoOfRxFrames(node[sig.to]))

NoInput(s) == [s EXCEPT !.input = None]

\* Mutant: the node does not wait for its own acknowledgement to be sent.
ReceiveNothing_NoWait(sig) ==
  LET s == decNoOfRxFrames(node[sig.to])
  IN  /\ End(sig, {"Receive", "BackoffReceive"})
      /\ s.input = None \/ s.source # sig.from
      /\ \E t \in IF s.input = None /\ s.rx = 0 THEN changeNextState(s) ELSE {NoInput(s)} :
           processData(sig, t)

\* The node was receiving nothing it could use, or the input belongs to another sender.
ReceiveNothing(sig) ==
  LET s == decNoOfRxFrames(node[sig.to])
      free == s.rx = 0 /\ s.tmr["endSendAck"] = Off /\ s.tmr["sendAck"] = Off
  IN  /\ End(sig, {"Receive", "BackoffReceive"})
      /\ s.input = None \/ s.source # sig.from
      /\ \E t \in IF s.input = None /\ free THEN changeNextState(s) ELSE {NoInput(s)} :
           processData(sig, t)

\* The frame of sig's sender has been received whole.
Whole(sig, s) == End(sig, {"Receive", "BackoffReceive"}) /\ s.input # None /\ s.source = sig.from

\* The error rate makes the node lose a frame.
ReceiveError(sig) ==
  LET s == decNoOfRxFrames(node[sig.to])
  IN  /\ Whole(sig, s)
      /\ \E t \in changeNextState(s) : processData(sig, NoInput(t))

\* Mutant: a frame is new whenever it was not repeated, and when it was.
IsNew_Always(s, f) == TRUE

\* A frame that was received before is known by its number and the retry flag.
IsNew(s, f) == s.seen[f.addr2] # f.seq \/ ~f.retry

isFrameForMe(n, f) == f.addr1 \in {n, Broadcast}

\* A station takes what its access point sends it; a repeated frame is not acknowledged.
StationTakes(n, s, f) == isFrameForMe(n, f) /\ f.addr2 = AP /\ f.addr3 # n /\ IsNew(s, f)

StationData(sig) ==
  LET n == sig.to
      s == decNoOfRxFrames(node[n])
      f == s.input
      t == [s EXCEPT !.seen[AP] = f.seq]
  IN  /\ n \in MS /\ Whole(sig, s) /\ f.type = "DATA"
      /\ \E u \in IF StationTakes(n, s, f) /\ f.addr1 # Broadcast THEN {scheduleAck(t, f.addr2)}
                  ELSE changeNextState(IF StationTakes(n, s, f) THEN t ELSE s) :
           Becomes(n, NoInput(u), wire \ {sig})
      /\ got' = IF StationTakes(n, s, f) THEN [got EXCEPT ![n][AP] = Append(@, f.seq)] ELSE got
      /\ UNCHANGED <<made, acked>>

\* A frame for another station or for all goes out again; the bridge gets the rest.
Forward(s, f) ==
  LET t == incrementSequenceNumber(s)
  IN  IF f.addr3 = Wired THEN t ELSE insertFrame(t, createFrame(AP, s, f.addr2, f.addr3))

\* The access point acknowledges every frame for it, and passes on the new ones.
AccessPointData(sig) ==
  LET s == decNoOfRxFrames(node[AP])
      f == s.input
      t == scheduleAck(s, f.addr2)
      new == isFrameForMe(AP, f) /\ IsNew(s, f)
  IN  /\ sig.to = AP /\ Whole(sig, s) /\ f.type = "DATA"
      /\ \E u \in IF isFrameForMe(AP, f)
                  THEN {IF new THEN Forward([t EXCEPT !.seen[f.addr2] = f.seq], f) ELSE t}
                  ELSE changeNextState(s) : Becomes(AP, NoInput(u), wire \ {sig})
      /\ got' = IF new THEN [got EXCEPT ![AP][f.addr2] = Append(@, f.seq)] ELSE got
      /\ UNCHANGED <<made, acked>>

\* Mutant: any acknowledgement will do.
IsMyAck_Any(n, s) == s.input.type = "ACK"

\* An acknowledgement for n, which awaits one: the station goes by its state, the access
\* point by its timer.
IsMyAck(n, s) ==
  /\ s.input.type = "ACK" /\ s.input.addr1 = n
  /\ IF n = AP THEN s.tmr["awaitAck"] # Off ELSE s.state = "AwaitACKReceive"

Finished(s) == finishFrameTx([s EXCEPT !.tmr["awaitAck"] = Off])

Acked(s) == acked \cup {s.queue[i] : i \in DOMAIN s.queue \cap {1}}

\* An acknowledgement is heard while the node waits for none, or is for another.
ReceiveAck(sig) ==
  LET n == sig.to
      s == decNoOfRxFrames(node[n])
  IN  /\ Whole(sig, s) /\ s.input.type = "ACK"
      /\ \E t \in IF IsMyAck(n, s) THEN {Finished(s)} ELSE changeNextState(s) :
           Becomes(n, NoInput(t), wire \ {sig})
      /\ acked' = IF IsMyAck(n, s) THEN Acked(s) ELSE acked
      /\ UNCHANGED <<made, got>>

\* While an acknowledgement is awaited only acknowledgements are decoded; any other frame
\* that is received whole ends the wait.
AwaitACKReceiveIdle(sig) ==
  LET n == sig.to
      s == decNoOfRxFrames(node[n])
      whole == s.input # None /\ s.source = sig.from
      mine == whole /\ IsMyAck(n, s)
      awaiting == s.tmr["awaitAck"] # Off
      next == IF mine THEN chkOutputBuffer(Finished(s))
              ELSE IF whole /\ s.ackReceived THEN chkOutputBuffer(s)
              ELSE IF (whole /\ awaiting) \/ (s.input = None /\ ~awaiting /\ s.rx = 0)
              THEN endAwaitACK([s EXCEPT !.tmr["awaitAck"] = Off, !.state = "AwaitACK"])
              ELSE {s}
  IN  /\ End(sig, {"AwaitACKReceive"})
      /\ \E t \in next : Becomes(n, NoInput(t), wire \ {sig})
      /\ acked' = IF mine THEN Acked(s) ELSE acked
      /\ UNCHANGED <<made, got>>

-----------------------------------------------------------------------------
(* Timers.                                                                 *)

Expires(n, t) == Running /\ node[n].tmr[t] = 0

Expired(n, t) == [node[n] EXCEPT !.tmr[t] = Off]

\* The same with the end of the frame sent, which comes first.
Ended(n, t) == [Expired(n, t) EXCEPT !.idleDest = {}]

\* A frame of n starts to reach those in range, which n remembers to send them its end.
sendFrame(n, s, f) ==
  /\ Becomes(n, [s EXCEPT !.idleDest = Hears[n]], wire \cup {Signal(n, m, f) : m \in Hears[n]})
  /\ UNCHANGED <<made, got, acked>>

\* Those that were sent the start of the frame, and no others, get its end.
sendEndOfFrame(n, s) ==
  /\ Becomes(n, s, wire \cup {Signal(n, m, None) : m \in node[n].idleDest})
  /\ UNCHANGED <<made, got, acked>>

readyToSend(n) ==
  LET s == Expired(n, "backoff")
  IN  /\ Expires(n, "backoff")
      /\ IF s.queue = <<>> THEN sendEndOfFrame(n, Asserted(s, FALSE))
         ELSE sendFrame(n, [s EXCEPT !.state = "Send", !.tmr["endSendData"] = DATATIME], Head(s.queue))

\* Mutant: a node that has sent a broadcast frame is idle, whatever it hears.
handleSendingBcastFrame_Idle(s) == chkOutputBuffer(prepareNextFrame(s))

\* Nobody acknowledges a broadcast frame.
handleSendingBcastFrame(s) ==
  LET t == prepareNextFrame(Asserted(s, s.retry = 0))
  IN  IF t.rx > 0 THEN {[t EXCEPT !.state = "Receive"]} ELSE chkOutputBuffer(t)

AwaitTime == SIFS + SLOTTIME + ACKTIME

\* The node waits for the acknowledgement, with a timer unless the medium is busy.
AwaitAck(s) ==
  LET t == [s EXCEPT !.ackReceived = FALSE]
  IN  IF t.rx > 0 THEN [t EXCEPT !.state = "AwaitACKReceive"]
      ELSE [t EXCEPT !.state = "AwaitACK", !.tmr["awaitAck"] = AwaitTime]

endSendingData(n) ==
  LET s == Ended(n, "endSendData")
  IN  /\ Expires(n, "endSendData")
      /\ \E t \in IF s.queue = <<>> THEN {s}
                  ELSE IF Head(s.queue).addr1 = Broadcast THEN handleSendingBcastFrame(s)
                  ELSE {AwaitAck(s)} : sendEndOfFrame(n, t)

awaitAckTimeout(n) ==
  /\ Expires(n, "awaitAck")
  /\ \E t \in endAwaitACK(Expired(n, "awaitAck")) : Becomes(n, t, wire)
  /\ UNCHANGED <<made, got, acked>>

sendAck(n) ==
  LET s == Expired(n, "sendAck")
  IN  /\ Expires(n, "sendAck")
      /\ sendFrame(n, [Asserted(s, s.tmr["endSendAck"] = Off)
                         EXCEPT !.tmr["endSendAck"] = ACKTIME, !.ackTo = None],
                   [type |-> "ACK", addr1 |-> s.ackTo])

endSendingAck(n) ==
  LET s == Ended(n, "endSendAck")
  IN  /\ Expires(n, "endSendAck")
      /\ \E t \in IF s.rx = 0 THEN changeNextState(s) ELSE {s} : sendEndOfFrame(n, t)

\* Time passes when nothing is due and something is to come.
Tick ==
  /\ Running /\ wire = {}
  /\ \A n \in Node, t \in Timer : node[n].tmr[t] # 0
  /\ \E n \in Node, t \in Timer : node[n].tmr[t] # Off
  /\ node' = [n \in Node |->
                [node[n] EXCEPT !.tmr = [t \in Timer |-> IF @[t] = Off THEN Off ELSE @[t] - 1]]]
  /\ UNCHANGED <<wire, made, got, acked>>

-----------------------------------------------------------------------------

Init ==
  /\ node = [n \in Node |-> Fresh]
  /\ wire = {}
  /\ made = [n \in Node |-> 0]
  /\ got = [n \in Node |-> [m \in Node |-> <<>>]]
  /\ acked = {}

\* What the simulator does: signals arrive, timers expire, time passes.
Event ==
  \/ \E sig \in wire :
       \/ IdleData(sig) \/ AwaitACKData(sig) \/ BackoffData(sig) \/ SendData(sig) \/ Collision(sig)
       \/ OtherIdle(sig) \/ ReceiveNothing(sig) \/ ReceiveError(sig) \/ StationData(sig)
       \/ AccessPointData(sig) \/ ReceiveAck(sig) \/ AwaitACKReceiveIdle(sig)
  \/ \E n \in Node :
       readyToSend(n) \/ endSendingData(n) \/ awaitAckTimeout(n) \/ sendAck(n) \/ endSendingAck(n)
  \/ Tick

Next == Event \/ \E n \in Node : receiveData(n)

Spec == Init /\ [][Next]_vars

FairSpec == Spec /\ WF_vars(Event)

-----------------------------------------------------------------------------

\* No assertion of the handlers fails: a timer expires, a frame starts or ends only in
\* a state in which its handler may run (WirelessEtherModule::handleMessage has
\* "FIXME TODO assert that state is really the one assumed").
NoAssertionFails == Running

\* Every node's count of the frames it hears is right, although frames start and end
\* while it sends, waits or receives, and it is Idle, waits to send or for an
\* acknowledgement only when it hears none - except for a frame that began when it
\* was too late to turn around.
MediumSensed ==
  \A n \in Node :
    LET s == node[n]
        inAir == Cardinality({m \in Node : n \in node[m].idleDest})
        starts == Cardinality({sig \in wire : sig.to = n /\ sig.frame # None})
        ends == Cardinality({sig \in wire : sig.to = n /\ sig.frame = None})
    IN  /\ s.rx + starts = inAir + ends
        /\ s.state \in {"Idle", "AwaitACK"} => s.rx = 0
        /\ s.state = "Backoff" /\ s.rx > 0 => s.tmr["backoff"] < RXTXTURNAROUND

\* A receiver passes up the frames of a sender in the order in which they were queued,
\* and each once, although frames and acknowledgements collide and are repeated.
InOrderOnce ==
  \A n, m \in Node : \A i, j \in DOMAIN got[n][m] : i < j => got[n][m][i] < got[n][m][j]

\* A frame that its sender takes for acknowledged has been received by the node it was
\* sent to: no acknowledgement of another frame or to another node is taken for it.
AckMeansReceived ==
  \A f \in acked : \E i \in DOMAIN got[f.addr1][f.addr2] : got[f.addr1][f.addr2][i] = f.seq

\* The medium becomes quiet again: every frame is sent or given up, and no node stays in
\* a state in which it waits for something that does not come.
MediumQuiet ==
  []<>(wire = {} /\ \A n \in Node : node[n].state = "Idle" /\ node[n].queue = <<>> /\ node[n].rx = 0)

================================================================================
