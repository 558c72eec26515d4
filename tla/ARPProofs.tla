------------------------------- MODULE ARPProofs -------------------------------
(***************************************************************************)
(* What ARP keeps true, and that it implements NextHopQueues, for every    *)
(* value of the constants.                                                 *)
(***************************************************************************)
EXTENDS ARP, SequenceTheorems, TLAPS

\* What must be true of the entry e for address a, whose timer is scheduled if t.
SoundEntry(e, t, a) ==
  /\ e # None => e.numRetries = 0 \/ e.numRetries < retryCount
  /\ t <=> e # None /\ e.pending
  /\ e # None => (e.pending <=> e.pendingPackets # <<>>)
  /\ e # None /\ ~ e.pending => e.macAddress # None /\ addressRecognized(e.macAddress, a)

Typed ==
  /\ arpCache \in [Host -> [Addr -> Entry \cup {None}]]
  /\ timers \in [Host -> SUBSET Addr]
  /\ msgs \subseteq ARPPacket
  /\ handed \in [Channel -> Nat]
  /\ sent \in [Channel -> Seq(Nat)]

\* Every message in flight comes from a host that answers for the address it names.
TrueMessages == \A m \in msgs : addressRecognized(m.srcMAC, m.srcIP)

IInv ==
  /\ Typed
  /\ \A h \in Host, a \in Addr : SoundEntry(arpCache[h][a], a \in timers[h], a)
  /\ TrueMessages

\* Only the entry of h for a and its timer change.
OneEntry(h, a, e) ==
  /\ arpCache' = [arpCache EXCEPT ![h][a] = e]
  /\ \/ timers' = timers
     \/ timers' = [timers EXCEPT ![h] = @ \cup {a}]
     \/ timers' = [timers EXCEPT ![h] = @ \ {a}]

-----------------------------------------------------------------------------

LEMMA EntryChanges ==
  ASSUME IInv, NEW h \in Host, NEW a \in Addr, NEW e \in Entry \cup {None}, OneEntry(h, a, e)
  PROVE  /\ arpCache' \in [Host -> [Addr -> Entry \cup {None}]]
         /\ timers' \in [Host -> SUBSET Addr]
         /\ arpCache'[h][a] = e
         /\ \A k \in Host, b \in Addr :
              k # h \/ b # a => /\ arpCache'[k][b] = arpCache[k][b]
                                /\ b \in timers'[k] <=> b \in timers[k]
  <1>1. /\ arpCache \in [Host -> [Addr -> Entry \cup {None}]]
        /\ timers \in [Host -> SUBSET Addr]
    BY DEF IInv, Typed
  <1>2. arpCache' = [arpCache EXCEPT ![h] = [arpCache[h] EXCEPT ![a] = e]]
    BY <1>1 DEF OneEntry
  <1>3. arpCache' \in [Host -> [Addr -> Entry \cup {None}]] /\ arpCache'[h][a] = e
    BY <1>1, <1>2
  <1>4. timers' \in [Host -> SUBSET Addr]
    BY <1>1 DEF OneEntry
  <1>5. ASSUME NEW k \in Host, NEW b \in Addr, k # h \/ b # a
        PROVE  /\ arpCache'[k][b] = arpCache[k][b]
               /\ b \in timers'[k] <=> b \in timers[k]
    BY <1>1, <1>2, <1>5 DEF OneEntry
  <1> QED  BY <1>3, <1>4, <1>5

\* It is enough to look at the entry that changes.
LEMMA EntryStep ==
  ASSUME IInv, NEW h \in Host, NEW a \in Addr, NEW e \in Entry \cup {None}, OneEntry(h, a, e),
         SoundEntry(e, a \in timers'[h], a)
  PROVE  \A k \in Host, b \in Addr : SoundEntry(arpCache'[k][b], b \in timers'[k], b)
  <1> SUFFICES ASSUME NEW k \in Host, NEW b \in Addr
               PROVE  SoundEntry(arpCache'[k][b], b \in timers'[k], b)
    OBVIOUS
  <1>1. CASE k = h /\ b = a
    BY <1>1, EntryChanges
  <1>2. CASE k # h \/ b # a
    <2>1. SoundEntry(arpCache[k][b], b \in timers[k], b)
      BY DEF IInv
    <2>2. arpCache'[k][b] = arpCache[k][b] /\ (b \in timers'[k] <=> b \in timers[k])
      BY <1>2, EntryChanges
    <2> QED  BY <2>1, <2>2 DEF SoundEntry
  <1> QED  BY <1>1, <1>2

\* Of the messages sent some are lost; the rest are as true as those sent.
LEMMA SendTrue ==
  ASSUME NEW rest, NEW ms, rest \subseteq ARPPacket, ms \subseteq ARPPacket,
         \A m \in rest \cup ms : addressRecognized(m.srcMAC, m.srcIP), Send(rest, ms)
  PROVE  msgs' \subseteq ARPPacket /\ TrueMessages'
  BY DEF Send, TrueMessages, addressRecognized

\* A request names the address of its sender.
LEMMA RequestTrue ==
  ASSUME IInv, NEW h \in Host, NEW a \in Addr, sendARPRequest(h, a)
  PROVE  msgs' \subseteq ARPPacket /\ TrueMessages'
  <1> DEFINE ms == [opcode : {"REQUEST"}, srcMAC : {h}, srcIP : {AddrOf[h]}, destIP : {a},
                    to : Host \ {h}]
  <1>1. ms \subseteq ARPPacket
    BY ParamAssumption DEF ARPPacket
  <1>2. \A m \in ms : addressRecognized(m.srcMAC, m.srcIP)
    BY ParamAssumption DEF addressRecognized
  <1>3. msgs \subseteq ARPPacket /\ \A m \in msgs : addressRecognized(m.srcMAC, m.srcIP)
    BY DEF IInv, Typed, TrueMessages
  <1>4. Send(msgs, ms)
    BY DEF sendARPRequest
  <1> QED  BY <1>1, <1>2, <1>3, <1>4, SendTrue

-----------------------------------------------------------------------------

LEMMA ResolveKeeps ==
  ASSUME IInv, NEW h \in Host, NEW a \in Addr, ResolveForPacket(h, a)
  PROVE  IInv'
  <1>1. PICK mac \in Host \cup {None} : initiateARPResolution(h, a, mac)
    BY NoneAssumption DEF ResolveForPacket, IInv, Typed, Entry
  <1> DEFINE e == [pending |-> TRUE, macAddress |-> mac, stale |-> FALSE, numRetries |-> 0,
                   pendingPackets |-> <<handed[<<h, a>>] + 1>>]
  <1>2. handed[<<h, a>>] \in Nat /\ handed' \in [Channel -> Nat]
    BY DEF IInv, Typed, Channel, ResolveForPacket, HandDown
  <1>3. e \in Entry /\ e # None
    <2>1. <<handed[<<h, a>>] + 1>> \in Seq(Nat)
      BY <1>2
    <2>2. e \in Entry
      BY <2>1 DEF Entry
    <2> QED  BY <2>2, NoneAssumption
  <1>4. OneEntry(h, a, e) /\ a \in timers'[h]
    BY <1>1 DEF initiateARPResolution, OneEntry, IInv, Typed
  <1>5. SoundEntry(e, a \in timers'[h], a)
    BY <1>3, <1>4 DEF SoundEntry
  <1>6. msgs' \subseteq ARPPacket /\ TrueMessages'
    BY <1>1, RequestTrue DEF initiateARPResolution
  <1>7. sent' \in [Channel -> Seq(Nat)]
    BY <1>1 DEF initiateARPResolution, IInv, Typed
  <1>8. \A k \in Host, b \in Addr : SoundEntry(arpCache'[k][b], b \in timers'[k], b)
    BY <1>3, <1>4, <1>5, EntryStep
  <1>9. arpCache' \in [Host -> [Addr -> Entry \cup {None}]] /\ timers' \in [Host -> SUBSET Addr]
    BY <1>3, <1>4, EntryChanges
  <1> QED  BY <1>2, <1>6, <1>7, <1>8, <1>9 DEF IInv, Typed, SoundEntry, addressRecognized

LEMMA QueueKeeps ==
  ASSUME IInv, NEW h \in Host, NEW a \in Addr, QueuePacket(h, a)
  PROVE  IInv'
  <1> DEFINE old == arpCache[h][a]
             e == [old EXCEPT !.pendingPackets = Append(@, handed[<<h, a>>] + 1)]
  <1>1. handed[<<h, a>>] \in Nat /\ handed' \in [Channel -> Nat]
    BY DEF IInv, Typed, Channel, QueuePacket, HandDown
  <1>2. old \in Entry /\ old # None /\ old.pending /\ SoundEntry(old, a \in timers[h], a)
    BY DEF QueuePacket, IInv, Typed
  <1>3. e \in Entry /\ e # None /\ e.pending /\ e.numRetries = old.numRetries
    <2>1. old.pendingPackets \in Seq(Nat) /\ handed[<<h, a>>] + 1 \in Nat
      BY <1>1, <1>2 DEF Entry
    <2>2. Append(old.pendingPackets, handed[<<h, a>>] + 1) \in Seq(Nat)
      BY <2>1
    <2>3. e \in Entry /\ e.pending /\ e.numRetries = old.numRetries
      BY <1>2, <2>2 DEF Entry
    <2> QED  BY <2>3, NoneAssumption
  <1>4. e.pendingPackets # <<>>
    <2>1. PICK p \in Seq(Nat) : p = old.pendingPackets
      BY <1>2 DEF Entry
    <2>2. PICK n \in Nat : n = handed[<<h, a>>] + 1
      BY <1>1
    <2>3. Append(p, n) # <<>>
      OBVIOUS
    <2>4. e.pendingPackets = Append(p, n)
      BY <1>2, <2>1, <2>2 DEF Entry
    <2> QED  BY <2>3, <2>4
  <1>5. OneEntry(h, a, e) /\ timers' = timers
    BY <1>2 DEF QueuePacket, OneEntry
  <1>6. SoundEntry(e, a \in timers'[h], a)
    BY <1>2, <1>3, <1>4, <1>5 DEF SoundEntry
  <1>7. \A k \in Host, b \in Addr : SoundEntry(arpCache'[k][b], b \in timers'[k], b)
    BY <1>3, <1>5, <1>6, EntryStep
  <1>8. arpCache' \in [Host -> [Addr -> Entry \cup {None}]] /\ timers' \in [Host -> SUBSET Addr]
    BY <1>3, <1>5, EntryChanges
  <1>9. msgs' = msgs /\ sent' = sent
    BY DEF QueuePacket
  <1> QED  BY <1>1, <1>7, <1>8, <1>9 DEF IInv, Typed, TrueMessages, SoundEntry, addressRecognized

LEMMA SendPacketKeeps ==
  ASSUME IInv, NEW h \in Host, NEW a \in Addr, SendPacket(h, a)
  PROVE  IInv'
  <1>1. /\ handed[<<h, a>>] \in Nat /\ handed' \in [Channel -> Nat]
        /\ sent[<<h, a>>] \in Seq(Nat) /\ <<h, a>> \in Channel
    BY DEF IInv, Typed, Channel, SendPacket, HandDown
  <1>2. Append(sent[<<h, a>>], handed[<<h, a>>] + 1) \in Seq(Nat)
    BY <1>1
  <1>3. sent' \in [Channel -> Seq(Nat)]
    BY <1>1, <1>2 DEF SendPacket, IInv, Typed
  <1>4. UNCHANGED <<arpCache, timers, msgs>>
    BY DEF SendPacket
  <1> QED  BY <1>1, <1>3, <1>4 DEF IInv, Typed, TrueMessages, SoundEntry, addressRecognized

LEMMA CacheTimeoutKeeps ==
  ASSUME IInv, NEW h \in Host, NEW a \in Addr, CacheTimeout(h, a)
  PROVE  IInv'
  <1> DEFINE old == arpCache[h][a]
             e == [old EXCEPT !.stale = TRUE]
  <1>1. old \in Entry /\ old # None /\ ~ old.pending /\ SoundEntry(old, a \in timers[h], a)
    BY DEF CacheTimeout, IInv, Typed
  <1>2. /\ e \in Entry /\ ~ e.pending /\ e.numRetries = old.numRetries
        /\ e.macAddress = old.macAddress /\ e.pendingPackets = old.pendingPackets
    BY <1>1 DEF Entry
  <1>3. e # None
    BY <1>2, NoneAssumption
  <1>4. OneEntry(h, a, e) /\ timers' = timers
    BY <1>1 DEF CacheTimeout, OneEntry
  <1>5. SoundEntry(e, a \in timers'[h], a)
    BY <1>1, <1>2, <1>3, <1>4 DEF SoundEntry
  <1>6. \A k \in Host, b \in Addr : SoundEntry(arpCache'[k][b], b \in timers'[k], b)
    BY <1>2, <1>4, <1>5, EntryStep
  <1>7. arpCache' \in [Host -> [Addr -> Entry \cup {None}]] /\ timers' \in [Host -> SUBSET Addr]
    BY <1>2, <1>4, EntryChanges
  <1>8. UNCHANGED <<msgs, handed, sent>>
    BY DEF CacheTimeout
  <1> QED  BY <1>6, <1>7, <1>8 DEF IInv, Typed, TrueMessages, SoundEntry, addressRecognized

LEMMA TimedOutKeeps ==
  ASSUME IInv, NEW h \in Host, NEW a \in Addr, requestTimedOut(h, a)
  PROVE  IInv'
  <1> DEFINE old == arpCache[h][a]
  <1>1. a \in timers[h] /\ old \in Entry \cup {None} /\ SoundEntry(old, a \in timers[h], a)
    BY DEF requestTimedOut, IInv, Typed
  <1>2. old \in Entry /\ old # None /\ old.pending /\ old.pendingPackets # <<>>
    BY <1>1 DEF SoundEntry
  <1>3. UNCHANGED <<handed, sent>>
    BY DEF requestTimedOut
  <1>4. CASE /\ old.numRetries + 1 < retryCount
             /\ arpCache' = [arpCache EXCEPT ![h][a].numRetries = @ + 1]
             /\ sendARPRequest(h, a)
             /\ UNCHANGED timers
    <2> DEFINE e == [old EXCEPT !.numRetries = @ + 1]
    <2>1. /\ e \in Entry /\ e.pending /\ e.numRetries < retryCount
          /\ e.pendingPackets = old.pendingPackets
      BY <1>2, <1>4 DEF Entry
    <2>2. e # None
      BY <2>1, NoneAssumption
    <2>3. OneEntry(h, a, e) /\ timers' = timers
      BY <1>2, <1>4 DEF OneEntry
    <2>4. SoundEntry(e, a \in timers'[h], a)
      BY <1>1, <1>2, <2>1, <2>2, <2>3 DEF SoundEntry
    <2>5. \A k \in Host, b \in Addr : SoundEntry(arpCache'[k][b], b \in timers'[k], b)
      BY <2>1, <2>3, <2>4, EntryStep
    <2>6. arpCache' \in [Host -> [Addr -> Entry \cup {None}]] /\ timers' \in [Host -> SUBSET Addr]
      BY <2>1, <2>3, EntryChanges
    <2>7. msgs' \subseteq ARPPacket /\ TrueMessages'
      BY <1>4, RequestTrue
    <2> QED  BY <1>3, <2>5, <2>6, <2>7 DEF IInv, Typed, SoundEntry, addressRecognized
  <1>5. CASE /\ arpCache' = [arpCache EXCEPT ![h][a] = None]
             /\ timers' = [timers EXCEPT ![h] = @ \ {a}]
             /\ UNCHANGED msgs
    <2>1. OneEntry(h, a, None) /\ a \notin timers'[h]
      BY <1>5 DEF OneEntry, IInv, Typed
    <2>2. SoundEntry(None, a \in timers'[h], a)
      BY <2>1 DEF SoundEntry
    <2>3. \A k \in Host, b \in Addr : SoundEntry(arpCache'[k][b], b \in timers'[k], b)
      BY <2>1, <2>2, EntryStep
    <2>4. arpCache' \in [Host -> [Addr -> Entry \cup {None}]] /\ timers' \in [Host -> SUBSET Addr]
      BY <2>1, EntryChanges
    <2> QED  BY <1>3, <1>5, <2>3, <2>4 DEF IInv, Typed, TrueMessages, SoundEntry, addressRecognized
  <1> QED  BY <1>2, <1>4, <1>5 DEF requestTimedOut

\* What waits is a sequence of packet numbers.
LEMMA WaitingType ==
  ASSUME IInv, NEW h \in Host, NEW a \in Addr
  PROVE  Waiting(h, a) \in Seq(Nat)
  <1>1. arpCache[h][a] \in Entry \cup {None}
    BY DEF IInv, Typed
  <1> QED  BY <1>1 DEF Waiting, Entry

LEMMA UpdateKeeps ==
  ASSUME IInv, NEW h \in Host, NEW a \in Addr, NEW mac \in Host, addressRecognized(mac, a),
         updateARPCache(h, a, mac)
  PROVE  /\ \A k \in Host, b \in Addr : SoundEntry(arpCache'[k][b], b \in timers'[k], b)
         /\ arpCache' \in [Host -> [Addr -> Entry \cup {None}]]
         /\ timers' \in [Host -> SUBSET Addr]
         /\ sent' \in [Channel -> Seq(Nat)]
  <1> DEFINE e == Resolved(mac)
  <1>1. e \in Entry
    BY DEF Resolved, Entry
  <1>2. e # None /\ mac # None
    BY <1>1, NoneAssumption, ParamAssumption
  <1>3. OneEntry(h, a, e) /\ a \notin timers'[h]
    BY DEF updateARPCache, OneEntry, IInv, Typed
  <1>4. SoundEntry(e, a \in timers'[h], a)
    BY <1>2, <1>3 DEF SoundEntry, Resolved
  <1>5. \A k \in Host, b \in Addr : SoundEntry(arpCache'[k][b], b \in timers'[k], b)
    BY <1>1, <1>3, <1>4, EntryStep
  <1>6. arpCache' \in [Host -> [Addr -> Entry \cup {None}]] /\ timers' \in [Host -> SUBSET Addr]
    BY <1>1, <1>3, EntryChanges
  <1>7. sent \in [Channel -> Seq(Nat)] /\ <<h, a>> \in Channel
    BY DEF IInv, Typed, Channel
  <1>8. sent[<<h, a>>] \o Waiting(h, a) \in Seq(Nat)
    BY <1>7, WaitingType
  <1>9. sent' \in [Channel -> Seq(Nat)]
    BY <1>7, <1>8 DEF updateARPCache
  <1> QED  BY <1>5, <1>6, <1>9

LEMMA PacketKeeps ==
  ASSUME IInv, NEW m \in msgs, processARPPacket(m)
  PROVE  IInv'
  <1>1. m \in ARPPacket /\ addressRecognized(m.srcMAC, m.srcIP)
    BY DEF IInv, Typed, TrueMessages
  <1>2. m.to \in Host /\ m.srcIP \in Addr /\ m.destIP \in Addr /\ m.srcMAC \in Host
    BY <1>1 DEF ARPPacket
  <1>3. /\ \A k \in Host, b \in Addr : SoundEntry(arpCache'[k][b], b \in timers'[k], b)
        /\ arpCache' \in [Host -> [Addr -> Entry \cup {None}]]
        /\ timers' \in [Host -> SUBSET Addr]
        /\ sent' \in [Channel -> Seq(Nat)]
    <2>1. CASE updateARPCache(m.to, m.srcIP, m.srcMAC)
      BY <1>1, <1>2, <2>1, UpdateKeeps
    <2>2. CASE UNCHANGED <<arpCache, timers, sent>>
      BY <2>2 DEF IInv, Typed, SoundEntry, addressRecognized
    <2> QED  BY <2>1, <2>2 DEF processARPPacket
  <1>4. msgs' \subseteq ARPPacket /\ TrueMessages'
    <2>1. /\ msgs \ {m} \subseteq ARPPacket
          /\ \A n \in msgs \ {m} : addressRecognized(n.srcMAC, n.srcIP)
      BY DEF IInv, Typed, TrueMessages
    <2>2. CASE msgs' = msgs \ {m}
      BY <2>1, <2>2 DEF TrueMessages, addressRecognized
    <2>3. CASE addressRecognized(m.to, m.destIP) /\ Send(msgs \ {m}, {Reply(m.to, m)})
      <3>1. Reply(m.to, m) \in ARPPacket
        BY <1>2 DEF Reply, ARPPacket
      <3>2. \A n \in (msgs \ {m}) \cup {Reply(m.to, m)} : addressRecognized(n.srcMAC, n.srcIP)
        BY <2>1, <2>3 DEF Reply
      <3> QED  BY <2>1, <2>3, <3>1, <3>2, SendTrue
    <2> QED  BY <2>2, <2>3 DEF processARPPacket
  <1>5. handed' = handed
    BY DEF processARPPacket
  <1> QED  BY <1>3, <1>4, <1>5 DEF IInv, Typed, SoundEntry, addressRecognized

-----------------------------------------------------------------------------

\* Every step keeps the invariant, whatever is lost or overtaken.
LEMMA Inductive == IInv /\ [Next]_vars => IInv'
  <1> SUFFICES ASSUME IInv, [Next]_vars  PROVE IInv'
    OBVIOUS
  <1>1. ASSUME NEW h \in Host, NEW a \in Addr, Outbound(h, a)  PROVE IInv'
    BY <1>1, ResolveKeeps, QueueKeeps, SendPacketKeeps DEF Outbound
  <1>2. ASSUME NEW h \in Host, NEW a \in Addr, CacheTimeout(h, a)  PROVE IInv'
    BY <1>2, CacheTimeoutKeeps
  <1>3. ASSUME NEW h \in Host, NEW a \in Addr, requestTimedOut(h, a)  PROVE IInv'
    BY <1>3, TimedOutKeeps
  <1>4. ASSUME NEW m \in msgs, processARPPacket(m)  PROVE IInv'
    BY <1>4, PacketKeeps
  <1>5. CASE UNCHANGED vars
    BY <1>5 DEF vars, IInv, Typed, TrueMessages, SoundEntry, addressRecognized
  <1> QED  BY <1>1, <1>2, <1>3, <1>4, <1>5 DEF Next

LEMMA Initially == Init => IInv
  <1> SUFFICES ASSUME Init  PROVE IInv
    OBVIOUS
  <1>1. Typed
    BY DEF Init, Typed
  <1>2. \A h \in Host, a \in Addr : SoundEntry(arpCache[h][a], a \in timers[h], a)
    BY DEF Init, SoundEntry
  <1>3. TrueMessages
    BY DEF Init, TrueMessages
  <1> QED  BY <1>1, <1>2, <1>3 DEF IInv

\* Cache entries, timers and messages fit together in every state.
THEOREM Invariance == Spec => []IInv
  BY Initially, Inductive, PTL DEF Spec

\* Every variable of ARP keeps its type, and a resolution sends at most retryCount requests.
THEOREM TypeCorrect == Spec => []TypeOK
  <1>1. IInv => TypeOK
    BY DEF IInv, Typed, TypeOK, SoundEntry
  <1> QED  BY <1>1, Invariance, PTL

\* The timer of an entry is scheduled exactly while the entry is pending, so that
\* requestTimedOut never uses an entry that was thrown out.
THEOREM TimersMatchEntries == Spec => []TimerMatchesEntry
  <1>1. IInv => TimerMatchesEntry
    BY DEF IInv, TimerMatchesEntry, SoundEntry
  <1> QED  BY <1>1, Invariance, PTL

\* A resolved entry names a host that answers for the address (updateARPCache).
THEOREM MACsAreRight == Spec => []RightMAC
  <1>1. IInv => RightMAC
    BY DEF IInv, RightMAC, SoundEntry
  <1> QED  BY <1>1, Invariance, PTL

-----------------------------------------------------------------------------

\* The packets that wait, channel by channel.
Held == [c \in Channel |-> Waiting(c[1], c[2])]

\* Only the channel of the entry that changes has other packets waiting.
LEMMA HeldChanges ==
  ASSUME IInv, NEW h \in Host, NEW a \in Addr, NEW e \in Entry \cup {None}, OneEntry(h, a, e)
  PROVE  Held' = [Held EXCEPT ![<<h, a>>] = IF e = None THEN <<>> ELSE e.pendingPackets]
  <1>1. Held'[<<h, a>>] = IF e = None THEN <<>> ELSE e.pendingPackets
    BY EntryChanges DEF Held, Channel, Waiting
  <1>2. ASSUME NEW c \in Channel, c # <<h, a>>  PROVE Held'[c] = Held[c]
    <2>1. c[1] \in Host /\ c[2] \in Addr /\ (c[1] # h \/ c[2] # a)
      BY <1>2 DEF Channel
    <2>2. arpCache'[c[1]][c[2]] = arpCache[c[1]][c[2]]
      BY <2>1, EntryChanges
    <2> QED  BY <1>2, <2>2 DEF Held, Waiting
  <1> QED  BY <1>1, <1>2 DEF Held

LEMMA HeldEntry ==
  ASSUME NEW h \in Host, NEW a \in Addr
  PROVE  <<h, a>> \in Channel /\ Held[<<h, a>>] = Waiting(h, a)
  BY DEF Held, Channel

\* What an outbound packet does: it waits, or it is sent when no other waits.
LEMMA OutboundImplements ==
  ASSUME IInv, NEW h \in Host, NEW a \in Addr, Outbound(h, a)
  PROVE  Queues!Hold(<<h, a>>) \/ Queues!PassOn(<<h, a>>)
  <1> DEFINE old == arpCache[h][a]
  <1>1. /\ old \in Entry \cup {None} /\ SoundEntry(old, a \in timers[h], a)
        /\ handed[<<h, a>>] \in Nat
    BY DEF IInv, Typed, Channel
  <1>2. CASE ResolveForPacket(h, a)
    <2>1. PICK mac \in Host \cup {None} : initiateARPResolution(h, a, mac)
      BY <1>2, NoneAssumption DEF ResolveForPacket, IInv, Typed, Entry
    <2> DEFINE e == [pending |-> TRUE, macAddress |-> mac, stale |-> FALSE, numRetries |-> 0,
                     pendingPackets |-> <<handed[<<h, a>>] + 1>>]
    <2>2. e \in Entry
      <3>1. <<handed[<<h, a>>] + 1>> \in Seq(Nat)
        BY <1>1
      <3> QED  BY <3>1 DEF Entry
    <2>3. e # None
      BY <2>2, NoneAssumption
    <2>4. OneEntry(h, a, e)
      BY <2>1 DEF initiateARPResolution, OneEntry
    <2>5. Waiting(h, a) = <<>>
      BY <1>1, <1>2 DEF ResolveForPacket, SoundEntry, Waiting
    <2>6. e.pendingPackets = Append(Held[<<h, a>>], handed[<<h, a>>] + 1)
      BY <2>5, HeldEntry
    <2> HIDE DEF e
    <2>7. Held' = [Held EXCEPT ![<<h, a>>] = Append(@, handed[<<h, a>>] + 1)]
      <3>1. Held' = [Held EXCEPT ![<<h, a>>] = e.pendingPackets]
        BY <2>2, <2>3, <2>4, HeldChanges
      <3> QED  BY <2>6, <3>1
    <2>8. handed' = [handed EXCEPT ![<<h, a>>] = @ + 1] /\ sent' = sent
      BY <1>2, <2>1 DEF ResolveForPacket, HandDown, initiateARPResolution
    <2> QED  BY <2>7, <2>8 DEF Queues!Hold, Held
  <1>3. CASE QueuePacket(h, a)
    <2> DEFINE e == [old EXCEPT !.pendingPackets = Append(@, handed[<<h, a>>] + 1)]
    <2>1. old \in Entry /\ old # None
      BY <1>1, <1>3 DEF QueuePacket
    <2>2. Append(old.pendingPackets, handed[<<h, a>>] + 1) \in Seq(Nat)
      BY <1>1, <2>1 DEF Entry
    <2>3. e \in Entry /\ e.pendingPackets = Append(old.pendingPackets, handed[<<h, a>>] + 1)
      BY <2>1, <2>2 DEF Entry
    <2>4. e # None
      BY <2>3, NoneAssumption
    <2>5. OneEntry(h, a, e)
      BY <1>3, <2>1 DEF QueuePacket, OneEntry
    <2>6. Held[<<h, a>>] = old.pendingPackets
      BY <2>1, HeldEntry DEF Waiting
    <2> HIDE DEF e
    <2>7. Held' = [Held EXCEPT ![<<h, a>>] = Append(@, handed[<<h, a>>] + 1)]
      <3>1. Held' = [Held EXCEPT ![<<h, a>>] = e.pendingPackets]
        BY <2>3, <2>4, <2>5, HeldChanges
      <3> QED  BY <2>3, <2>6, <3>1
    <2>8. handed' = [handed EXCEPT ![<<h, a>>] = @ + 1] /\ sent' = sent
      BY <1>3 DEF QueuePacket, HandDown
    <2> QED  BY <2>7, <2>8 DEF Queues!Hold, Held
  <1>4. CASE SendPacket(h, a)
    <2>1. Held[<<h, a>>] = <<>>
      BY <1>1, <1>4, HeldEntry DEF SendPacket, SoundEntry, Waiting
    <2>2. Held' = Held
      BY <1>4 DEF SendPacket, Held, Waiting
    <2> QED  BY <1>4, <2>1, <2>2 DEF SendPacket, HandDown, Queues!PassOn, Held
  <1> QED  BY <1>2, <1>3, <1>4 DEF Outbound

\* The last timeout gives up what waits; an earlier one changes no queue.
LEMMA TimeoutImplements ==
  ASSUME IInv, NEW h \in Host, NEW a \in Addr, requestTimedOut(h, a)
  PROVE  Queues!GiveUp(<<h, a>>) \/ UNCHANGED Queues!qvars
  <1> DEFINE old == arpCache[h][a]
  <1>1. a \in timers[h] /\ old \in Entry \cup {None} /\ SoundEntry(old, a \in timers[h], a)
    BY DEF requestTimedOut, IInv, Typed
  <1>2. old \in Entry /\ old # None /\ old.pendingPackets # <<>>
    BY <1>1 DEF SoundEntry
  <1>3. Held[<<h, a>>] = old.pendingPackets
    BY <1>2, HeldEntry DEF Waiting
  <1>4. UNCHANGED <<handed, sent>>
    BY DEF requestTimedOut
  <1>5. CASE /\ arpCache' = [arpCache EXCEPT ![h][a].numRetries = @ + 1]
             /\ UNCHANGED timers
    <2> DEFINE e == [old EXCEPT !.numRetries = @ + 1]
    <2>1. e \in Entry /\ e.pendingPackets = old.pendingPackets
      BY <1>2 DEF Entry
    <2>2. e # None
      BY <2>1, NoneAssumption
    <2>3. OneEntry(h, a, e)
      BY <1>2, <1>5 DEF OneEntry
    <2> HIDE DEF e
    <2>4. Held' = [Held EXCEPT ![<<h, a>>] = Held[<<h, a>>]]
      BY <1>3, <2>1, <2>2, <2>3, HeldChanges
    <2>5. Held' = Held
      BY <2>4 DEF Held
    <2> QED  BY <1>4, <2>5 DEF Queues!qvars, Held
  <1>6. CASE /\ arpCache' = [arpCache EXCEPT ![h][a] = None]
             /\ timers' = [timers EXCEPT ![h] = @ \ {a}]
    <2>1. OneEntry(h, a, None)
      BY <1>6 DEF OneEntry
    <2>2. Held' = [Held EXCEPT ![<<h, a>>] = <<>>]
      BY <2>1, HeldChanges
    <2> QED  BY <1>2, <1>3, <1>4, <2>2 DEF Queues!GiveUp, Held
  <1> QED  BY <1>5, <1>6 DEF requestTimedOut

\* An ARP packet releases what waits for its sender, if anything does.
LEMMA PacketImplements ==
  ASSUME IInv, NEW m \in msgs, processARPPacket(m)
  PROVE  Queues!Release(<<m.to, m.srcIP>>) \/ UNCHANGED Queues!qvars
  <1> DEFINE h == m.to
             a == m.srcIP
  <1>1. h \in Host /\ a \in Addr /\ m.srcMAC \in Host
    BY DEF IInv, Typed, ARPPacket
  <1>2. handed' = handed
    BY DEF processARPPacket
  <1>3. CASE updateARPCache(h, a, m.srcMAC)
    <2> DEFINE e == Resolved(m.srcMAC)
    <2>1. e \in Entry /\ e.pendingPackets = <<>>
      BY <1>1 DEF Resolved, Entry
    <2>2. e # None
      BY <2>1, NoneAssumption
    <2>3. OneEntry(h, a, e)
      BY <1>3 DEF updateARPCache, OneEntry
    <2>4. Held' = [Held EXCEPT ![<<h, a>>] = <<>>]
      BY <1>1, <2>1, <2>2, <2>3, HeldChanges
    <2>5. sent' = [sent EXCEPT ![<<h, a>>] = @ \o Held[<<h, a>>]]
      BY <1>1, <1>3, HeldEntry DEF updateARPCache
    <2>6. CASE Held[<<h, a>>] # <<>>
      BY <1>2, <2>4, <2>5, <2>6 DEF Queues!Release, Held
    <2>7. CASE Held[<<h, a>>] = <<>>
      <3>1. Held' = Held
        BY <2>4, <2>7 DEF Held
      <3>2. sent \in [Channel -> Seq(Nat)] /\ <<h, a>> \in Channel
        BY <1>1 DEF IInv, Typed, Channel
      <3>3. sent[<<h, a>>] \o <<>> = sent[<<h, a>>]
        BY <3>2
      <3>4. sent' = sent
        BY <2>5, <2>7, <3>2, <3>3
      <3> QED  BY <1>2, <3>1, <3>4 DEF Queues!qvars, Held
    <2> QED  BY <2>6, <2>7
  <1>4. CASE UNCHANGED <<arpCache, timers, sent>>
    BY <1>2, <1>4 DEF Queues!qvars, Waiting
  <1> QED  BY <1>3, <1>4 DEF processARPPacket

\* Every step of ARP is a step of the queues or leaves them alone.
LEMMA StepImplements == IInv /\ [Next]_vars => [Queues!Next]_(Queues!qvars)
  <1> SUFFICES ASSUME IInv, [Next]_vars  PROVE Queues!Next \/ UNCHANGED Queues!qvars
    OBVIOUS
  <1>1. ASSUME NEW h \in Host, NEW a \in Addr, Outbound(h, a)  PROVE Queues!Next
    BY <1>1, OutboundImplements, HeldEntry DEF Queues!Next
  <1>2. ASSUME NEW h \in Host, NEW a \in Addr, CacheTimeout(h, a)
        PROVE  UNCHANGED Queues!qvars
    <2> DEFINE old == arpCache[h][a]
               e == [old EXCEPT !.stale = TRUE]
    <2>1. old \in Entry /\ old # None
      BY <1>2 DEF CacheTimeout, IInv, Typed
    <2>2. e \in Entry /\ e.pendingPackets = old.pendingPackets
      BY <2>1 DEF Entry
    <2>3. e # None
      BY <2>2, NoneAssumption
    <2>4. OneEntry(h, a, e)
      BY <1>2, <2>1 DEF CacheTimeout, OneEntry
    <2> HIDE DEF e
    <2>5. Held' = [Held EXCEPT ![<<h, a>>] = Held[<<h, a>>]]
      BY <2>1, <2>2, <2>3, <2>4, HeldChanges, HeldEntry DEF Waiting
    <2>6. Held' = Held
      BY <2>5 DEF Held
    <2> QED  BY <1>2, <2>6 DEF CacheTimeout, Queues!qvars, Held
  <1>3. ASSUME NEW h \in Host, NEW a \in Addr, requestTimedOut(h, a)
        PROVE  Queues!Next \/ UNCHANGED Queues!qvars
    BY <1>3, TimeoutImplements, HeldEntry DEF Queues!Next
  <1>4. ASSUME NEW m \in msgs, processARPPacket(m)
        PROVE  Queues!Next \/ UNCHANGED Queues!qvars
    <2>1. <<m.to, m.srcIP>> \in Channel
      BY DEF IInv, Typed, ARPPacket, Channel
    <2> QED  BY <1>4, <2>1, PacketImplements DEF Queues!Next
  <1>5. CASE UNCHANGED vars
    BY <1>5 DEF vars, Queues!qvars, Waiting
  <1> QED  BY <1>1, <1>2, <1>3, <1>4, <1>5 DEF Next

LEMMA InitImplements == Init => Queues!Init
  BY DEF Init, Queues!Init, Waiting, Channel

\* Resolution implements the queues: what waits for a next hop is sent in order or given
\* up, whatever ARP packets are lost, late or overtaken.
THEOREM Implements == Spec => Queues!Spec
  BY InitImplements, StepImplements, Invariance, PTL DEF Spec, Queues!Spec

-----------------------------------------------------------------------------

\* Packet numbers in order, none above n.
Ordered(s, n) == Queues!Increasing(s) /\ \A i \in DOMAIN s : s[i] \in 1 .. n

LEMMA OrderedAppend ==
  ASSUME NEW s \in Seq(Nat), NEW n \in Nat, Ordered(s, n)
  PROVE  Ordered(Append(s, n + 1), n + 1)
  <1> DEFINE t == Append(s, n + 1)
  <1>1. /\ DOMAIN s = 1 .. Len(s) /\ DOMAIN t = 1 .. Len(s) + 1 /\ Len(s) \in Nat
        /\ \A i \in 1 .. Len(s) : t[i] = s[i]
        /\ t[Len(s) + 1] = n + 1
    OBVIOUS
  <1> HIDE DEF t
  <1>2. \A i \in DOMAIN s : s[i] \in 1 .. n
    BY DEF Ordered
  <1>3. \A i \in DOMAIN t : t[i] \in 1 .. n + 1
    BY <1>1, <1>2
  <1>4. ASSUME NEW i \in DOMAIN t, NEW j \in DOMAIN t, i < j  PROVE t[i] < t[j]
    <2>1. i \in 1 .. Len(s)
      BY <1>1, <1>4
    <2>2. CASE j \in 1 .. Len(s)
      BY <1>1, <1>4, <2>1, <2>2 DEF Ordered, Queues!Increasing
    <2>3. CASE j = Len(s) + 1
      BY <1>1, <1>2, <2>1, <2>3
    <2> QED  BY <1>1, <2>2, <2>3
  <1> QED  BY <1>3, <1>4 DEF Ordered, Queues!Increasing, t

LEMMA OrderedPrefix ==
  ASSUME NEW s \in Seq(Nat), NEW t \in Seq(Nat), NEW n \in Nat, Ordered(s \o t, n)
  PROVE  Ordered(s, n)
  <1>1. /\ DOMAIN s = 1 .. Len(s) /\ DOMAIN (s \o t) = 1 .. Len(s) + Len(t)
        /\ Len(s) \in Nat /\ Len(t) \in Nat
        /\ \A i \in 1 .. Len(s) : (s \o t)[i] = s[i]
    OBVIOUS
  <1>2. \A i \in DOMAIN s : i \in DOMAIN (s \o t) /\ (s \o t)[i] = s[i]
    BY <1>1
  <1> QED  BY <1>2 DEF Ordered, Queues!Increasing

LEMMA ConcatAppend ==
  ASSUME NEW s \in Seq(Nat), NEW t \in Seq(Nat), NEW n \in Nat
  PROVE  s \o Append(t, n) = Append(s \o t, n)
  <1>1. t \o <<n>> = Append(t, n) /\ (s \o t) \o <<n>> = Append(s \o t, n)
    BY AppendIsConcat
  <1>2. (s \o t) \o <<n>> = s \o (t \o <<n>>)
    BY ConcatAssociative
  <1> QED  BY <1>1, <1>2

LEMMA LineType ==
  ASSUME IInv, NEW c \in Channel
  PROVE  sent[c] \in Seq(Nat) /\ Held[c] \in Seq(Nat) /\ handed[c] \in Nat
  <1>1. c[1] \in Host /\ c[2] \in Addr
    BY DEF Channel
  <1> QED  BY <1>1, WaitingType DEF IInv, Typed, Held

\* A step of the queues keeps every channel in order.
LEMMA QueuesKeepOrder ==
  ASSUME IInv, [Queues!Next]_(Queues!qvars),
         \A c \in Channel : Ordered(sent[c] \o Held[c], handed[c])
  PROVE  \A c \in Channel : Ordered(sent'[c] \o Held'[c], handed'[c])
  <1>1. /\ DOMAIN sent = Channel /\ DOMAIN Held = Channel /\ DOMAIN handed = Channel
    BY DEF IInv, Typed, Held
  <1>2. ASSUME NEW d \in Channel,
               Queues!Hold(d) \/ Queues!PassOn(d) \/ Queues!Release(d) \/ Queues!GiveUp(d),
               NEW c \in Channel
        PROVE  Ordered(sent'[c] \o Held'[c], handed'[c])
    <2>1. Ordered(sent[c] \o Held[c], handed[c])
      OBVIOUS
    <2>2. sent[c] \in Seq(Nat) /\ Held[c] \in Seq(Nat) /\ handed[c] \in Nat
      BY LineType
    <2>3. CASE c # d
      <3>1. sent'[c] = sent[c] /\ Held'[c] = Held[c] /\ handed'[c] = handed[c]
        BY <1>1, <1>2, <2>3 DEF Queues!Hold, Queues!PassOn, Queues!Release, Queues!GiveUp, Held
      <3> QED  BY <2>1, <3>1
    <2>4. CASE c = d /\ Queues!Hold(d)
      <3>1. /\ handed'[c] = handed[c] + 1 /\ sent'[c] = sent[c]
            /\ Held'[c] = Append(Held[c], handed[c] + 1)
        BY <1>1, <2>4 DEF Queues!Hold, Held
      <3>2. sent[c] \o Append(Held[c], handed[c] + 1)
              = Append(sent[c] \o Held[c], handed[c] + 1)
        <4>1. handed[c] + 1 \in Nat
          BY <2>2
        <4> QED  BY <2>2, <4>1, ConcatAppend
      <3>3. sent[c] \o Held[c] \in Seq(Nat)
        BY <2>2
      <3> QED  BY <2>1, <2>2, <3>1, <3>2, <3>3, OrderedAppend
    <2>5. CASE c = d /\ Queues!PassOn(d)
      <3>1. /\ handed'[c] = handed[c] + 1 /\ sent'[c] = Append(sent[c], handed[c] + 1)
            /\ Held[c] = <<>> /\ Held'[c] = <<>>
        BY <1>1, <2>5 DEF Queues!PassOn, Held
      <3>2. sent[c] \o <<>> = sent[c]
        BY <2>2
      <3>3. Append(sent[c], handed[c] + 1) \o <<>> = Append(sent[c], handed[c] + 1)
        BY <2>2
      <3> QED  BY <2>1, <2>2, <3>1, <3>2, <3>3, OrderedAppend
    <2>6. CASE c = d /\ Queues!Release(d)
      <3>1. /\ handed'[c] = handed[c] /\ sent'[c] = sent[c] \o Held[c] /\ Held'[c] = <<>>
        BY <1>1, <2>6 DEF Queues!Release, Held
      <3>2. (sent[c] \o Held[c]) \o <<>> = sent[c] \o Held[c]
        BY <2>2
      <3> QED  BY <2>1, <3>1, <3>2
    <2>7. CASE c = d /\ Queues!GiveUp(d)
      <3>1. /\ handed'[c] = handed[c] /\ sent'[c] = sent[c] /\ Held'[c] = <<>>
        BY <1>1, <2>7 DEF Queues!GiveUp, Held
      <3>2. sent[c] \o <<>> = sent[c]
        BY <2>2
      <3> QED  BY <2>1, <2>2, <3>1, <3>2, OrderedPrefix
    <2> QED  BY <1>2, <2>3, <2>4, <2>5, <2>6, <2>7
  <1>3. CASE UNCHANGED Queues!qvars
    BY <1>3 DEF Queues!qvars, Held
  <1> QED  BY <1>2, <1>3 DEF Queues!Next

LEMMA OrderAsQueues == PacketsInOrder <=> \A c \in Channel : Ordered(sent[c] \o Held[c], handed[c])
  BY DEF PacketsInOrder, Queues!InOrder, Ordered, Held

\* Packets for a next hop are sent in the order they were handed down, once each.
THEOREM OrderIsKept == Spec => []PacketsInOrder
  <1> DEFINE J == \A c \in Channel : Ordered(sent[c] \o Held[c], handed[c])
  <1>1. Init => J
    BY DEF Init, Held, Waiting, Channel, Ordered, Queues!Increasing
  <1>2. IInv /\ J /\ [Next]_vars => J'
    BY StepImplements, QueuesKeepOrder
  <1>3. J => PacketsInOrder
    BY OrderAsQueues
  <1> QED  BY <1>1, <1>2, <1>3, Invariance, PTL DEF Spec
=============================================================================
