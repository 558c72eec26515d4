------------------------ MODULE AddressResolutionProofs ------------------------
(***************************************************************************)
(* What address resolution does with packets and timers, for any number of *)
(* interfaces, neighbours, packets and solicitations.                      *)
(***************************************************************************)
EXTENDS AddressResolution, FiniteSetTheorems, FunctionTheorems, SequenceTheorems,
        WellFoundedInduction, TLAPS

-----------------------------------------------------------------------------
(* Induction over the natural numbers, from their well-foundedness.            *)

LEMMA LeastNat ==
  ASSUME NEW T \in SUBSET Nat, T # {}
  PROVE  \E m \in T : \A k \in T : m <= k
<1> DEFINE R == OpToRel(<, Nat)
<1>1. IsWellFoundedOn(R, Nat)
  BY NatLessThanWellFounded, Zenon
<1>2. \A x, y \in Nat : <<x, y>> \in R <=> x < y
  BY DEF OpToRel
<1> HIDE DEF R
<1>3. PICK m \in T : \A y \in T : ~ (<<y, m>> \in R)
  BY <1>1, WFMin
<1>4. \A k \in T : k \in Nat /\ m \in Nat /\ ~ (k < m)
  BY <1>2, <1>3
<1> QED
  BY <1>4

LEMMA NatsBelow ==
  ASSUME NEW S, 0 \in S, \A k \in Nat : k \in S => k + 1 \in S
  PROVE  Nat \subseteq S
<1> SUFFICES ASSUME Nat \ S # {} PROVE FALSE
  OBVIOUS
<1>1. PICK m \in Nat \ S : \A k \in Nat \ S : m <= k
  BY LeastNat
<1>2. m # 0 /\ m - 1 \in Nat
  BY <1>1
<1>3. m - 1 \in S
  BY <1>1, <1>2
<1>4. (m - 1) + 1 \in S
  BY <1>2, <1>3
<1> QED
  BY <1>1, <1>2, <1>4

-----------------------------------------------------------------------------
(* The places of a list in order, and the list without some of them.           *)

LEMMA InOrderEnumerates ==
  ASSUME NEW S \in SUBSET Nat, IsFiniteSet(S)
  PROVE  /\ Cardinality(S) \in Nat
         /\ InOrder(S) \in [1 .. Cardinality(S) -> S]
         /\ \A i \in S : \E k \in 1 .. Cardinality(S) : InOrder(S)[k] = i
         /\ \A j, k \in 1 .. Cardinality(S) : j < k => InOrder(S)[j] < InOrder(S)[k]
<1> DEFINE Upto(i) == {j \in S : j <= i}
           n == Cardinality(S)
           rank == [i \in S |-> Cardinality(Upto(i))]
<1>1. n \in Nat
  BY FS_CardinalityType
<1>2. \A i \in S : /\ IsFiniteSet(Upto(i)) /\ Cardinality(Upto(i)) \in Nat
                   /\ Cardinality(Upto(i)) <= n /\ Cardinality(Upto(i)) # 0
  <2> TAKE i \in S
  <2>1. Upto(i) \in SUBSET S /\ Upto(i) # {}
    OBVIOUS
  <2> HIDE DEF Upto
  <2> QED
    BY <2>1, FS_Subset, FS_CardinalityType, FS_EmptySet
<1>3. rank \in [S -> 1 .. n]
  <2> HIDE DEF Upto
  <2> QED
    BY <1>1, <1>2
<1>4. \A i, j \in S : i < j => rank[i] < rank[j]
  <2> SUFFICES ASSUME NEW i \in S, NEW j \in S, i < j PROVE rank[i] < rank[j]
    OBVIOUS
  <2>1. Upto(i) \in SUBSET Upto(j) /\ Upto(i) # Upto(j)
    <3>1. i \in Nat /\ j \in Nat
      OBVIOUS
    <3>2. j \in Upto(j)
      BY <3>1
    <3>3. j \notin Upto(i)
      BY <3>1
    <3>4. \A k \in S : k <= i => k <= j
      BY <3>1
    <3>5. Upto(i) \subseteq Upto(j)
      BY <3>4
    <3> HIDE DEF Upto
    <3> QED
      BY <3>2, <3>3, <3>5
  <2>2. IsFiniteSet(Upto(j)) /\ Cardinality(Upto(i)) \in Nat /\ Cardinality(Upto(j)) \in Nat
    BY <1>2
  <2>3. rank[i] = Cardinality(Upto(i)) /\ rank[j] = Cardinality(Upto(j))
    OBVIOUS
  <2> HIDE DEF Upto, rank
  <2>4. Cardinality(Upto(i)) <= Cardinality(Upto(j)) /\ Cardinality(Upto(i)) # Cardinality(Upto(j))
    BY <2>1, <2>2, FS_Subset
  <2> QED
    BY <2>2, <2>3, <2>4
<1> HIDE DEF rank
<1>5. \A i, j \in S : rank[i] = rank[j] => i = j
  <2> SUFFICES ASSUME NEW i \in S, NEW j \in S, i # j PROVE rank[i] # rank[j]
    OBVIOUS
  <2>1. rank[i] \in Int /\ rank[j] \in Int /\ (i < j \/ j < i)
    BY <1>1, <1>3
  <2> QED
    BY <1>4, <2>1
<1>6. \A k \in 1 .. n : \E i \in S : rank[i] = k
  <2>1. rank \in Injection(S, 1 .. n)
    BY <1>3, <1>5 DEF Injection, IsInjective
  <2>2. IsFiniteSet(1 .. n) /\ Cardinality(1 .. n) = n
    BY <1>1, FS_Interval
  <2>3. rank \in Surjection(S, 1 .. n)
    BY <2>1, <2>2, FS_Injection
  <2> QED
    BY <2>3 DEF Surjection
<1>7. \A k \in 1 .. n : InOrder(S)[k] \in S /\ rank[InOrder(S)[k]] = k
  <2> TAKE k \in 1 .. n
  <2>1. InOrder(S)[k] = CHOOSE i \in S : Cardinality(Upto(i)) = k
    BY DEF InOrder
  <2>2. \E i \in S : Cardinality(Upto(i)) = k
    BY <1>6 DEF rank
  <2> QED
    BY <2>1, <2>2 DEF rank
<1>8. InOrder(S) \in [1 .. n -> S]
  <2> DEFINE nth(k) == CHOOSE i \in S : Cardinality(Upto(i)) = k
  <2>1. InOrder(S) = [k \in 1 .. n |-> nth(k)]
    BY DEF InOrder
  <2> HIDE DEF nth
  <2>2. \A k \in 1 .. n : nth(k) \in S
    BY <1>7, <2>1
  <2> HIDE DEF n
  <2> QED
    BY <2>1, <2>2
<1>9. \A i \in S : \E k \in 1 .. n : InOrder(S)[k] = i
  <2> TAKE i \in S
  <2>1. rank[i] \in 1 .. n
    BY <1>3
  <2>2. InOrder(S)[rank[i]] = i
    BY <1>5, <1>7, <2>1
  <2> QED
    BY <2>1, <2>2
<1>10. ASSUME NEW j \in 1 .. n, NEW k \in 1 .. n, j < k PROVE InOrder(S)[j] < InOrder(S)[k]
  <2>1. PICK a \in S : a = InOrder(S)[j] /\ rank[a] = j
    BY <1>7
  <2>2. PICK b \in S : b = InOrder(S)[k] /\ rank[b] = k
    BY <1>7
  <2>3. a \in Nat /\ b \in Nat /\ j \in Int /\ k \in Int
    BY <1>1
  <2>4. ~ (b < a) /\ b # a
    BY <1>4, <1>10, <2>1, <2>2, <2>3
  <2> QED
    BY <2>1, <2>2, <2>3, <2>4
<1> QED
  BY <1>1, <1>8, <1>9, <1>10

\* The list ws is ts without the places in gone; where tells where each element was.
Thinned(ts, gone, ws, where) ==
  /\ where \in [DOMAIN ws -> DOMAIN ts \ gone]
  /\ \A i \in DOMAIN ts \ gone : \E k \in DOMAIN ws : where[k] = i
  /\ \A j, k \in DOMAIN ws : j < k => where[j] < where[k]
  /\ \A k \in DOMAIN ws : ws[k] = ts[where[k]]

LEMMA WithoutThins ==
  ASSUME NEW T, NEW ts \in Seq(T), NEW gone
  PROVE  /\ Without(ts, gone) \in Seq(T)
         /\ \E where : Thinned(ts, gone, Without(ts, gone), where)
<1> DEFINE S == DOMAIN ts \ gone
           n == Cardinality(S)
           q == InOrder(S)
           ws == Without(ts, gone)
<1>1. DOMAIN ts = 1 .. Len(ts) /\ Len(ts) \in Nat
  BY LenProperties
<1>2. S \in SUBSET Nat /\ IsFiniteSet(S)
  <2>1. IsFiniteSet(1 .. Len(ts))
    BY <1>1, FS_Interval
  <2>2. S \in SUBSET (1 .. Len(ts))
    BY <1>1
  <2> HIDE DEF S
  <2>3. IsFiniteSet(S)
    BY <2>1, <2>2, FS_Subset, Zenon
  <2>4. 1 .. Len(ts) \in SUBSET Nat
    BY <1>1
  <2> QED
    BY <2>2, <2>3, <2>4, Zenon
<1>3. ws = [k \in 1 .. n |-> ts[q[k]]]
  BY DEF Without
<1> HIDE DEF S, ws
<1>4. /\ n \in Nat /\ q \in [1 .. n -> S]
      /\ \A i \in S : \E k \in 1 .. n : q[k] = i
      /\ \A j, k \in 1 .. n : j < k => q[j] < q[k]
  BY <1>2, InOrderEnumerates, Zenon
<1> HIDE DEF n, q
<1>5. \A k \in 1 .. n : q[k] \in DOMAIN ts /\ ts[q[k]] \in T
  <2>1. \A i \in S : i \in DOMAIN ts /\ ts[i] \in T
    BY <1>1 DEF S
  <2> QED
    BY <1>4, <2>1
<1>6. ws \in Seq(T) /\ DOMAIN ws = 1 .. n
  BY <1>3, <1>4, <1>5
<1>7. Thinned(ts, gone, ws, q)
  BY <1>3, <1>4, <1>6 DEF Thinned, S
<1> QED
  BY <1>6, <1>7 DEF ws


\* A timer for u that is scheduled.
TimedIn(ts, u) == \E k \in DOMAIN ts : ts[k].targetAddr = u /\ ~ IsMarker(ts[k])

\* A list keeps the timers of u when none of them is taken out.
LEMMA WithoutKeepsTimers ==
  ASSUME NEW ts \in Seq(Timer), NEW gone, NEW u, NEW k \in DOMAIN ts \ gone,
         ts[k].targetAddr = u, ~ IsMarker(ts[k])
  PROVE  TimedIn(Without(ts, gone), u)
<1>1. PICK where : Thinned(ts, gone, Without(ts, gone), where)
  BY WithoutThins, Zenon
<1> DEFINE ws == Without(ts, gone)
<1> HIDE DEF ws
<1>2. Thinned(ts, gone, ws, where)
  BY <1>1 DEF ws
<1>3. PICK j \in DOMAIN ws : where[j] = k
  BY <1>2 DEF Thinned
<1>4. ws[j] = ts[k]
  BY <1>2, <1>3 DEF Thinned
<1>5. TimedIn(ws, u)
  BY <1>3, <1>4 DEF TimedIn
<1> QED
  BY <1>5 DEF ws

-----------------------------------------------------------------------------
(* A function that is computed by steps from 0 to p.                           *)

Iteration(V, a, F, p, f) == /\ f \in [0 .. p -> V] /\ f[0] = a
                            /\ \A k \in 1 .. p : f[k] = F[k - 1][f[k - 1]]

LEMMA IterationExists ==
  ASSUME NEW V, NEW a \in V, NEW p \in Nat, NEW F, F \in [0 .. p - 1 -> [V -> V]]
  PROVE  \E f : Iteration(V, a, F, p, f)
<1> DEFINE Iterates(f, q) == /\ f \in [0 .. q -> V] /\ f[0] = a
                             /\ \A k \in 1 .. q : f[k] = F[k - 1][f[k - 1]]
           S == {q \in Nat : q <= p => \E f : Iterates(f, q)}
<1>1. 0 \in S
  <2>1. Iterates([k \in 0 .. 0 |-> a], 0)
    OBVIOUS
  <2> QED
    BY <2>1
<1>2. ASSUME NEW q \in Nat, q \in S PROVE q + 1 \in S
  <2> SUFFICES ASSUME q + 1 <= p PROVE \E f : Iterates(f, q + 1)
    OBVIOUS
  <2>1. PICK f : Iterates(f, q)
    BY <1>2
  <2>2. f[q] \in V /\ F[q] \in [V -> V] /\ F[q][f[q]] \in V
    BY <2>1
  <2> DEFINE g == [k \in 0 .. q + 1 |-> IF k = q + 1 THEN F[q][f[q]] ELSE f[k]]
  <2>3. g \in [0 .. q + 1 -> V] /\ g[0] = a
    BY <2>1, <2>2
  <2>4. ASSUME NEW k \in 1 .. q + 1 PROVE g[k] = F[k - 1][g[k - 1]]
    <3>1. CASE k = q + 1
      <4>1. g[k] = F[q][f[q]] /\ g[q] = f[q] /\ k - 1 = q
        BY <3>1
      <4> QED
        BY <4>1
    <3>2. CASE k # q + 1
      <4>1. k \in 1 .. q /\ g[k] = f[k] /\ g[k - 1] = f[k - 1]
        BY <3>2
      <4> QED
        BY <2>1, <4>1
    <3> QED
      BY <3>1, <3>2
  <2> HIDE DEF g
  <2>5. Iterates(g, q + 1)
    BY <2>3, <2>4
  <2> QED
    BY <2>5
<1> HIDE DEF S
<1>3. Nat \subseteq S
  BY <1>1, <1>2, NatsBelow
<1>4. p \in S
  BY <1>3
<1> QED
  BY <1>4 DEF S, Iteration

-----------------------------------------------------------------------------
(* What the functions that resolve t do with queues and timers.                *)

Local == [ne : [Nbr -> Entry \cup {None}], ppq : [Nbr -> Seq(1 .. MaxPackets)], tmrs : Seq(Timer),
          unreached : [Nbr -> SUBSET (1 .. MaxPackets)], asked : SUBSET (Iface \cup {UINT_MAX})]

\* From s to r the other neighbours keep their queues and timers; the queue of t is kept
\* too, or all of it is reported.  Entries are kept or removed.
Resolves(s, r, t) ==
  /\ r \in Local
  /\ \A u \in Nbr \ {t} : /\ r.ppq[u] = s.ppq[u] /\ r.unreached[u] = s.unreached[u]
                          /\ TimedIn(s.tmrs, u) => TimedIn(r.tmrs, u)
  /\ \/ r.ppq[t] = s.ppq[t] /\ r.unreached[t] = s.unreached[t]
     \/ r.ppq[t] = <<>> /\ r.unreached[t] = s.unreached[t] \cup Range(s.ppq[t])
  /\ \A u \in Nbr : r.ne[u] \in {s.ne[u], None}

\* Afterwards nothing waits for t, or a timer is scheduled for it.
Settles(r, t) == r.ppq[t] = <<>> \/ TimedIn(r.tmrs, t)

LEMMA RangeOfEmpty == \A s : s = <<>> => Range(s) = {}
BY EmptySeq DEF Range

LEMMA ResolvesTwice ==
  ASSUME NEW s \in Local, NEW q \in Local, NEW r \in Local, NEW t \in Nbr,
         Resolves(s, q, t), Resolves(q, r, t)
  PROVE  Resolves(s, r, t)
<1>1. \A u \in Nbr \ {t} : /\ r.ppq[u] = s.ppq[u] /\ r.unreached[u] = s.unreached[u]
                           /\ TimedIn(s.tmrs, u) => TimedIn(r.tmrs, u)
  BY DEF Resolves
<1>2. \/ r.ppq[t] = s.ppq[t] /\ r.unreached[t] = s.unreached[t]
      \/ r.ppq[t] = <<>> /\ r.unreached[t] = s.unreached[t] \cup Range(s.ppq[t])
  <2>1. q.ppq[t] = <<>> => Range(q.ppq[t]) = {}
    BY RangeOfEmpty
  <2> QED
    BY <2>1 DEF Resolves
<1>3. \A u \in Nbr : r.ne[u] \in {s.ne[u], None}
  BY DEF Resolves
<1> QED
  BY <1>1, <1>2, <1>3 DEF Resolves

LEMMA FailedResolves ==
  ASSUME NEW s \in Local, NEW t \in Nbr, NEW own,
         own \in DOMAIN s.tmrs => s.tmrs[own].targetAddr = t
  PROVE  Resolves(s, failedAddrRes(s, t, own), t) /\ Settles(failedAddrRes(s, t, own), t)
<1> DEFINE others == {k \in DOMAIN s.tmrs : k # own /\ s.tmrs[k].targetAddr = t}
           markers == {k \in others : IsMarker(s.tmrs[k])}
           finalTimer == markers = others
           gone == {own} \cup IF finalTimer THEN {k \in markers : \A j \in markers : j <= k} ELSE {}
           ts == Without(s.tmrs, gone)
           es == IF finalTimer /\ settled THEN None ELSE s.ne[t]
           us == IF finalTimer THEN s.unreached[t] \cup Range(s.ppq[t]) ELSE s.unreached[t]
           qs == IF finalTimer THEN <<>> ELSE s.ppq[t]
           r == failedAddrRes(s, t, own)
<1>1. r = [s EXCEPT !.tmrs = ts, !.ne[t] = es, !.unreached[t] = us, !.ppq[t] = qs]
  BY DEF failedAddrRes
<1>2. /\ s.ne \in [Nbr -> Entry \cup {None}] /\ s.ppq \in [Nbr -> Seq(1 .. MaxPackets)]
      /\ s.tmrs \in Seq(Timer) /\ s.unreached \in [Nbr -> SUBSET (1 .. MaxPackets)]
      /\ s.asked \in SUBSET (Iface \cup {UINT_MAX})
  BY DEF Local
<1>3. \A k \in gone : k \in DOMAIN s.tmrs => s.tmrs[k].targetAddr = t
  OBVIOUS
<1>4. ~ finalTimer => \E k \in DOMAIN s.tmrs \ gone : s.tmrs[k].targetAddr = t /\ ~ IsMarker(s.tmrs[k])
  OBVIOUS
<1>5. finalTimer \/ ~ finalTimer
  OBVIOUS
<1>6. /\ finalTimer => qs = <<>> /\ us = s.unreached[t] \cup Range(s.ppq[t])
      /\ ~ finalTimer => qs = s.ppq[t] /\ us = s.unreached[t]
  OBVIOUS
<1>0. es \in {s.ne[t], None}
  OBVIOUS
<1>7. es \in Entry \cup {None} /\ us \in SUBSET (1 .. MaxPackets) /\ qs \in Seq(1 .. MaxPackets)
  <2>1. Range(s.ppq[t]) \in SUBSET (1 .. MaxPackets)
    BY <1>2, RangeOfSeq
  <2>2. <<>> \in Seq(1 .. MaxPackets)
    BY EmptySeq
  <2> HIDE DEF finalTimer
  <2> QED
    BY <1>2, <2>1, <2>2
<1> HIDE DEF gone, finalTimer, es, us, qs
<1>8. ts \in Seq(Timer)
  BY <1>2, WithoutThins, Zenon
<1>9. \A u \in Nbr : \A k \in DOMAIN s.tmrs \ gone :
        s.tmrs[k].targetAddr = u /\ ~ IsMarker(s.tmrs[k]) => TimedIn(ts, u)
  BY <1>2, WithoutKeepsTimers, Zenon
<1> HIDE DEF ts, r
<1>10. /\ r.ne = [s.ne EXCEPT ![t] = es] /\ r.ppq = [s.ppq EXCEPT ![t] = qs] /\ r.tmrs = ts
       /\ r.unreached = [s.unreached EXCEPT ![t] = us] /\ r.asked = s.asked
  BY <1>1 DEF Local
<1>11. r \in Local
  BY <1>1, <1>2, <1>7, <1>8 DEF Local
<1>12. /\ r.ppq[t] = qs /\ r.unreached[t] = us
       /\ \A u \in Nbr \ {t} : r.ppq[u] = s.ppq[u] /\ r.unreached[u] = s.unreached[u]
  BY <1>2, <1>10
<1>13. \A u \in Nbr \ {t} : TimedIn(s.tmrs, u) => TimedIn(r.tmrs, u)
  <2> SUFFICES ASSUME NEW u \in Nbr \ {t}, TimedIn(s.tmrs, u) PROVE TimedIn(ts, u)
    BY <1>10
  <2>1. PICK k \in DOMAIN s.tmrs : s.tmrs[k].targetAddr = u /\ ~ IsMarker(s.tmrs[k])
    BY DEF TimedIn
  <2>2. k \notin gone
    BY <1>3, <2>1
  <2> QED
    BY <1>9, <2>1, <2>2
<1>14. ~ finalTimer => TimedIn(r.tmrs, t)
  BY <1>4, <1>9, <1>10
<1>16. \A u \in Nbr : r.ne[u] \in {s.ne[u], None}
  BY <1>0, <1>2, <1>10
<1>15. Resolves(s, r, t) /\ Settles(r, t)
  BY <1>5, <1>6, <1>11, <1>12, <1>13, <1>14, <1>16 DEF Resolves, Settles
<1> QED
  BY <1>15 DEF r

\* A timer more in the list leaves those that are scheduled.
LEMMA AppendKeepsTimers ==
  ASSUME NEW ts \in Seq(Timer), NEW tmr \in Timer
  PROVE  /\ Append(ts, tmr) \in Seq(Timer)
         /\ \A u : TimedIn(ts, u) => TimedIn(Append(ts, tmr), u)
         /\ ~ IsMarker(tmr) => TimedIn(Append(ts, tmr), tmr.targetAddr)
<1> DEFINE n == Len(ts)
           ws == Append(ts, tmr)
<1>1. n \in Nat /\ DOMAIN ts = 1 .. n
  BY LenProperties
<1>2. ws \in Seq(Timer) /\ DOMAIN ws = 1 .. n + 1 /\ ws[n + 1] = tmr /\ \A k \in 1 .. n : ws[k] = ts[k]
  BY AppendProperties, LenProperties
<1> HIDE DEF n, ws
<1>3. \A u : TimedIn(ts, u) => TimedIn(ws, u)
  BY <1>1, <1>2 DEF TimedIn
<1>4. ~ IsMarker(tmr) => TimedIn(ws, tmr.targetAddr)
  BY <1>1, <1>2 DEF TimedIn
<1> QED
  BY <1>2, <1>3, <1>4 DEF ws

LEMMA FirstResolves ==
  ASSUME NEW s \in Local, NEW t \in Nbr, NEW i \in Iface
  PROVE  Resolves(s, FirstNgbrSol(s, t, i), t) /\ Settles(FirstNgbrSol(s, t, i), t)
<1> DEFINE tmr == [targetAddr |-> t, ifIndex |-> i, counter |-> 1]
           ts == Append(s.tmrs, tmr)
           r == [s EXCEPT !.tmrs = ts, !.asked = @ \cup {i}]
<1>1. CASE i \in addrs
  <2>1. FirstNgbrSol(s, t, i) = r
    BY <1>1 DEF FirstNgbrSol
  <2>2. tmr \in Timer /\ ~ IsMarker(tmr) /\ tmr.targetAddr = t
    BY ParamAssumption DEF Timer, IsMarker
  <2> HIDE DEF tmr
  <2>3. s.tmrs \in Seq(Timer)
    BY DEF Local
  <2>4. /\ ts \in Seq(Timer) /\ TimedIn(ts, t)
        /\ \A u : TimedIn(s.tmrs, u) => TimedIn(ts, u)
    BY <2>2, <2>3, AppendKeepsTimers
  <2> HIDE DEF ts
  <2>5. r \in Local /\ r.ppq = s.ppq /\ r.unreached = s.unreached /\ r.tmrs = ts /\ r.ne = s.ne
    BY <2>4 DEF Local
  <2> HIDE DEF r
  <2>6. Resolves(s, r, t) /\ Settles(r, t)
    BY <2>4, <2>5 DEF Resolves, Settles
  <2> QED
    BY <2>1, <2>6
<1>2. CASE i \notin addrs
  <2>1. FirstNgbrSol(s, t, i) = failedAddrRes(s, t, 0)
    BY <1>2 DEF FirstNgbrSol
  <2>2. 0 \notin DOMAIN s.tmrs
    <3>1. s.tmrs \in Seq(Timer)
      BY DEF Local
    <3> QED
      BY <3>1, LenProperties
  <2>3. Resolves(s, failedAddrRes(s, t, 0), t) /\ Settles(failedAddrRes(s, t, 0), t)
    BY <2>2, FailedResolves, Zenon
  <2> QED
    BY <2>1, <2>3, Zenon
<1> QED
  BY <1>1, <1>2

\* The state with a marker for t, and the states f that the interfaces lead to in turn.
Marked(s, t) == [s EXCEPT !.tmrs = Append(@, [targetAddr |-> t, ifIndex |-> UINT_MAX, counter |-> 0])]

InTurn(s, t, f) == /\ f[0] = Marked(s, t)
                   /\ \A k \in Iface : f[k + 1] = FirstNgbrSol(f[k], t, k)

LEMMA MarkedIs ==
  ASSUME NEW s \in Local, NEW t \in Nbr
  PROVE  /\ Marked(s, t) \in Local /\ Resolves(s, Marked(s, t), t)
         /\ Marked(s, t).ne = s.ne /\ Marked(s, t).ppq = s.ppq
         /\ Marked(s, t).tmrs = Append(s.tmrs, [targetAddr |-> t, ifIndex |-> UINT_MAX, counter |-> 0])
<1> DEFINE marker == [targetAddr |-> t, ifIndex |-> UINT_MAX, counter |-> 0]
           ts == Append(s.tmrs, marker)
           a == Marked(s, t)
<1>1. s.tmrs \in Seq(Timer) /\ marker \in Timer
  BY ParamAssumption DEF Local, Timer
<1>2. a = [s EXCEPT !.tmrs = ts]
  BY DEF Marked
<1> HIDE DEF marker
<1>3. ts \in Seq(Timer) /\ \A u : TimedIn(s.tmrs, u) => TimedIn(ts, u)
  BY <1>1, AppendKeepsTimers
<1> HIDE DEF ts, a
<1>4. a \in Local /\ a.ppq = s.ppq /\ a.unreached = s.unreached /\ a.tmrs = ts /\ a.ne = s.ne
  BY <1>2, <1>3 DEF Local
<1>5. Resolves(s, a, t)
  BY <1>3, <1>4 DEF Resolves
<1> QED
  BY <1>4, <1>5 DEF a, ts, marker

LEMMA InitiateSteps ==
  ASSUME NEW s \in Local, NEW t \in Nbr
  PROVE  \E f : InTurn(s, t, f) /\ initiateNgbrSol(s, t, UINT_MAX) = f[numInterfaceGates]
<1> DEFINE marker == [targetAddr |-> t, ifIndex |-> UINT_MAX, counter |-> 0]
           N == numInterfaceGates
           a == [s EXCEPT !.tmrs = Append(@, marker)]
           F == [k \in 0 .. N - 1 |-> [r \in Local |-> FirstNgbrSol(r, t, k)]]
           after == CHOOSE f : f = [k \in 0 .. N |-> IF k = 0 THEN a ELSE FirstNgbrSol(f[k - 1], t, k - 1)]
<1>2. initiateNgbrSol(s, t, UINT_MAX) = after[N]
  BY DEF initiateNgbrSol
<1>3. N \in Nat /\ N # 0 /\ Iface = 0 .. N - 1
  BY ParamAssumption DEF Iface
<1>4. \A k \in 0 .. N - 1 : \A r \in Local :
        Resolves(r, FirstNgbrSol(r, t, k), t) /\ Settles(FirstNgbrSol(r, t, k), t)
  BY <1>3, FirstResolves, Zenon
<1>5. F \in [0 .. N - 1 -> [Local -> Local]]
  BY <1>4 DEF Resolves
<1>6. a \in Local /\ a = Marked(s, t)
  BY MarkedIs DEF Marked
<1> HIDE DEF a, N
<1>7. \E f : f = [k \in 0 .. N |-> IF k = 0 THEN a ELSE FirstNgbrSol(f[k - 1], t, k - 1)]
  <2> HIDE DEF F
  <2>1. PICK f \in [0 .. N -> Local] : f[0] = a /\ \A k \in 1 .. N : f[k] = F[k - 1][f[k - 1]]
    <3>1. N \in Nat /\ a \in Local
      BY <1>3, <1>6
    <3>2. \E f : Iteration(Local, a, F, N, f)
      BY <1>5, <3>1, IterationExists, Zenon
    <3> QED
      BY <3>2 DEF Iteration
  <2> DEFINE g(k) == IF k = 0 THEN a ELSE FirstNgbrSol(f[k - 1], t, k - 1)
  <2>2. ASSUME NEW k \in 0 .. N PROVE f[k] = g(k)
    <3>1. CASE k = 0
      BY <2>1, <3>1
    <3>2. CASE k # 0
      <4>1. k \in 1 .. N /\ k - 1 \in 0 .. N - 1 /\ f[k - 1] \in Local
        BY <1>3, <2>1, <3>2
      <4>2. f[k] = F[k - 1][f[k - 1]]
        BY <2>1, <4>1
      <4>3. F[k - 1][f[k - 1]] = FirstNgbrSol(f[k - 1], t, k - 1)
        BY <4>1 DEF F
      <4> QED
        BY <3>2, <4>2, <4>3
    <3> QED
      BY <3>1, <3>2
  <2> HIDE DEF g
  <2>3. f = [k \in 0 .. N |-> g(k)]
    BY <2>1, <2>2
  <2> QED
    BY <2>3 DEF g
<1>8. after = [k \in 0 .. N |-> IF k = 0 THEN a ELSE FirstNgbrSol(after[k - 1], t, k - 1)]
  BY <1>7
<1> HIDE DEF after, F
<1>9. after[0] = a
  BY <1>3, <1>8
<1>10. \A k \in 0 .. N - 1 : after[k + 1] = FirstNgbrSol(after[k], t, k)
  BY <1>3, <1>8
<1>11. InTurn(s, t, after)
  BY <1>3, <1>6, <1>9, <1>10 DEF InTurn
<1> QED
  BY <1>2, <1>11 DEF N

LEMMA InitiateResolves ==
  ASSUME NEW s \in Local, NEW t \in Nbr, NEW i \in Iface \cup {UINT_MAX}
  PROVE  Resolves(s, initiateNgbrSol(s, t, i), t) /\ Settles(initiateNgbrSol(s, t, i), t)
<1> DEFINE N == numInterfaceGates
<1>1. PICK f : InTurn(s, t, f) /\ initiateNgbrSol(s, t, UINT_MAX) = f[N]
  BY InitiateSteps
<1>2. N \in Nat /\ N # 0 /\ Iface = 0 .. N - 1
  BY ParamAssumption DEF Iface
<1>3. f[0] = Marked(s, t) /\ \A k \in Iface : f[k + 1] = FirstNgbrSol(f[k], t, k)
  BY <1>1 DEF InTurn
<1>4. f[0] \in Local /\ Resolves(s, f[0], t)
  BY <1>3, MarkedIs
<1> HIDE DEF N
<1> DEFINE Good(k) == Resolves(s, f[k], t) /\ (k # 0 => Settles(f[k], t))
           S == {k \in Nat : k <= N => Good(k)}
<1>5. 0 \in S
  BY <1>4
<1>6. ASSUME NEW k \in Nat, k \in S PROVE k + 1 \in S
  <2> SUFFICES ASSUME k + 1 <= N PROVE Good(k + 1)
    OBVIOUS
  <2>1. k \in Iface /\ k <= N
    BY <1>2
  <2>2. Resolves(s, f[k], t)
    BY <1>6, <2>1
  <2>3. f[k] \in Local
    BY <2>2 DEF Resolves
  <2>4. Resolves(f[k], f[k + 1], t) /\ Settles(f[k + 1], t)
    <3>1. f[k + 1] = FirstNgbrSol(f[k], t, k)
      BY <1>3, <2>1
    <3>2. Resolves(f[k], FirstNgbrSol(f[k], t, k), t) /\ Settles(FirstNgbrSol(f[k], t, k), t)
      BY <2>1, <2>3, FirstResolves, Zenon
    <3> QED
      BY <3>1, <3>2
  <2>5. f[k + 1] \in Local
    BY <2>4 DEF Resolves
  <2>6. Resolves(s, f[k + 1], t)
    BY <2>2, <2>3, <2>4, <2>5, ResolvesTwice
  <2> QED
    BY <2>4, <2>6
<1> HIDE DEF S
<1>7. Nat \subseteq S
  BY <1>5, <1>6, NatsBelow
<1>8. Resolves(s, f[N], t) /\ Settles(f[N], t)
  BY <1>2, <1>7 DEF S
<1>9. CASE i = UINT_MAX
  BY <1>1, <1>8, <1>9 DEF N
<1>10. CASE i # UINT_MAX
  <2>1. initiateNgbrSol(s, t, i) = FirstNgbrSol(s, t, i)
    BY <1>10 DEF initiateNgbrSol
  <2> QED
    BY <1>10, <2>1, FirstResolves
<1> QED
  BY <1>9, <1>10

-----------------------------------------------------------------------------
(* Types, and the timers that answer for what waits.                           *)

\* The neighbour of an answer in flight is on the link it was asked on.
AnswersLinked == \A a \in adverts : LinkOf[a.src] \in Iface

QueueInv == TypeOK /\ AnswersLinked /\ QueueIsTimed

LEMMA NowIsLocal ==
  ASSUME TypeOK
  PROVE  Now \in Local
BY DEF TypeOK, Now, Local

\* What a resolution of t leaves has its types, and its queues are timed.
LEMMA BecomesKeeps ==
  ASSUME QueueInv, NEW s \in Local, NEW t \in Nbr, Becomes(s, t)
  PROVE  /\ ne' \in [Nbr -> Entry \cup {None}] /\ ppq' \in [Nbr -> Seq(1 .. MaxPackets)]
         /\ tmrs' \in Seq(Timer) /\ unreached' \in [Nbr -> SUBSET (1 .. MaxPackets)]
         /\ adverts' \subseteq Advert /\ AnswersLinked'
<1>1. /\ ne' \in [Nbr -> Entry \cup {None}] /\ ppq' \in [Nbr -> Seq(1 .. MaxPackets)]
      /\ tmrs' \in Seq(Timer) /\ unreached' \in [Nbr -> SUBSET (1 .. MaxPackets)]
  BY DEF Becomes, Local
<1>2. adverts \subseteq Advert /\ \A a \in adverts : LinkOf[a.src] \in Iface
  BY DEF QueueInv, TypeOK, AnswersLinked
<1>3. CASE adverts' = adverts
  BY <1>1, <1>2, <1>3 DEF AnswersLinked
<1>4. CASE adverts' # adverts
  <2>1. LinkOf[t] \in s.asked
    BY <1>4 DEF Becomes
  <2>2. PICK a \in Advert : a.src = t /\ adverts' = adverts \cup {a}
    BY <1>4 DEF Becomes
  <2>3. LinkOf[t] \in Iface
    <3>1. s.asked \in SUBSET (Iface \cup {UINT_MAX})
      BY DEF Local
    <3> QED
      BY <2>1, <3>1, ParamAssumption
  <2> QED
    BY <1>1, <1>2, <2>2, <2>3 DEF AnswersLinked
<1> QED
  BY <1>3, <1>4

LEMMA ResolvesKeepsTimed ==
  ASSUME NEW t \in Nbr, NEW s, NEW r, Resolves(s, r, t), Settles(r, t), Becomes(r, t), s.tmrs = tmrs,
         \A u \in Nbr \ {t} : s.ppq[u] # <<>> => Timed(u)
  PROVE  QueueIsTimed'
<1>1. ppq' = r.ppq /\ tmrs' = r.tmrs
  BY DEF Becomes
<1>2. \A u \in Nbr : TimedIn(r.tmrs, u) <=> Timed(u)'
  BY <1>1 DEF TimedIn, Timed
<1>3. \A u \in Nbr : TimedIn(s.tmrs, u) <=> Timed(u)
  BY DEF TimedIn, Timed
<1>4. \A u \in Nbr \ {t} : r.ppq[u] # <<>> => Timed(u)'
  BY <1>2, <1>3 DEF Resolves
<1>5. r.ppq[t] # <<>> => Timed(t)'
  BY <1>2 DEF Settles
<1> QED
  BY <1>1, <1>4, <1>5 DEF QueueIsTimed

LEMMA NAUpdateIsEntry ==
  ASSUME NEW e \in Entry, NEW ll \in LLAddr, NEW solicited \in BOOLEAN, NEW override \in BOOLEAN
  PROVE  NAUpdate(e, ll, solicited, override).entry \in Entry
<1> DEFINE st == IF solicited THEN "REACHABLE" ELSE "STALE"
           rt == IF solicited THEN "REACHABLE" ELSE IF ll # e.ll THEN "STALE" ELSE e.state
           ot == IF e.state = "REACHABLE" THEN "STALE" ELSE e.state
<1>1. /\ st \in {"INCOMPLETE", "REACHABLE", "STALE"} /\ rt \in {"INCOMPLETE", "REACHABLE", "STALE"}
      /\ ot \in {"INCOMPLETE", "REACHABLE", "STALE"}
  BY DEF Entry
<1>2. \/ NAUpdate(e, ll, solicited, override).entry = [e EXCEPT !.ll = ll, !.state = st]
      \/ NAUpdate(e, ll, solicited, override).entry = [e EXCEPT !.ll = ll, !.state = rt]
      \/ NAUpdate(e, ll, solicited, override).entry = [e EXCEPT !.state = ot]
  BY DEF NAUpdate
<1> HIDE DEF st, rt, ot
<1>3. /\ [e EXCEPT !.ll = ll, !.state = st] \in Entry /\ [e EXCEPT !.ll = ll, !.state = rt] \in Entry
      /\ [e EXCEPT !.state = ot] \in Entry
  BY <1>1 DEF Entry
<1> QED
  BY <1>2, <1>3

LEMMA CancelledAreTimers ==
  ASSUME NEW t \in Nbr, tmrs \in Seq(Timer)
  PROVE  /\ CancelTimers(t) \in Seq(Timer)
         /\ \A u \in Nbr \ {t} : Timed(u) => TimedIn(CancelTimers(t), u)
<1> DEFINE mine == {k \in DOMAIN tmrs : tmrs[k].targetAddr = t}
           first == CHOOSE k \in mine : \A j \in mine : k <= j
           run == {k \in mine : \A j \in first .. k : j \in mine}
           gone == IF IsMarker(tmrs[first]) THEN run ELSE {first}
<1>1. CASE mine = {}
  BY <1>1 DEF CancelTimers, TimedIn, Timed
<1>2. CASE mine # {}
  <2>1. CancelTimers(t) = Without(tmrs, gone)
    BY <1>2 DEF CancelTimers
  <2>2. gone \subseteq mine
    <3>1. \E k \in mine : \A j \in mine : k <= j
      <4>1. mine \in SUBSET Nat
        BY LenProperties
      <4> HIDE DEF mine
      <4> QED
        BY <1>2, <4>1, LeastNat
    <3>2. first \in mine
      BY <3>1
    <3> HIDE DEF first
    <3> QED
      BY <3>2
  <2> HIDE DEF gone
  <2>3. Without(tmrs, gone) \in Seq(Timer)
    BY WithoutThins, Zenon
  <2>4. ASSUME NEW u \in Nbr \ {t}, Timed(u) PROVE TimedIn(Without(tmrs, gone), u)
    <3>1. PICK k \in DOMAIN tmrs : tmrs[k].targetAddr = u /\ ~ IsMarker(tmrs[k])
      BY <2>4 DEF Timed
    <3>2. k \in DOMAIN tmrs \ gone
      BY <2>2, <3>1
    <3> QED
      BY <3>1, <3>2, WithoutKeepsTimers
  <2> QED
    BY <2>1, <2>3, <2>4
<1> QED
  BY <1>1, <1>2

\* A packet at the head of the transit, and the state with it queued.
LEMMA HeadQueued ==
  ASSUME TypeOK, transit # <<>>
  PROVE  /\ Head(transit) \in Packet /\ Tail(transit) \in Seq(Packet)
         /\ LET p == Head(transit)
            IN  [Now EXCEPT !.ppq[p.nextHop] = Append(@, p.number)] \in Local
<1>1. Head(transit) \in Packet /\ Tail(transit) \in Seq(Packet)
  BY HeadTailProperties DEF TypeOK
<1>2. PICK p \in Packet : p = Head(transit)
  BY <1>1
<1>3. p.nextHop \in Nbr /\ p.number \in 1 .. MaxPackets
  BY DEF Packet
<1>4. Append(ppq[p.nextHop], p.number) \in Seq(1 .. MaxPackets)
  BY <1>3, AppendProperties DEF TypeOK
<1>5. [ppq EXCEPT ![p.nextHop] = Append(@, p.number)] \in [Nbr -> Seq(1 .. MaxPackets)]
  BY <1>3, <1>4 DEF TypeOK
<1>6. [Now EXCEPT !.ppq[p.nextHop] = Append(@, p.number)]
        = [Now EXCEPT !.ppq = [ppq EXCEPT ![p.nextHop] = Append(@, p.number)]]
  BY DEF Now
<1> DEFINE qs == [ppq EXCEPT ![p.nextHop] = Append(@, p.number)]
<1> HIDE DEF qs
<1>7. [Now EXCEPT !.ppq = qs] \in Local
  BY <1>5, NowIsLocal DEF Local, qs, Now
<1> QED
  BY <1>1, <1>2, <1>6, <1>7 DEF qs

LEMMA SendAtOnceKeeps ==
  ASSUME QueueInv, NEW t \in Nbr, SendAtOnce(t)
  PROVE  QueueInv'
<1>1. handed[t] + 1 \in 1 .. MaxPackets
  BY ParamAssumption DEF QueueInv, TypeOK, SendAtOnce
<1>2. Append(sent[t], handed[t] + 1) \in Seq(1 .. MaxPackets)
  BY <1>1, AppendProperties DEF QueueInv, TypeOK
<1>3. TypeOK'
  <2>1. sent' \in [Nbr -> Seq(1 .. MaxPackets)] /\ dropped' \in [Nbr -> SUBSET (1 .. MaxPackets)]
    BY <1>1, <1>2 DEF QueueInv, TypeOK, SendAtOnce
  <2> QED
    BY <1>1, <2>1 DEF QueueInv, TypeOK, SendAtOnce
<1>4. AnswersLinked' /\ QueueIsTimed'
  BY DEF QueueInv, AnswersLinked, QueueIsTimed, Timed, SendAtOnce
<1> QED
  BY <1>3, <1>4 DEF QueueInv

LEMMA SendPendingKeeps ==
  ASSUME QueueInv, NEW t \in Nbr, SendPending(t)
  PROVE  QueueInv'
<1> DEFINE i == NextHopIface(t)
           p == [nextHop |-> t, ifIndex |-> i, number |-> handed[t] + 1]
<1>1. handed[t] + 1 \in 1 .. MaxPackets
  BY ParamAssumption DEF QueueInv, TypeOK, SendPending
<1>2. i \in Iface \cup {UINT_MAX}
  <2>1. 0 \in Iface
    BY ParamAssumption DEF Iface
  <2>2. ne[t] # None => ne[t].ifIndex \in Iface \cup {UINT_MAX}
    BY DEF QueueInv, TypeOK, Entry
  <2>3. OnLink[t] # NoIface => OnLink[t] \in Iface
    BY ParamAssumption
  <2> QED
    BY <2>1, <2>2, <2>3 DEF NextHopIface
<1> HIDE DEF i
<1>3. p \in Packet
  BY <1>1, <1>2 DEF Packet
<1>4. Append(transit, p) \in Seq(Packet)
  BY <1>3, AppendProperties DEF QueueInv, TypeOK
<1>5. transit' = Append(transit, p)
  BY DEF SendPending, i
<1> HIDE DEF p
<1>6. TypeOK'
  BY <1>1, <1>4, <1>5 DEF QueueInv, TypeOK, SendPending
<1>7. AnswersLinked' /\ QueueIsTimed'
  BY DEF QueueInv, AnswersLinked, QueueIsTimed, Timed, SendPending
<1> QED
  BY <1>6, <1>7 DEF QueueInv

LEMMA PacketPendsKeeps ==
  ASSUME QueueInv, ~ crashed, PacketPends
  PROVE  QueueInv'
<1>1. PICK p \in Packet : p = Head(transit)
  BY HeadQueued DEF PacketPends, QueueInv
<1>2. PICK queued \in Local : queued = [Now EXCEPT !.ppq[p.nextHop] = Append(@, p.number)]
  BY <1>1, HeadQueued DEF PacketPends, QueueInv
<1> DEFINE t == p.nextHop
           entry == IF ne[t] # None THEN ne[t]
                    ELSE [state |-> "INCOMPLETE", ll |-> None, ifIndex |-> p.ifIndex]
<1>3. t \in Nbr /\ p.number \in 1 .. MaxPackets /\ p.ifIndex \in Iface \cup {UINT_MAX}
  BY DEF Packet
<1>4. transit' \in Seq(Packet)
  BY HeadQueued DEF PacketPends, QueueInv
<1>5. entry \in Entry
  BY <1>3 DEF QueueInv, TypeOK, Entry
<1>6. TypeOK /\ QueueIsTimed /\ AnswersLinked
  BY DEF QueueInv
<1>7. /\ queued.ppq = [ppq EXCEPT ![t] = Append(@, p.number)] /\ queued.tmrs = tmrs
      /\ queued.ne = ne /\ queued.unreached = unreached
  BY <1>2 DEF Now
<1>8. Append(ppq[t], p.number) # <<>> /\ Len(Append(ppq[t], p.number)) = Len(ppq[t]) + 1
      /\ Len(ppq[t]) \in Nat /\ (ppq[t] # <<>> <=> Len(ppq[t]) # 0)
  <2>1. ppq[t] \in Seq(1 .. MaxPackets)
    BY <1>3, <1>6 DEF TypeOK
  <2> QED
    BY <1>3, <2>1, AppendProperties, LenProperties, EmptySeq
<1> HIDE DEF entry
<1>9. CASE /\ Len(queued.ppq[t]) > 1 /\ ppq' = queued.ppq
           /\ UNCHANGED <<ne, tmrs, adverts, crashed, sent, unreached, dropped>>
  <2>1. ppq' \in [Nbr -> Seq(1 .. MaxPackets)]
    BY <1>9 DEF Local
  <2>2. TypeOK' /\ AnswersLinked'
    BY <1>4, <1>6, <1>9, <2>1 DEF TypeOK, AnswersLinked, PacketPends
  <2>3. ppq[t] # <<>>
    <3>1. queued.ppq[t] = Append(ppq[t], p.number)
      BY <1>3, <1>6, <1>7 DEF TypeOK
    <3> QED
      BY <1>8, <1>9, <3>1
  <2>4. \A u \in Nbr : ppq'[u] # <<>> => ppq[u] # <<>>
    BY <1>3, <1>6, <1>7, <1>9, <2>3 DEF TypeOK
  <2>5. QueueIsTimed'
    BY <1>6, <1>9, <2>4 DEF QueueIsTimed, Timed
  <2> QED
    BY <2>2, <2>5 DEF QueueInv
<1>10. CASE /\ ppq' = queued.ppq /\ crashed' = TRUE
            /\ UNCHANGED <<ne, tmrs, adverts, sent, unreached, dropped>>
  <2>1. ppq' \in [Nbr -> Seq(1 .. MaxPackets)]
    BY <1>10 DEF Local
  <2>2. TypeOK' /\ AnswersLinked'
    BY <1>4, <1>6, <1>10, <2>1 DEF TypeOK, AnswersLinked, PacketPends
  <2> QED
    BY <1>10, <2>2 DEF QueueInv, QueueIsTimed
<1>11. CASE /\ sent' = [sent EXCEPT ![t] = Append(@, p.number)]
            /\ UNCHANGED <<ne, ppq, tmrs, adverts, crashed, unreached, dropped>>
  <2>1. Append(sent[t], p.number) \in Seq(1 .. MaxPackets)
    BY <1>3, <1>6, AppendProperties DEF TypeOK
  <2>2. TypeOK' /\ AnswersLinked'
    BY <1>3, <1>4, <1>6, <1>11, <2>1 DEF TypeOK, AnswersLinked, PacketPends
  <2>3. QueueIsTimed'
    BY <1>6, <1>11 DEF QueueIsTimed, Timed
  <2> QED
    BY <2>2, <2>3 DEF QueueInv
<1>12. CASE /\ Becomes(initiateNgbrSol([queued EXCEPT !.ne[t] = entry], t, p.ifIndex), t)
            /\ UNCHANGED <<sent, crashed, dropped>>
  <2> DEFINE s == [queued EXCEPT !.ne[t] = entry]
             r == initiateNgbrSol(s, t, p.ifIndex)
  <2>1. s \in Local /\ s.ppq = queued.ppq /\ s.tmrs = tmrs
    BY <1>3, <1>5, <1>7 DEF Local
  <2> HIDE DEF s
  <2>2. Resolves(s, r, t) /\ Settles(r, t)
    BY <1>3, <2>1, InitiateResolves
  <2> HIDE DEF r
  <2>3. Becomes(r, t) /\ r \in Local
    BY <1>12, <2>2 DEF r, s, Resolves
  <2>4. \A u \in Nbr \ {t} : s.ppq[u] # <<>> => Timed(u)
    BY <1>3, <1>6, <1>7, <2>1 DEF TypeOK, QueueIsTimed
  <2>5. QueueIsTimed'
    BY <1>3, <2>1, <2>2, <2>3, <2>4, ResolvesKeepsTimed
  <2>6. /\ ne' \in [Nbr -> Entry \cup {None}] /\ ppq' \in [Nbr -> Seq(1 .. MaxPackets)]
        /\ tmrs' \in Seq(Timer) /\ unreached' \in [Nbr -> SUBSET (1 .. MaxPackets)]
        /\ adverts' \subseteq Advert /\ AnswersLinked'
    BY <1>3, <2>3, BecomesKeeps
  <2>7. TypeOK'
    BY <1>4, <1>6, <1>12, <2>6 DEF TypeOK, PacketPends
  <2> QED
    BY <2>5, <2>6, <2>7 DEF QueueInv
<1>13. CASE /\ dropped' = [dropped EXCEPT ![t] = @ \cup {p.number}] /\ crashed' = TRUE
            /\ UNCHANGED <<ne, ppq, tmrs, adverts, sent, unreached>>
  <2>1. dropped' \in [Nbr -> SUBSET (1 .. MaxPackets)]
    BY <1>3, <1>6, <1>13 DEF TypeOK
  <2>2. TypeOK' /\ AnswersLinked'
    BY <1>4, <1>6, <1>13, <2>1 DEF TypeOK, AnswersLinked, PacketPends
  <2> QED
    BY <1>13, <2>2 DEF QueueInv, QueueIsTimed
<1> QED
  BY <1>1, <1>2, <1>9, <1>10, <1>11, <1>12, <1>13 DEF PacketPends, entry

\* A timeout resolves the address of its timer.
LEMMA TimeoutResolves ==
  ASSUME QueueInv, NEW k \in DOMAIN tmrs, Timeout(k)
  PROVE  \E t \in Nbr, r \in Local : Resolves(Now, r, t) /\ Settles(r, t) /\ Becomes(r, t)
<1> DEFINE tmr == tmrs[k]
           t == tmr.targetAddr
           s1 == [Now EXCEPT !.tmrs[k].counter = @ + 1, !.asked = {tmr.ifIndex}]
           r == IF tmr.counter < MAX_MULTICAST_SOLICIT THEN s1 ELSE failedAddrRes(Now, t, k)
<1>1. TypeOK /\ QueueIsTimed /\ AnswersLinked /\ Now \in Local
  BY NowIsLocal DEF QueueInv
<1>2. tmrs \in Seq(Timer) /\ tmr \in Timer /\ t \in Nbr
  <2>1. tmrs \in Seq(Timer)
    BY <1>1 DEF TypeOK
  <2>2. tmrs[k] \in Timer
    BY <2>1, LenProperties
  <2>3. tmrs[k].targetAddr \in Nbr
    BY <2>2 DEF Timer
  <2> QED
    BY <2>1, <2>2, <2>3
<1>3. Now.tmrs = tmrs /\ Now.ppq = ppq /\ Now.unreached = unreached /\ Now.ne = ne
  BY DEF Now
<1>4. Resolves(Now, r, t) /\ Settles(r, t)
  <2>1. CASE tmr.counter < MAX_MULTICAST_SOLICIT
    <3> DEFINE ts == [tmrs EXCEPT ![k].counter = @ + 1]
    <3>1. [tmr EXCEPT !.counter = @ + 1] \in Timer
      <4>1. tmr \in Timer
        BY <1>2
      <4>2. tmr.counter + 1 \in 0 .. MAX_MULTICAST_SOLICIT
        BY <2>1, <4>1, ParamAssumption DEF Timer
      <4> HIDE DEF tmr
      <4> QED
        BY <4>1, <4>2 DEF Timer
    <3>2. ts \in Seq(Timer) /\ DOMAIN ts = DOMAIN tmrs
      <4>1. PICK x \in Timer : x = [tmr EXCEPT !.counter = @ + 1]
        BY <3>1
      <4>2. ts = [tmrs EXCEPT ![k] = x]
        BY <4>1
      <4>3. DOMAIN tmrs = 1 .. Len(tmrs) /\ k \in 1 .. Len(tmrs)
        BY <1>2, LenProperties
      <4>4. [tmrs EXCEPT ![k] = x] \in Seq(Timer)
        BY <1>2, <4>3, ExceptSeq, Zenon
      <4> QED
        BY <4>2, <4>4
    <3>3. \A j \in DOMAIN tmrs : ts[j].targetAddr = tmrs[j].targetAddr /\ ts[j].ifIndex = tmrs[j].ifIndex
      <4> TAKE j \in DOMAIN tmrs
      <4>1. tmrs[j] \in Timer
        BY <1>2, LenProperties
      <4> QED
        BY <1>2, <4>1 DEF Timer
    <3> HIDE DEF ts
    <3>4. s1 = [Now EXCEPT !.tmrs = ts, !.asked = {tmr.ifIndex}]
      BY <1>3 DEF ts, Now
    <3>5. s1 \in Local /\ s1.ppq = ppq /\ s1.unreached = unreached /\ s1.tmrs = ts /\ s1.ne = ne
      <4>1. tmr.ifIndex \in Iface \cup {UINT_MAX}
        BY <1>2 DEF Timer
      <4> QED
        BY <1>1, <1>3, <3>2, <3>4, <4>1 DEF Local, Now
    <3>6. \A u : TimedIn(tmrs, u) => TimedIn(ts, u)
      BY <3>2, <3>3 DEF TimedIn, IsMarker
    <3>7. TimedIn(ts, t)
      BY <3>2, <3>3 DEF TimedIn, IsMarker, Timeout
    <3>8. r = s1
      BY <2>1
    <3> HIDE DEF s1, t, r
    <3> QED
      BY <1>3, <3>5, <3>6, <3>7, <3>8 DEF Resolves, Settles
  <2>2. CASE ~ tmr.counter < MAX_MULTICAST_SOLICIT
    <3>1. r = failedAddrRes(Now, t, k)
      BY <2>2
    <3>2. k \in DOMAIN Now.tmrs => Now.tmrs[k].targetAddr = t
      BY <1>3
    <3>3. Resolves(Now, failedAddrRes(Now, t, k), t) /\ Settles(failedAddrRes(Now, t, k), t)
      BY <1>1, <1>2, <3>2, FailedResolves, Zenon
    <3> QED
      BY <3>1, <3>3, Zenon
  <2> QED
    BY <2>1, <2>2
<1>5. Becomes(r, t)
  BY DEF Timeout
<1> HIDE DEF r, t
<1>6. r \in Local
  BY <1>4 DEF Resolves
<1> QED
  BY <1>2, <1>4, <1>5, <1>6

LEMMA TimeoutKeeps ==
  ASSUME QueueInv, ~ crashed, NEW k \in DOMAIN tmrs, Timeout(k)
  PROVE  QueueInv'
<1>1. TypeOK /\ QueueIsTimed /\ AnswersLinked
  BY DEF QueueInv
<1>2. PICK t \in Nbr, r \in Local : Resolves(Now, r, t) /\ Settles(r, t) /\ Becomes(r, t)
  BY TimeoutResolves
<1>3. Now.tmrs = tmrs /\ Now.ppq = ppq /\ Now.unreached = unreached /\ Now.ne = ne
  BY DEF Now
<1>4. \A u \in Nbr \ {t} : Now.ppq[u] # <<>> => Timed(u)
  BY <1>1, <1>3 DEF QueueIsTimed
<1>5. QueueIsTimed'
  BY <1>2, <1>3, <1>4, ResolvesKeepsTimed
<1>6. /\ ne' \in [Nbr -> Entry \cup {None}] /\ ppq' \in [Nbr -> Seq(1 .. MaxPackets)]
      /\ tmrs' \in Seq(Timer) /\ unreached' \in [Nbr -> SUBSET (1 .. MaxPackets)]
      /\ adverts' \subseteq Advert /\ AnswersLinked'
  BY <1>2, BecomesKeeps
<1>7. TypeOK'
  BY <1>1, <1>6 DEF TypeOK, Timeout
<1> QED
  BY <1>5, <1>6, <1>7 DEF QueueInv

LEMMA processNgbrAdKeeps ==
  ASSUME QueueInv, NEW t \in Nbr, NEW i \in Iface, NEW ll \in LLAddr, NEW solicited \in BOOLEAN,
         NEW override \in BOOLEAN, processNgbrAd(t, i, ll, solicited, override), adverts' \subseteq adverts
  PROVE  QueueInv'
<1> DEFINE u == NAUpdate(ne[t], ll, solicited, override)
<1>1. TypeOK /\ QueueIsTimed /\ AnswersLinked
  BY DEF QueueInv
<1>2. ne[t] # None => u.entry \in Entry
  BY <1>1, NAUpdateIsEntry DEF TypeOK
<1>3. ne[t] # None => [u.entry EXCEPT !.ifIndex = i] \in Entry
  BY <1>2 DEF Entry
<1>4. adverts' \subseteq Advert /\ AnswersLinked'
  BY <1>1 DEF TypeOK, AnswersLinked
<1>5. sent[t] \o ppq[t] \in Seq(1 .. MaxPackets) /\ <<>> \in Seq(1 .. MaxPackets)
  BY <1>1, ConcatProperties, EmptySeq DEF TypeOK
<1>6. CASE UNCHANGED <<ne, ppq, tmrs, sent>>
  BY <1>1, <1>4, <1>6 DEF QueueInv, TypeOK, QueueIsTimed, Timed, processNgbrAd
<1>7. CASE ne[t] # None /\ ~ u.pending
  <2> HIDE DEF u
  <2>1. ne' = [ne EXCEPT ![t] = u.entry] /\ UNCHANGED <<ppq, tmrs, sent>>
    BY <1>7 DEF processNgbrAd, u
  <2>2. ne' \in [Nbr -> Entry \cup {None}]
    BY <1>1, <1>2, <1>7, <2>1 DEF TypeOK
  <2> QED
    BY <1>1, <1>4, <2>1, <2>2 DEF QueueInv, TypeOK, QueueIsTimed, Timed, processNgbrAd
<1>8. CASE ne[t] # None /\ u.pending
  <2> DEFINE e == [u.entry EXCEPT !.ifIndex = i]
             ts == CancelTimers(t)
  <2>1. /\ ne' = [ne EXCEPT ![t] = e] /\ sent' = [sent EXCEPT ![t] = sent[t] \o ppq[t]]
        /\ ppq' = [ppq EXCEPT ![t] = <<>>] /\ tmrs' = ts
    BY <1>8 DEF processNgbrAd
  <2>2. ts \in Seq(Timer) /\ \A v \in Nbr \ {t} : Timed(v) => TimedIn(ts, v)
    BY <1>1, CancelledAreTimers DEF TypeOK
  <2> HIDE DEF e, ts, u
  <2>3. e \in Entry
    BY <1>3, <1>8 DEF e
  <2>4. TypeOK'
    BY <1>1, <1>4, <1>5, <2>1, <2>2, <2>3 DEF TypeOK, processNgbrAd
  <2>5. QueueIsTimed'
    BY <1>1, <2>1, <2>2 DEF TypeOK, QueueIsTimed, Timed, TimedIn, processNgbrAd
  <2> QED
    BY <1>4, <2>4, <2>5 DEF QueueInv
<1> QED
  BY <1>6, <1>7, <1>8 DEF processNgbrAd

LEMMA processNgbrSolKeeps ==
  ASSUME QueueInv, NEW t \in Nbr, NEW ll \in LLAddr, NEW ours, processNgbrSol(t, ll, ours)
  PROVE  QueueInv'
<1> DEFINE i == LinkOf[t]
           old == ne[t]
           new == IF old = None THEN [state |-> "STALE", ll |-> ll, ifIndex |-> i]
                  ELSE IF old.ll # ll THEN [old EXCEPT !.ll = ll, !.state = "STALE"]
                  ELSE old
<1>1. TypeOK /\ QueueIsTimed /\ AnswersLinked
  BY DEF QueueInv
<1>2. new \in Entry
  <2>1. i \in Iface
    BY ParamAssumption DEF processNgbrSol
  <2>2. old # None => old \in Entry
    BY <1>1 DEF TypeOK
  <2> QED
    BY <2>1, <2>2 DEF Entry
<1>3. ne' = [ne EXCEPT ![t] = new]
  BY DEF processNgbrSol
<1> HIDE DEF new, old, i
<1>4. sent[t] \o ppq[t] \in Seq(1 .. MaxPackets) /\ <<>> \in Seq(1 .. MaxPackets)
  BY <1>1, ConcatProperties, EmptySeq DEF TypeOK
<1>5. \/ sent' = [sent EXCEPT ![t] = sent[t] \o ppq[t]] /\ ppq' = [ppq EXCEPT ![t] = <<>>]
      \/ UNCHANGED <<sent, ppq>>
  BY DEF processNgbrSol
<1>6. UNCHANGED <<tmrs, addrs, settled, router, transit, adverts, crashed, handed, unreached, dropped>>
  BY DEF processNgbrSol
<1>7. TypeOK'
  BY <1>1, <1>2, <1>3, <1>4, <1>5, <1>6 DEF TypeOK
<1>8. QueueIsTimed'
  BY <1>1, <1>5, <1>6 DEF TypeOK, QueueIsTimed, Timed
<1>9. AnswersLinked'
  BY <1>1, <1>6 DEF AnswersLinked
<1> QED
  BY <1>7, <1>8, <1>9 DEF QueueInv

LEMMA AnswerKeeps ==
  ASSUME QueueInv, NEW a \in adverts, Answer(a)
  PROVE  QueueInv'
<1>1. a \in Advert /\ LinkOf[a.src] \in Iface
  BY DEF QueueInv, TypeOK, AnswersLinked
<1>2. a.src \in Nbr /\ a.ll \in LLAddr /\ a.override \in BOOLEAN
  BY <1>1 DEF Advert
<1>3. processNgbrAd(a.src, LinkOf[a.src], a.ll, TRUE, a.override) /\ adverts' \subseteq adverts
  BY DEF Answer
<1> QED
  BY <1>1, <1>2, <1>3, processNgbrAdKeeps

LEMMA UnsolicitedKeeps ==
  ASSUME QueueInv, NEW t \in Nbr, NEW ll \in LLAddr, NEW override \in BOOLEAN,
         Unsolicited(t, ll, override)
  PROVE  QueueInv'
<1>1. LinkOf[t] \in Iface
  BY ParamAssumption DEF Unsolicited
<1>2. processNgbrAd(t, LinkOf[t], ll, FALSE, override) /\ adverts' \subseteq adverts
  BY DEF Unsolicited
<1> QED
  BY <1>1, <1>2, processNgbrAdKeeps

LEMMA QueueStep == QueueInv /\ [Next]_vars => QueueInv'
<1> SUFFICES ASSUME QueueInv, [Next]_vars PROVE QueueInv'
  OBVIOUS
<1>1. ASSUME NEW t \in Nbr, SendAtOnce(t) PROVE QueueInv'
  BY <1>1, SendAtOnceKeeps
<1>2. ASSUME NEW t \in Nbr, SendPending(t) PROVE QueueInv'
  BY <1>2, SendPendingKeeps
<1>3. CASE ~ crashed /\ PacketPends
  BY <1>3, PacketPendsKeeps
<1>4. ASSUME ~ crashed, NEW k \in DOMAIN tmrs, Timeout(k) PROVE QueueInv'
  BY <1>4, TimeoutKeeps
<1>5. ASSUME NEW a \in adverts, Answer(a) PROVE QueueInv'
  BY <1>5, AnswerKeeps
<1>6. ASSUME NEW t \in Nbr, NEW ll \in LLAddr, NEW b \in BOOLEAN,
             Unsolicited(t, ll, b) \/ processNgbrSol(t, ll, b)
      PROVE  QueueInv'
  BY <1>6, UnsolicitedKeeps, processNgbrSolKeeps
<1>7. ASSUME NEW i \in Iface, AssignAddr(i) PROVE QueueInv'
  BY <1>7 DEF QueueInv, TypeOK, AnswersLinked, QueueIsTimed, Timed, AssignAddr
<1>8. CASE Settle
  BY <1>8 DEF QueueInv, TypeOK, AnswersLinked, QueueIsTimed, Timed, Settle
<1>9. CASE RouterAppears
  BY <1>9 DEF QueueInv, TypeOK, AnswersLinked, QueueIsTimed, Timed, RouterAppears
<1>10. CASE UNCHANGED vars
  BY <1>10 DEF QueueInv, TypeOK, AnswersLinked, QueueIsTimed, Timed, vars
<1> QED
  BY <1>1, <1>2, <1>3, <1>4, <1>5, <1>6, <1>7, <1>8, <1>9, <1>10 DEF Next

\* The inductive invariant: the types, what may wait for an answer, and the timers of
\* the queues, whatever is asked, answered and lost.
THEOREM QueueInvariance == Spec => []QueueInv
<1>1. Init => QueueInv
  <2> SUFFICES ASSUME Init PROVE QueueInv
    OBVIOUS
  <2>1. <<>> \in Seq(Timer) /\ <<>> \in Seq(Packet) /\ <<>> \in Seq(1 .. MaxPackets)
    BY EmptySeq
  <2>2. 0 \in 0 .. MaxPackets
    BY ParamAssumption
  <2>3. TypeOK
    BY <2>1, <2>2 DEF Init, TypeOK
  <2> QED
    BY <2>3 DEF Init, QueueInv, AnswersLinked, QueueIsTimed
<1> QED
  BY <1>1, QueueStep, PTL DEF Spec

\* Every variable of AddressResolution keeps its type, for any neighbours and interfaces
\* and any number of packets and solicitations.
THEOREM TypeCorrect == Spec => []TypeOK
<1>1. QueueInv => TypeOK
  BY DEF QueueInv
<1> QED
  BY <1>1, QueueInvariance, PTL

\* Whatever waits for an address has a scheduled timer that will answer for it, on any
\* number of interfaces and whichever of them cannot ask (failedAddrRes, sendNgbrSol).
THEOREM QueuesAreTimed == Spec => []QueueIsTimed
<1>1. QueueInv => QueueIsTimed
  BY DEF QueueInv
<1> QED
  BY <1>1, QueueInvariance, PTL

-----------------------------------------------------------------------------
(* Every packet has one fate.                                                   *)

\* The packets of one address: what was sent, what waits, what is on its way to this
\* module and what was reported or dropped share the numbers 1 .. n and have none twice.
Apart(done, queue, coming, lost, n) ==
  /\ IsInjective(done) /\ IsInjective(queue)
  /\ Range(done) \cup Range(queue) \cup coming \cup lost = 1 .. n
  /\ Range(done) \cap Range(queue) = {} /\ Range(done) \cap coming = {}
  /\ Range(done) \cap lost = {} /\ Range(queue) \cap coming = {}
  /\ Range(queue) \cap lost = {} /\ coming \cap lost = {}

Coming(t) == {transit[k].number : k \in {j \in DOMAIN transit : transit[j].nextHop = t}}

Lost(t) == unreached[t] \cup dropped[t]

FateOf(t) == /\ Apart(sent[t], ppq[t], Coming(t), Lost(t), handed[t])
             /\ unreached[t] \cap dropped[t] = {}

FateInv == /\ transit = <<>> \/ \E p \in Packet : transit = <<p>>
           /\ \A t \in Nbr : FateOf(t)

LEMMA EmptyIsInjective ==
  ASSUME NEW s, s = <<>>
  PROVE  IsInjective(s) /\ Range(s) = {}
BY EmptySeq DEF IsInjective, Range

LEMMA AppendIsInjective ==
  ASSUME NEW T, NEW s \in Seq(T), NEW x \in T, IsInjective(s), x \notin Range(s)
  PROVE  IsInjective(Append(s, x)) /\ Range(Append(s, x)) = Range(s) \cup {x}
<1> DEFINE w == Append(s, x)
<1>1. PICK n \in Nat : n = Len(s)
  BY LenProperties
<1>2. /\ DOMAIN s = 1 .. n /\ DOMAIN w = 1 .. n + 1 /\ w[n + 1] = x
      /\ \A k \in 1 .. n : w[k] = s[k]
  BY <1>1, AppendProperties, LenProperties
<1> HIDE DEF w
<1>3. \A k \in 1 .. n : s[k] # x
  BY <1>2 DEF Range
<1>4. \A j, k \in 1 .. n : s[j] = s[k] => j = k
  BY <1>2 DEF IsInjective
<1>5. \A k \in 1 .. n + 1 : k \in 1 .. n \/ k = n + 1
  OBVIOUS
<1>6. ASSUME NEW j \in 1 .. n + 1, NEW k \in 1 .. n + 1, w[j] = w[k] PROVE j = k
  BY <1>2, <1>3, <1>4, <1>5, <1>6
<1>7. IsInjective(w)
  BY <1>2, <1>6 DEF IsInjective
<1>8. Range(w) = Range(s) \cup {x}
  <2>1. ASSUME NEW y \in Range(w) PROVE y \in Range(s) \cup {x}
    <3>1. PICK k \in DOMAIN w : y = w[k]
      BY DEF Range
    <3> QED
      BY <1>2, <1>5, <3>1 DEF Range
  <2>2. ASSUME NEW y \in Range(s) PROVE y \in Range(w)
    <3>1. PICK k \in 1 .. n : y = s[k]
      BY <1>2 DEF Range
    <3>2. k \in DOMAIN w /\ w[k] = y
      BY <1>2, <3>1
    <3> QED
      BY <3>2 DEF Range
  <2>3. x \in Range(w)
    <3>1. n + 1 \in DOMAIN w /\ w[n + 1] = x
      BY <1>2
    <3> QED
      BY <3>1 DEF Range
  <2> QED
    BY <2>1, <2>2, <2>3
<1> QED
  BY <1>7, <1>8 DEF w

LEMMA ConcatIsInjective ==
  ASSUME NEW T, NEW s \in Seq(T), NEW q \in Seq(T), IsInjective(s), IsInjective(q),
         Range(s) \cap Range(q) = {}
  PROVE  IsInjective(s \o q) /\ Range(s \o q) = Range(s) \cup Range(q)
<1> DEFINE w == s \o q
<1>1. PICK n \in Nat : n = Len(s)
  BY LenProperties
<1>2. PICK m \in Nat : m = Len(q)
  BY LenProperties
<1>3. /\ DOMAIN s = 1 .. n /\ DOMAIN q = 1 .. m /\ DOMAIN w = 1 .. n + m
      /\ \A k \in 1 .. n + m : w[k] = IF k <= n THEN s[k] ELSE q[k - n]
  BY <1>1, <1>2, ConcatProperties, LenProperties
<1> HIDE DEF w
<1>4. \A j, k \in 1 .. n : s[j] = s[k] => j = k
  BY <1>3 DEF IsInjective
<1>5. \A j, k \in 1 .. m : q[j] = q[k] => j = k
  BY <1>3 DEF IsInjective
<1>6. \A j \in 1 .. n : \A k \in 1 .. m : s[j] # q[k]
  BY <1>3 DEF Range
<1>7. \A k \in 1 .. n + m : \/ k \in 1 .. n /\ w[k] = s[k]
                            \/ k > n /\ k - n \in 1 .. m /\ w[k] = q[k - n]
  BY <1>3
<1>8. ASSUME NEW j \in 1 .. n + m, NEW k \in 1 .. n + m, w[j] = w[k] PROVE j = k
  <2>1. CASE j \in 1 .. n /\ w[j] = s[j]
    BY <1>4, <1>6, <1>7, <1>8, <2>1
  <2>2. CASE j - n \in 1 .. m /\ w[j] = q[j - n]
    <3>1. k > n /\ k - n \in 1 .. m /\ w[k] = q[k - n]
      BY <1>6, <1>7, <1>8, <2>2
    <3>2. j - n = k - n
      BY <1>5, <1>8, <2>2, <3>1
    <3> QED
      BY <3>2
  <2> QED
    BY <1>7, <2>1, <2>2
<1>9. IsInjective(w)
  BY <1>3, <1>8 DEF IsInjective
<1>10. Range(w) = Range(s) \cup Range(q)
  BY RangeConcatenation DEF w
<1> QED
  BY <1>9, <1>10 DEF w

\* What can happen to the packets of an address.
LEMMA ApartMoves ==
  ASSUME NEW T, NEW se \in Seq(T), NEW q \in Seq(T), NEW tr, NEW un, NEW n, Apart(se, q, tr, un, n)
  PROVE  /\ Apart(se \o q, <<>>, tr, un, n)
         /\ Apart(se, <<>>, tr, un \cup Range(q), n)
         /\ \A x \in T : tr = {x} => /\ Apart(Append(se, x), q, {}, un, n)
                                     /\ Apart(se, Append(q, x), {}, un, n)
                                     /\ Apart(se, q, {}, un \cup {x}, n)
<1>1. Apart(se \o q, <<>>, tr, un, n)
  <2>1. IsInjective(se \o q) /\ Range(se \o q) = Range(se) \cup Range(q)
    BY ConcatIsInjective DEF Apart
  <2> DEFINE w == se \o q
             e == <<>>
  <2>2. IsInjective(e) /\ Range(e) = {}
    BY EmptyIsInjective, Zenon
  <2>3. IsInjective(w) /\ Range(w) = Range(se) \cup Range(q)
    BY <2>1
  <2> HIDE DEF w, e
  <2>4. Apart(w, e, tr, un, n)
    BY <2>2, <2>3 DEF Apart
  <2> QED
    BY <2>4 DEF w, e
<1>2. Apart(se, <<>>, tr, un \cup Range(q), n)
  <2> DEFINE e == <<>>
             r == un \cup Range(q)
  <2>1. IsInjective(e) /\ Range(e) = {}
    BY EmptyIsInjective, Zenon
  <2> HIDE DEF e
  <2>2. Apart(se, e, tr, r, n)
    BY <2>1 DEF Apart
  <2> QED
    BY <2>2 DEF e
<1>3. ASSUME NEW x \in T, tr = {x} PROVE Apart(Append(se, x), q, {}, un, n)
  <2> DEFINE w == Append(se, x)
  <2>1. IsInjective(w) /\ Range(w) = Range(se) \cup {x}
    BY <1>3, AppendIsInjective DEF Apart
  <2> HIDE DEF w
  <2>2. Apart(w, q, {}, un, n)
    BY <1>3, <2>1 DEF Apart
  <2> QED
    BY <2>2 DEF w
<1>4. ASSUME NEW x \in T, tr = {x} PROVE Apart(se, Append(q, x), {}, un, n)
  <2> DEFINE w == Append(q, x)
  <2>1. IsInjective(w) /\ Range(w) = Range(q) \cup {x}
    BY <1>4, AppendIsInjective DEF Apart
  <2> HIDE DEF w
  <2>2. Apart(se, w, {}, un, n)
    BY <1>4, <2>1 DEF Apart
  <2> QED
    BY <2>2 DEF w
<1>5. ASSUME NEW x \in T, tr = {x} PROVE Apart(se, q, {}, un \cup {x}, n)
  BY <1>5 DEF Apart
<1> QED
  BY <1>1, <1>2, <1>3, <1>4, <1>5

LEMMA ApartGrows ==
  ASSUME NEW T, NEW se \in Seq(T), NEW q \in Seq(T), NEW tr, NEW un, NEW n \in Nat,
         Apart(se, q, tr, un, n), n + 1 \in T
  PROVE  /\ Apart(Append(se, n + 1), q, tr, un, n + 1)
         /\ Apart(se, q, tr, un \cup {n + 1}, n + 1) /\ n + 1 \notin un
         /\ tr = {} => Apart(se, q, {n + 1}, un, n + 1)
<1> DEFINE x == n + 1
           w == Append(se, x)
<1>1. x \notin 1 .. n /\ 1 .. x = 1 .. n \cup {x}
  OBVIOUS
<1>2. Range(se) \cup Range(q) \cup tr \cup un = 1 .. n
  BY DEF Apart
<1>3. x \notin Range(se) /\ x \notin Range(q) /\ x \notin tr /\ x \notin un
  BY <1>1, <1>2
<1> HIDE DEF x
<1>4. IsInjective(w) /\ Range(w) = Range(se) \cup {x}
  BY <1>3, AppendIsInjective DEF Apart, x
<1> HIDE DEF w
<1>5. Apart(w, q, tr, un, x)
  BY <1>1, <1>2, <1>3, <1>4 DEF Apart
<1>6. tr = {} => Apart(se, q, {x}, un, x)
  BY <1>1, <1>2, <1>3 DEF Apart
<1>7. Apart(se, q, tr, un \cup {x}, x)
  BY <1>1, <1>2, <1>3 DEF Apart
<1> QED
  BY <1>3, <1>5, <1>6, <1>7 DEF w, x

\* What is on its way to this module is at most one packet.
LEMMA ComingIs ==
  /\ transit = <<>> => \A t \in Nbr : Coming(t) = {}
  /\ \A p \in Packet : transit = <<p>> =>
       \A t \in Nbr : Coming(t) = IF p.nextHop = t THEN {p.number} ELSE {}
<1>1. ASSUME transit = <<>>, NEW t \in Nbr PROVE Coming(t) = {}
  BY <1>1, EmptySeq DEF Coming
<1>2. ASSUME NEW p \in Packet, transit = <<p>>, NEW t \in Nbr
      PROVE  Coming(t) = IF p.nextHop = t THEN {p.number} ELSE {}
  <2>1. DOMAIN transit = {1} /\ transit[1] = p
    BY <1>2
  <2> QED
    BY <2>1 DEF Coming
<1> QED
  BY <1>1, <1>2

LEMMA ResolvesFate ==
  ASSUME NEW t \in Nbr, NEW s \in Local, NEW r, Resolves(s, r, t), Becomes(r, t), NEW u \in Nbr,
         NEW se \in Seq(1 .. MaxPackets), NEW tr, NEW dr, NEW n,
         Apart(se, s.ppq[u], tr, s.unreached[u] \cup dr, n), s.unreached[u] \cap dr = {}
  PROVE  /\ Apart(se, ppq'[u], tr, unreached'[u] \cup dr, n)
         /\ unreached'[u] \cap dr = {}
<1>1. ppq' = r.ppq /\ unreached' = r.unreached
  BY DEF Becomes
<1>2. PICK q \in Seq(1 .. MaxPackets) : q = s.ppq[u]
  BY DEF Local
<1>3. PICK un : un = s.unreached[u]
  OBVIOUS
<1>4. Apart(se, q, tr, un \cup dr, n) /\ un \cap dr = {}
  BY <1>2, <1>3
<1>5. \/ ppq'[u] = q /\ unreached'[u] = un
      \/ ppq'[u] = <<>> /\ unreached'[u] = un \cup Range(q)
  BY <1>1, <1>2, <1>3 DEF Resolves
<1>6. Apart(se, <<>>, tr, (un \cup dr) \cup Range(q), n)
  BY <1>4, ApartMoves
<1>7. (un \cup dr) \cup Range(q) = (un \cup Range(q)) \cup dr
  OBVIOUS
<1>8. Range(q) \cap dr = {}
  BY <1>4 DEF Apart
<1> QED
  BY <1>4, <1>5, <1>6, <1>7, <1>8

\* The parts of the type invariant that the packets need.
LEMMA FateTypes ==
  ASSUME QueueInv, NEW t \in Nbr
  PROVE  /\ sent[t] \in Seq(1 .. MaxPackets) /\ ppq[t] \in Seq(1 .. MaxPackets)
         /\ handed[t] \in Nat /\ handed[t] <= MaxPackets
BY ParamAssumption DEF QueueInv, TypeOK

LEMMA SendAtOnceFate ==
  ASSUME QueueInv, FateInv, NEW t \in Nbr, SendAtOnce(t)
  PROVE  FateInv'
<1>1. \A u \in Nbr : Coming(u)' = Coming(u)
  BY DEF SendAtOnce, Coming
<1>2. ASSUME NEW u \in Nbr PROVE FateOf(u)'
  <2>1. sent[u] \in Seq(1 .. MaxPackets) /\ ppq[u] \in Seq(1 .. MaxPackets) /\ handed[u] \in Nat
    BY FateTypes
  <2>2. FateOf(u)
    BY DEF FateInv
  <2>3. CASE u = t
    <3> DEFINE x == handed[t] + 1
    <3>1. x \in 1 .. MaxPackets
      BY ParamAssumption, <2>1, <2>3 DEF SendAtOnce
    <3>2. /\ Apart(Append(sent[t], x), ppq[t], Coming(t), Lost(t), x)
          /\ Apart(sent[t], ppq[t], Coming(t), Lost(t) \cup {x}, x) /\ x \notin Lost(t)
      BY <2>1, <2>2, <2>3, <3>1, ApartGrows DEF FateOf
    <3> HIDE DEF x
    <3>3. handed'[t] = x /\ ppq' = ppq /\ unreached' = unreached
      BY DEF SendAtOnce, QueueInv, TypeOK, x
    <3>4. unreached[t] \cap dropped[t] = {}
      BY <2>2, <2>3 DEF FateOf
    <3>5. CASE sent' = [sent EXCEPT ![t] = Append(@, x)] /\ dropped' = dropped
      <4>1. sent'[t] = Append(sent[t], x)
        BY <3>5 DEF QueueInv, TypeOK
      <4> QED
        BY <1>1, <2>3, <3>2, <3>3, <3>4, <3>5, <4>1 DEF FateOf, Lost
    <3>6. CASE sent' = sent /\ dropped' = [dropped EXCEPT ![t] = @ \cup {x}]
      <4>1. dropped'[t] = dropped[t] \cup {x}
        BY <3>6 DEF QueueInv, TypeOK
      <4>2. unreached'[t] \cup dropped'[t] = Lost(t) \cup {x}
        BY <3>3, <4>1 DEF Lost
      <4>3. unreached'[t] \cap dropped'[t] = {}
        BY <3>2, <3>3, <3>4, <4>1 DEF Lost
      <4> QED
        BY <1>1, <2>3, <3>2, <3>3, <3>6, <4>2, <4>3 DEF FateOf, Lost
    <3> QED
      BY <3>5, <3>6 DEF SendAtOnce, x
  <2>4. CASE u # t
    <3>1. /\ sent'[u] = sent[u] /\ handed'[u] = handed[u] /\ ppq' = ppq
          /\ unreached' = unreached /\ dropped'[u] = dropped[u]
      BY <2>4 DEF SendAtOnce, QueueInv, TypeOK
    <3> QED
      BY <1>1, <2>2, <3>1 DEF FateOf, Lost
  <2> QED
    BY <2>3, <2>4
<1> QED
  BY <1>2 DEF FateInv, SendAtOnce

LEMMA SendPendingFate ==
  ASSUME QueueInv, FateInv, NEW t \in Nbr, SendPending(t)
  PROVE  FateInv'
<1> DEFINE i == NextHopIface(t)
           p == [nextHop |-> t, ifIndex |-> i, number |-> handed[t] + 1]
<1>1. QueueInv'
  BY SendPendingKeeps
<1>2. transit = <<>> /\ transit' = Append(transit, p)
  BY DEF SendPending
<1>3. p.nextHop = t /\ p.number = handed[t] + 1
  OBVIOUS
<1> HIDE DEF p
<1>4. transit' = <<p>>
  BY <1>2
<1>5. p \in Packet
  <2>1. transit' \in Seq(Packet) /\ transit'[1] = p /\ 1 \in DOMAIN transit'
    BY <1>1, <1>4 DEF QueueInv, TypeOK
  <2> QED
    BY <2>1, LenProperties
<1>6. \A u \in Nbr : Coming(u) = {} /\ Coming(u)' = IF u = t THEN {handed[t] + 1} ELSE {}
  <2>1. \A u \in Nbr : Coming(u) = {}
    BY <1>2, ComingIs
  <2>2. ASSUME NEW u \in Nbr PROVE Coming(u)' = IF u = t THEN {handed[t] + 1} ELSE {}
    <3>1. DOMAIN transit' = {1} /\ transit'[1] = p
      BY <1>4
    <3> QED
      BY <1>3, <3>1 DEF Coming
  <2> QED
    BY <2>1, <2>2
<1>7. ASSUME NEW u \in Nbr PROVE FateOf(u)'
  <2>1. sent[u] \in Seq(1 .. MaxPackets) /\ ppq[u] \in Seq(1 .. MaxPackets) /\ handed[u] \in Nat
    BY FateTypes
  <2>2. FateOf(u)
    BY DEF FateInv
  <2>3. sent' = sent /\ ppq' = ppq /\ unreached' = unreached /\ dropped' = dropped
    BY DEF SendPending
  <2>4. CASE u = t
    <3>1. handed[t] + 1 \in 1 .. MaxPackets
      BY ParamAssumption, <2>1, <2>4 DEF SendPending
    <3>2. Apart(sent[t], ppq[t], {handed[t] + 1}, Lost(t), handed[t] + 1)
      BY <1>6, <2>1, <2>2, <2>4, <3>1, ApartGrows DEF FateOf
    <3>3. handed'[t] = handed[t] + 1
      BY DEF SendPending, QueueInv, TypeOK
    <3> QED
      BY <1>6, <2>2, <2>3, <2>4, <3>2, <3>3 DEF FateOf, Lost
  <2>5. CASE u # t
    <3>1. handed'[u] = handed[u]
      BY <2>5 DEF SendPending, QueueInv, TypeOK
    <3> QED
      BY <1>6, <2>2, <2>3, <2>5, <3>1 DEF FateOf, Lost
  <2> QED
    BY <2>4, <2>5
<1> QED
  BY <1>4, <1>5, <1>7 DEF FateInv

LEMMA PacketPendsFate ==
  ASSUME QueueInv, FateInv, PacketPends
  PROVE  FateInv'
<1>1. PICK p \in Packet : transit = <<p>>
  BY DEF FateInv, PacketPends
<1>2. transit' = <<>> /\ Head(transit) = p
  BY <1>1 DEF PacketPends
<1> DEFINE t == p.nextHop
           x == p.number
<1>3. t \in Nbr /\ x \in 1 .. MaxPackets /\ p.ifIndex \in Iface \cup {UINT_MAX}
  BY DEF Packet
<1>4. PICK queued \in Local : queued = [Now EXCEPT !.ppq[t] = Append(@, x)]
  BY <1>2, HeadQueued DEF PacketPends, QueueInv
<1>5. /\ queued.ppq = [ppq EXCEPT ![t] = Append(@, x)] /\ queued.tmrs = tmrs
      /\ queued.ne = ne /\ queued.unreached = unreached
  BY <1>4 DEF Now
<1>6. \A u \in Nbr : Coming(u) = IF u = t THEN {x} ELSE {}
  BY <1>1, ComingIs
<1>7. \A u \in Nbr : Coming(u)' = {}
  BY <1>2, EmptySeq DEF Coming
<1>8. handed' = handed
  BY DEF PacketPends
<1>9. \A u \in Nbr : sent[u] \in Seq(1 .. MaxPackets) /\ ppq[u] \in Seq(1 .. MaxPackets)
  BY FateTypes
<1>10. \A u \in Nbr : Apart(sent[u], ppq[u], IF u = t THEN {x} ELSE {}, Lost(u), handed[u])
  BY <1>6 DEF FateInv, FateOf
<1>15. \A u \in Nbr : unreached[u] \cap dropped[u] = {}
  BY DEF FateInv, FateOf
<1> HIDE DEF x
<1>11. \A u \in Nbr : Apart(sent[u], queued.ppq[u], {}, Lost(u), handed[u])
  <2> TAKE u \in Nbr
  <2>1. CASE u = t
    <3>1. Apart(sent[t], ppq[t], {x}, Lost(t), handed[t])
      BY <1>3, <1>10
    <3>2. Apart(sent[t], Append(ppq[t], x), {}, Lost(t), handed[t])
      BY <1>3, <1>9, <3>1, ApartMoves
    <3>3. queued.ppq[t] = Append(ppq[t], x)
      BY <1>3, <1>5 DEF QueueInv, TypeOK
    <3> QED
      BY <2>1, <3>2, <3>3
  <2>2. CASE u # t
    <3>1. queued.ppq[u] = ppq[u]
      BY <1>3, <1>5, <2>2 DEF QueueInv, TypeOK
    <3> QED
      BY <1>10, <2>2, <3>1
  <2> QED
    BY <2>1, <2>2
<1>12. CASE ppq' = queued.ppq /\ UNCHANGED <<sent, unreached, dropped>>
  BY <1>2, <1>7, <1>8, <1>11, <1>12, <1>15 DEF FateInv, FateOf, Lost
<1>13. CASE sent' = [sent EXCEPT ![t] = Append(@, x)] /\ UNCHANGED <<ppq, unreached, dropped>>
  <2>1. ASSUME NEW u \in Nbr PROVE FateOf(u)'
    <3>1. CASE u = t
      <4>1. Apart(sent[t], ppq[t], {x}, Lost(t), handed[t])
        BY <1>3, <1>10
      <4>2. Apart(Append(sent[t], x), ppq[t], {}, Lost(t), handed[t])
        BY <1>3, <1>9, <4>1, ApartMoves
      <4>3. sent'[t] = Append(sent[t], x)
        BY <1>3, <1>13 DEF QueueInv, TypeOK
      <4> QED
        BY <1>7, <1>8, <1>13, <1>15, <3>1, <4>2, <4>3 DEF FateOf, Lost
    <3>2. CASE u # t
      <4>1. sent'[u] = sent[u]
        BY <1>3, <1>13, <3>2 DEF QueueInv, TypeOK
      <4> QED
        BY <1>7, <1>8, <1>10, <1>13, <1>15, <3>2, <4>1 DEF FateOf, Lost
    <3> QED
      BY <3>1, <3>2
  <2> QED
    BY <1>2, <2>1 DEF FateInv
<1> DEFINE entry == IF ne[t] # None THEN ne[t]
                    ELSE [state |-> "INCOMPLETE", ll |-> None, ifIndex |-> p.ifIndex]
<1>14. CASE /\ Becomes(initiateNgbrSol([queued EXCEPT !.ne[t] = entry], t, p.ifIndex), t)
            /\ UNCHANGED <<sent, dropped>>
  <2> DEFINE s == [queued EXCEPT !.ne[t] = entry]
             r == initiateNgbrSol(s, t, p.ifIndex)
  <2>1. entry \in Entry
    BY <1>3 DEF QueueInv, TypeOK, Entry
  <2> HIDE DEF entry
  <2>2. s \in Local /\ s.ppq = queued.ppq /\ s.unreached = unreached
    BY <1>3, <1>5, <2>1 DEF Local
  <2>3. Becomes(r, t)
    BY <1>14
  <2> HIDE DEF s
  <2>4. Resolves(s, r, t)
    BY <1>3, <2>2, InitiateResolves
  <2> HIDE DEF r, t
  <2>5. \A u \in Nbr : /\ Apart(sent[u], ppq'[u], {}, unreached'[u] \cup dropped[u], handed[u])
                       /\ unreached'[u] \cap dropped[u] = {}
    <3> TAKE u \in Nbr
    <3>1. Apart(sent[u], s.ppq[u], {}, s.unreached[u] \cup dropped[u], handed[u])
      BY <1>11, <2>2 DEF Lost
    <3>2. s.unreached[u] \cap dropped[u] = {}
      BY <1>15, <2>2
    <3> QED
      BY <1>3, <1>9, <2>2, <2>3, <2>4, <3>1, <3>2, ResolvesFate
  <2> QED
    BY <1>2, <1>7, <1>8, <1>14, <2>5 DEF FateInv, FateOf, Lost
<1>16. CASE dropped' = [dropped EXCEPT ![t] = @ \cup {x}] /\ UNCHANGED <<ppq, sent, unreached>>
  <2>1. ASSUME NEW u \in Nbr PROVE FateOf(u)'
    <3>1. CASE u = t
      <4>1. Apart(sent[t], ppq[t], {x}, Lost(t), handed[t])
        BY <1>3, <1>10
      <4>2. Apart(sent[t], ppq[t], {}, Lost(t) \cup {x}, handed[t])
        BY <1>3, <1>9, <4>1, ApartMoves
      <4>3. dropped'[t] = dropped[t] \cup {x}
        BY <1>3, <1>16 DEF QueueInv, TypeOK
      <4>4. unreached'[t] \cup dropped'[t] = Lost(t) \cup {x}
        BY <1>16, <4>3 DEF Lost
      <4>5. unreached'[t] \cap dropped'[t] = {}
        BY <1>3, <1>15, <1>16, <4>1, <4>3 DEF Apart, Lost
      <4> QED
        BY <1>7, <1>8, <1>16, <3>1, <4>2, <4>4, <4>5 DEF FateOf, Lost
    <3>2. CASE u # t
      <4>1. dropped'[u] = dropped[u]
        BY <1>3, <1>16, <3>2 DEF QueueInv, TypeOK
      <4> QED
        BY <1>7, <1>8, <1>10, <1>15, <1>16, <3>2, <4>1 DEF FateOf, Lost
    <3> QED
      BY <3>1, <3>2
  <2> QED
    BY <1>2, <2>1 DEF FateInv
<1> QED
  BY <1>2, <1>4, <1>12, <1>13, <1>14, <1>16 DEF PacketPends, x

LEMMA TimeoutFate ==
  ASSUME QueueInv, FateInv, NEW k \in DOMAIN tmrs, Timeout(k)
  PROVE  FateInv'
<1>1. PICK t \in Nbr, r \in Local : Resolves(Now, r, t) /\ Settles(r, t) /\ Becomes(r, t)
  BY TimeoutResolves
<1>2. Now \in Local /\ Now.ppq = ppq /\ Now.unreached = unreached
  BY NowIsLocal DEF QueueInv, Now
<1>3. transit' = transit /\ sent' = sent /\ handed' = handed /\ dropped' = dropped
  BY DEF Timeout
<1>4. ASSUME NEW u \in Nbr PROVE FateOf(u)'
  <2>1. sent[u] \in Seq(1 .. MaxPackets)
    BY FateTypes
  <2>2. /\ Apart(sent[u], Now.ppq[u], Coming(u), Now.unreached[u] \cup dropped[u], handed[u])
        /\ Now.unreached[u] \cap dropped[u] = {}
    BY <1>2 DEF FateInv, FateOf, Lost
  <2>3. /\ Apart(sent[u], ppq'[u], Coming(u), unreached'[u] \cup dropped[u], handed[u])
        /\ unreached'[u] \cap dropped[u] = {}
    BY <1>1, <1>2, <2>1, <2>2, ResolvesFate
  <2> QED
    BY <1>3, <2>3 DEF FateOf, Coming, Lost
<1> QED
  BY <1>3, <1>4 DEF FateInv

\* What waits is sent on, or nothing happens to the packets.
LEMMA FlushFate ==
  ASSUME QueueInv, FateInv, NEW t \in Nbr, UNCHANGED <<transit, handed, unreached, dropped>>,
         \/ sent' = [sent EXCEPT ![t] = @ \o ppq[t]] /\ ppq' = [ppq EXCEPT ![t] = <<>>]
         \/ UNCHANGED <<sent, ppq>>
  PROVE  FateInv'
<1>1. ASSUME NEW u \in Nbr PROVE FateOf(u)'
  <2>1. sent[u] \in Seq(1 .. MaxPackets) /\ ppq[u] \in Seq(1 .. MaxPackets)
    BY FateTypes
  <2>2. Apart(sent[u], ppq[u], Coming(u), Lost(u), handed[u])
    BY DEF FateInv, FateOf
  <2>3. Apart(sent[u] \o ppq[u], <<>>, Coming(u), Lost(u), handed[u])
    BY <2>1, <2>2, ApartMoves
  <2>4. \/ sent'[u] = sent[u] /\ ppq'[u] = ppq[u]
        \/ sent'[u] = sent[u] \o ppq[u] /\ ppq'[u] = <<>>
    BY DEF QueueInv, TypeOK
  <2>5. Apart(sent'[u], ppq'[u], Coming(u), Lost(u), handed[u])
    BY <2>2, <2>3, <2>4
  <2> QED
    BY <2>5 DEF FateInv, FateOf, Coming, Lost
<1> QED
  BY <1>1 DEF FateInv

LEMMA FateStep == QueueInv /\ FateInv /\ [Next]_vars => FateInv'
<1> SUFFICES ASSUME QueueInv, FateInv, [Next]_vars PROVE FateInv'
  OBVIOUS
<1>1. ASSUME NEW t \in Nbr, SendAtOnce(t) PROVE FateInv'
  BY <1>1, SendAtOnceFate
<1>2. ASSUME NEW t \in Nbr, SendPending(t) PROVE FateInv'
  BY <1>2, SendPendingFate
<1>3. CASE PacketPends
  BY <1>3, PacketPendsFate
<1>4. ASSUME NEW k \in DOMAIN tmrs, Timeout(k) PROVE FateInv'
  BY <1>4, TimeoutFate
<1>5. ASSUME NEW t \in Nbr, NEW i, NEW ll, NEW b, NEW o, processNgbrAd(t, i, ll, b, o) PROVE FateInv'
  BY <1>5, FlushFate DEF processNgbrAd
<1>6. ASSUME NEW a \in adverts, Answer(a) PROVE FateInv'
  <2>1. a.src \in Nbr
    BY DEF QueueInv, TypeOK, Advert
  <2> QED
    BY <1>5, <1>6, <2>1 DEF Answer
<1>7. ASSUME NEW t \in Nbr, NEW ll \in LLAddr, NEW b \in BOOLEAN,
             Unsolicited(t, ll, b) \/ processNgbrSol(t, ll, b)
      PROVE  FateInv'
  <2>1. CASE Unsolicited(t, ll, b)
    BY <1>5, <2>1 DEF Unsolicited
  <2>2. CASE processNgbrSol(t, ll, b)
    BY <2>2, FlushFate DEF processNgbrSol
  <2> QED
    BY <1>7, <2>1, <2>2
<1>8. ASSUME UNCHANGED <<transit, handed, unreached, sent, ppq, dropped>> PROVE FateInv'
  BY <1>8 DEF FateInv, FateOf, Coming, Lost
<1>9. ASSUME NEW i \in Iface, AssignAddr(i) PROVE FateInv'
  BY <1>8, <1>9 DEF AssignAddr
<1>10. CASE Settle
  BY <1>8, <1>10 DEF Settle
<1>11. CASE RouterAppears
  BY <1>8, <1>11 DEF RouterAppears
<1>12. CASE UNCHANGED vars
  BY <1>8, <1>12 DEF vars
<1> QED
  BY <1>1, <1>2, <1>3, <1>4, <1>6, <1>7, <1>9, <1>10, <1>11, <1>12 DEF Next

\* A neighbour that is looked for on all of several interfaces.
Everywhere(t) == OnLink[t] = NoIface /\ numInterfaceGates > 1

\* Only such a neighbour has no interface.
WideInv ==
  /\ \A t \in Nbr : ne[t] # None /\ ne[t].ifIndex = UINT_MAX => Everywhere(t)
  /\ \A k \in DOMAIN transit : transit[k].ifIndex = UINT_MAX => Everywhere(transit[k].nextHop)
  /\ \A t \in Nbr : dropped[t] # {} => Everywhere(t)

LEMMA SendPendingWide ==
  ASSUME QueueInv, WideInv, NEW t \in Nbr, SendPending(t)
  PROVE  WideInv'
<1> DEFINE p == [nextHop |-> t, ifIndex |-> NextHopIface(t), number |-> handed[t] + 1]
<1>1. transit = <<>> /\ transit' = Append(transit, p)
  BY DEF SendPending
<1>2. DOMAIN transit' = {1} /\ transit'[1] = p
  BY <1>1
<1>3. NextHopIface(t) = UINT_MAX => Everywhere(t)
  BY ParamAssumption DEF NextHopIface, Everywhere, WideInv, Iface
<1> QED
  BY <1>2, <1>3 DEF WideInv, SendPending

LEMMA PacketPendsWide ==
  ASSUME QueueInv, FateInv, WideInv, PacketPends
  PROVE  WideInv'
<1>1. PICK p \in Packet : transit = <<p>>
  BY DEF FateInv, PacketPends
<1>2. transit' = <<>> /\ Head(transit) = p
  BY <1>1 DEF PacketPends
<1> DEFINE t == p.nextHop
           entry == IF ne[t] # None THEN ne[t]
                    ELSE [state |-> "INCOMPLETE", ll |-> None, ifIndex |-> p.ifIndex]
<1>3. t \in Nbr /\ p.ifIndex \in Iface \cup {UINT_MAX}
  BY DEF Packet
<1>4. p.ifIndex = UINT_MAX => Everywhere(t)
  <2>1. 1 \in DOMAIN transit /\ transit[1] = p
    BY <1>1
  <2> QED
    BY <2>1 DEF WideInv
<1>5. entry \in Entry /\ (entry.ifIndex = UINT_MAX => Everywhere(t))
  <2>1. CASE ne[t] # None
    BY <1>3, <2>1 DEF QueueInv, TypeOK, WideInv
  <2>2. CASE ne[t] = None
    BY <1>3, <1>4, <2>2 DEF Entry
  <2> QED
    BY <2>1, <2>2
<1>6. PICK queued \in Local : queued = [Now EXCEPT !.ppq[t] = Append(@, p.number)]
  BY <1>2, HeadQueued DEF PacketPends, QueueInv
<1>7. queued.ne = ne
  BY <1>6 DEF Now
<1> HIDE DEF entry
<1>8. DOMAIN transit' = {}
  BY <1>2
<1>9. CASE ne' = ne /\ dropped' = dropped
  BY <1>8, <1>9 DEF WideInv
<1>10. CASE /\ ne' = ne /\ dropped' = [dropped EXCEPT ![t] = @ \cup {p.number}]
            /\ entry.ifIndex = UINT_MAX
  <2>1. \A u \in Nbr : dropped'[u] # {} => dropped[u] # {} \/ u = t
    BY <1>10 DEF QueueInv, TypeOK
  <2> QED
    BY <1>5, <1>8, <1>10, <2>1 DEF WideInv
<1>11. CASE /\ Becomes(initiateNgbrSol([queued EXCEPT !.ne[t] = entry], t, p.ifIndex), t)
            /\ dropped' = dropped
  <2> DEFINE s == [queued EXCEPT !.ne[t] = entry]
             r == initiateNgbrSol(s, t, p.ifIndex)
  <2>1. s \in Local /\ s.ne[t] = entry /\ \A u \in Nbr : u # t => s.ne[u] = ne[u]
    BY <1>3, <1>5, <1>7 DEF Local
  <2>2. Becomes(r, t)
    BY <1>11
  <2> HIDE DEF s
  <2>3. Resolves(s, r, t)
    BY <1>3, <2>1, InitiateResolves
  <2> HIDE DEF r
  <2>4. \A u \in Nbr : ne'[u] \in {s.ne[u], None}
    BY <2>2, <2>3 DEF Becomes, Resolves
  <2>5. \A u \in Nbr : ne'[u] # None /\ ne'[u].ifIndex = UINT_MAX => Everywhere(u)
    BY <1>5, <2>1, <2>4 DEF WideInv
  <2> QED
    BY <1>8, <1>11, <2>5 DEF WideInv
<1> QED
  BY <1>2, <1>6, <1>9, <1>10, <1>11 DEF PacketPends, entry

\* An advertisement or a solicitation leaves the interface or sets one.
LEMMA UpdatedWide ==
  ASSUME QueueInv, WideInv, NEW t \in Nbr, NEW e \in Entry, UNCHANGED <<transit, dropped>>,
         ne' = [ne EXCEPT ![t] = e],
         e.ifIndex \in Iface \/ (ne[t] # None /\ e.ifIndex = ne[t].ifIndex)
  PROVE  WideInv'
<1>1. e.ifIndex = UINT_MAX => Everywhere(t)
  BY ParamAssumption DEF WideInv
<1>2. ne'[t] = e /\ \A u \in Nbr : u # t => ne'[u] = ne[u]
  BY DEF QueueInv, TypeOK
<1> QED
  BY <1>1, <1>2 DEF WideInv

LEMMA processNgbrAdWide ==
  ASSUME QueueInv, WideInv, NEW t \in Nbr, NEW i \in Iface, NEW ll \in LLAddr,
         NEW solicited \in BOOLEAN, NEW override \in BOOLEAN,
         processNgbrAd(t, i, ll, solicited, override)
  PROVE  WideInv'
<1> DEFINE u == NAUpdate(ne[t], ll, solicited, override)
<1>1. UNCHANGED <<transit, dropped>>
  BY DEF processNgbrAd
<1>2. CASE UNCHANGED ne
  BY <1>1, <1>2 DEF WideInv
<1>3. CASE ne[t] # None
  <2>1. ne[t] \in Entry
    BY <1>3 DEF QueueInv, TypeOK
  <2>2. u.entry \in Entry
    BY <2>1, NAUpdateIsEntry
  <2>3. u.entry.ifIndex = ne[t].ifIndex
    BY <2>1 DEF NAUpdate, Entry
  <2>4. ne' = [ne EXCEPT ![t] = u.entry] \/ ne' = [ne EXCEPT ![t] = [u.entry EXCEPT !.ifIndex = i]]
    BY <1>3 DEF processNgbrAd
  <2> HIDE DEF u
  <2>5. [u.entry EXCEPT !.ifIndex = i] \in Entry /\ [u.entry EXCEPT !.ifIndex = i].ifIndex = i
    BY <2>2 DEF Entry
  <2>6. CASE ne' = [ne EXCEPT ![t] = u.entry]
    BY <1>1, <1>3, <2>2, <2>3, <2>6, UpdatedWide
  <2>7. CASE ne' = [ne EXCEPT ![t] = [u.entry EXCEPT !.ifIndex = i]]
    BY <1>1, <2>5, <2>7, UpdatedWide
  <2> QED
    BY <2>4, <2>6, <2>7
<1> QED
  BY <1>2, <1>3 DEF processNgbrAd

LEMMA processNgbrSolWide ==
  ASSUME QueueInv, WideInv, NEW t \in Nbr, NEW ll \in LLAddr, NEW ours, processNgbrSol(t, ll, ours)
  PROVE  WideInv'
<1> DEFINE i == LinkOf[t]
           old == ne[t]
           new == IF old = None THEN [state |-> "STALE", ll |-> ll, ifIndex |-> i]
                  ELSE IF old.ll # ll THEN [old EXCEPT !.ll = ll, !.state = "STALE"]
                  ELSE old
<1>1. i \in Iface
  BY ParamAssumption DEF processNgbrSol
<1>2. old # None => old \in Entry
  BY DEF QueueInv, TypeOK
<1>3. new \in Entry /\ (new.ifIndex \in Iface \/ (old # None /\ new.ifIndex = old.ifIndex))
  BY <1>1, <1>2 DEF Entry
<1>4. ne' = [ne EXCEPT ![t] = new] /\ UNCHANGED <<transit, dropped>>
  BY DEF processNgbrSol
<1> HIDE DEF new
<1> QED
  BY <1>3, <1>4, UpdatedWide

LEMMA WideStep == QueueInv /\ FateInv /\ WideInv /\ [Next]_vars => WideInv'
<1> SUFFICES ASSUME QueueInv, FateInv, WideInv, [Next]_vars PROVE WideInv'
  OBVIOUS
<1>1. ASSUME NEW t \in Nbr, SendAtOnce(t) PROVE WideInv'
  <2>1. \A u \in Nbr : dropped'[u] # {} => dropped[u] # {} \/ (u = t /\ ne[t].ifIndex = UINT_MAX)
    BY <1>1 DEF SendAtOnce, QueueInv, TypeOK
  <2>2. ne[t] # None /\ UNCHANGED <<ne, transit>>
    BY <1>1 DEF SendAtOnce, Resolved
  <2> QED
    BY <2>1, <2>2 DEF WideInv
<1>2. ASSUME NEW t \in Nbr, SendPending(t) PROVE WideInv'
  BY <1>2, SendPendingWide
<1>3. CASE PacketPends
  BY <1>3, PacketPendsWide
<1>4. ASSUME NEW k \in DOMAIN tmrs, Timeout(k) PROVE WideInv'
  <2>1. PICK t \in Nbr, r \in Local : Resolves(Now, r, t) /\ Settles(r, t) /\ Becomes(r, t)
    BY <1>4, TimeoutResolves
  <2>2. \A u \in Nbr : ne'[u] \in {ne[u], None}
    BY <2>1 DEF Resolves, Becomes, Now
  <2>3. UNCHANGED <<transit, dropped>>
    BY <1>4 DEF Timeout
  <2> QED
    BY <2>2, <2>3 DEF WideInv
<1>5. ASSUME NEW a \in adverts, Answer(a) PROVE WideInv'
  <2>1. a \in Advert /\ LinkOf[a.src] \in Iface
    BY DEF QueueInv, TypeOK, AnswersLinked
  <2>2. a.src \in Nbr /\ a.ll \in LLAddr /\ a.override \in BOOLEAN
    BY <2>1 DEF Advert
  <2>3. processNgbrAd(a.src, LinkOf[a.src], a.ll, TRUE, a.override)
    BY <1>5 DEF Answer
  <2> QED
    BY <2>1, <2>2, <2>3, processNgbrAdWide
<1>6. ASSUME NEW t \in Nbr, NEW ll \in LLAddr, NEW b \in BOOLEAN,
             Unsolicited(t, ll, b) \/ processNgbrSol(t, ll, b)
      PROVE  WideInv'
  <2>1. CASE Unsolicited(t, ll, b)
    <3>1. LinkOf[t] \in Iface /\ processNgbrAd(t, LinkOf[t], ll, FALSE, b)
      BY <2>1, ParamAssumption DEF Unsolicited
    <3> QED
      BY <3>1, processNgbrAdWide
  <2>2. CASE processNgbrSol(t, ll, b)
    BY <2>2, processNgbrSolWide
  <2> QED
    BY <1>6, <2>1, <2>2
<1>7. ASSUME UNCHANGED <<ne, transit, dropped>> PROVE WideInv'
  BY <1>7 DEF WideInv
<1>8. ASSUME NEW i \in Iface, AssignAddr(i) PROVE WideInv'
  BY <1>7, <1>8 DEF AssignAddr
<1>9. CASE Settle
  BY <1>7, <1>9 DEF Settle
<1>10. CASE RouterAppears
  BY <1>7, <1>10 DEF RouterAppears
<1>11. CASE UNCHANGED vars
  BY <1>7, <1>11 DEF vars
<1> QED
  BY <1>1, <1>2, <1>3, <1>4, <1>5, <1>6, <1>8, <1>9, <1>10, <1>11 DEF Next

\* No packet is sent twice, or both sent and reported, in whichever order answers,
\* solicitations and timeouts come (ppq, failedAddrRes), and none is lost without a
\* report, except on the way to a neighbour that was looked for on all of several
\* interfaces (IPv6Forward.cc:289).
THEOREM PacketsHaveOneFate == Spec => []OneFate
<1>1. Init => FateInv
  <2> SUFFICES ASSUME Init PROVE FateInv
    OBVIOUS
  <2>1. transit = <<>> /\ \A t \in Nbr : Coming(t) = {}
    BY ComingIs DEF Init
  <2>2. ASSUME NEW t \in Nbr PROVE FateOf(t)
    <3>1. /\ sent[t] = <<>> /\ ppq[t] = <<>> /\ unreached[t] = {} /\ dropped[t] = {}
          /\ handed[t] = 0
      BY DEF Init
    <3>2. IsInjective(sent[t]) /\ Range(sent[t]) = {} /\ IsInjective(ppq[t]) /\ Range(ppq[t]) = {}
      BY <3>1, EmptyIsInjective
    <3>3. 1 .. 0 = {}
      OBVIOUS
    <3> QED
      BY <2>1, <3>1, <3>2, <3>3 DEF FateOf, Apart, Lost
  <2> QED
    BY <2>1, <2>2 DEF FateInv
<1>2. Init => WideInv
  BY EmptySeq DEF Init, WideInv
<1>3. FateInv /\ WideInv => OneFate
  BY DEF FateInv, FateOf, Apart, OneFate, Held, Coming, Lost, WideInv, Everywhere
<1> QED
  BY <1>1, <1>2, <1>3, QueueInvariance, FateStep, WideStep, PTL DEF Spec

-----------------------------------------------------------------------------
(* The timers of one address, and the end of its resolution.                   *)

Mine(ts, t) == {k \in DOMAIN ts : ts[k].targetAddr = t}

\* A resolution on all interfaces: a marker and right behind it, in one stretch, the
\* timers that are left.
Runs(ts, t) ==
  \E m \in Mine(ts, t) :
    /\ IsMarker(ts[m]) /\ \E k \in Mine(ts, t) : k # m
    /\ \A k \in Mine(ts, t) : k # m => m < k /\ ~ IsMarker(ts[k])
    /\ \A k \in Mine(ts, t) : \A j \in m .. k : j \in Mine(ts, t)

\* No resolution, one on a single interface, or one on all.
Shape(ts, t) ==
  \/ Mine(ts, t) = {}
  \/ \E k \in DOMAIN ts : Mine(ts, t) = {k} /\ ~ IsMarker(ts[k])
  \/ Runs(ts, t)

\* A list in which only timers of other addresses than u differ.
Spares(ts, ws, u) == /\ Shape(ts, u) => Shape(ws, u)
                     /\ Mine(ts, u) = {} => Mine(ws, u) = {}

\* A resolution on all interfaces that is being set up at the end of the list.
LastRun(ts, t) ==
  \E m \in DOMAIN ts :
    /\ IsMarker(ts[m]) /\ ts[m].targetAddr = t
    /\ \A j \in DOMAIN ts : /\ m < j => ts[j].targetAddr = t /\ ~ IsMarker(ts[j])
                            /\ j < m => ts[j].targetAddr # t

LEMMA ThinnedShape ==
  ASSUME NEW ts \in Seq(Timer), NEW ws \in Seq(Timer), NEW gone, NEW where,
         Thinned(ts, gone, ws, where), NEW t
  PROVE  /\ Mine(ts, t) \subseteq gone => Mine(ws, t) = {}
         /\ gone \cap Mine(ts, t) = {} => Spares(ts, ws, t)
         /\ \A k : /\ Runs(ts, t) /\ ~ IsMarker(ts[k]) /\ gone \cap Mine(ts, t) \subseteq {k}
                   /\ \E j \in Mine(ts, t) : j # k /\ ~ IsMarker(ts[j])
                   => Runs(ws, t)
         /\ gone \cap DOMAIN ts = {} /\ LastRun(ts, t) => LastRun(ws, t)
<1>1. /\ where \in [DOMAIN ws -> DOMAIN ts \ gone]
      /\ \A i \in DOMAIN ts \ gone : \E k \in DOMAIN ws : where[k] = i
      /\ \A j, k \in DOMAIN ws : j < k => where[j] < where[k]
      /\ \A k \in DOMAIN ws : ws[k] = ts[where[k]]
  BY DEF Thinned
<1>2. /\ DOMAIN ts \subseteq Nat /\ DOMAIN ws \subseteq Nat
  BY LenProperties
<1>3. \A k \in DOMAIN ws : where[k] \in DOMAIN ts /\ where[k] \in Nat /\ where[k] \notin gone /\ k \in Nat
  BY <1>1, <1>2
<1>4. \A j, k \in DOMAIN ws : where[j] < where[k] <=> j < k
  <2> TAKE j, k \in DOMAIN ws
  <2>1. /\ j < k => where[j] < where[k]
        /\ k < j => where[k] < where[j]
    BY <1>1, Zenon
  <2>2. j \in Nat /\ k \in Nat /\ where[j] \in Nat /\ where[k] \in Nat
    BY <1>3, Zenon
  <2> QED
    BY <2>1, <2>2
<1>5. \A k \in DOMAIN ws : k \in Mine(ws, t) <=> where[k] \in Mine(ts, t)
  BY <1>1, <1>3 DEF Mine
<1>6. \A k \in DOMAIN ws : IsMarker(ws[k]) <=> IsMarker(ts[where[k]])
  BY <1>1
<1>7. Mine(ts, t) \subseteq DOMAIN ts /\ Mine(ws, t) \subseteq DOMAIN ws
  BY DEF Mine
<1>8. \A i \in Mine(ts, t) : i \notin gone => \E k \in Mine(ws, t) : where[k] = i
  BY <1>1, <1>5, <1>7
<1>9. Mine(ts, t) \subseteq gone => Mine(ws, t) = {}
  BY <1>3, <1>5, <1>7
<1>10. ASSUME NEW m \in Mine(ts, t), m \notin gone, IsMarker(ts[m]),
              \A k \in Mine(ts, t) : k # m => m < k /\ ~ IsMarker(ts[k]),
              \A k \in Mine(ts, t) : \A j \in m .. k : j \in Mine(ts, t),
              \E k \in Mine(ts, t) : k # m /\ k \notin gone
       PROVE  Runs(ws, t)
  <2>1. PICK p \in Mine(ws, t) : where[p] = m
    BY <1>8, <1>10
  <2>2. IsMarker(ws[p])
    BY <1>6, <1>7, <1>10, <2>1
  <2>3. \E k \in Mine(ws, t) : k # p
    BY <1>8, <1>10, <2>1
  <2>4. ASSUME NEW k \in Mine(ws, t), k # p PROVE p < k /\ ~ IsMarker(ws[k])
    <3>1. where[k] \in Mine(ts, t) /\ k \in DOMAIN ws /\ p \in DOMAIN ws /\ k \in Nat /\ p \in Nat
      BY <1>3, <1>5, <1>7
    <3>2. where[k] # m
      <4>1. k < p \/ p < k
        BY <2>4, <3>1
      <4> QED
        BY <1>1, <1>2, <1>3, <2>1, <3>1, <4>1
    <3>3. m < where[k] /\ ~ IsMarker(ts[where[k]])
      BY <1>10, <3>1, <3>2
    <3> QED
      BY <1>4, <1>6, <2>1, <3>1, <3>3
  <2>5. ASSUME NEW k \in Mine(ws, t), NEW j \in p .. k PROVE j \in Mine(ws, t)
    <3>1. k \in DOMAIN ws /\ p \in DOMAIN ws /\ k \in Nat /\ p \in Nat /\ where[k] \in Mine(ts, t)
      BY <1>3, <1>5, <1>7
    <3>2. j \in DOMAIN ws
      BY <3>1, LenProperties
    <3>3. where[p] <= where[j] /\ where[j] <= where[k] /\ where[j] \in Nat /\ where[k] \in Nat /\ m \in Nat
      <4>1. where[p] \in Nat /\ where[j] \in Nat /\ where[k] \in Nat /\ m \in Nat
        BY <1>3, <2>1, <3>1, <3>2
      <4>2. j = p \/ p < j
        BY <3>1
      <4>3. j = k \/ j < k
        BY <3>1
      <4>4. (p < j => where[p] < where[j]) /\ (j < k => where[j] < where[k])
        BY <1>1, <3>1, <3>2
      <4> QED
        BY <4>1, <4>2, <4>3, <4>4
    <3>4. where[j] \in m .. where[k]
      BY <2>1, <3>3
    <3>5. where[j] \in Mine(ts, t)
      BY <1>10, <3>1, <3>4
    <3> QED
      BY <1>5, <3>2, <3>5
  <2> QED
    BY <2>2, <2>3, <2>4, <2>5 DEF Runs
<1>11. ASSUME gone \cap Mine(ts, t) = {} PROVE Spares(ts, ws, t)
  <2>1. Mine(ts, t) = {} => Mine(ws, t) = {}
    BY <1>9
  <2>2. ASSUME NEW k \in DOMAIN ts, Mine(ts, t) = {k}, ~ IsMarker(ts[k]) PROVE Shape(ws, t)
    <3>1. PICK p \in Mine(ws, t) : where[p] = k
      BY <1>8, <1>11, <2>2
    <3>2. ASSUME NEW j \in Mine(ws, t) PROVE j = p
      <4>1. where[j] = k /\ j \in DOMAIN ws /\ p \in DOMAIN ws /\ j \in Nat /\ p \in Nat
        BY <1>3, <1>5, <1>7, <2>2
      <4>2. ~ (j < p) /\ ~ (p < j)
        BY <1>1, <1>2, <2>2, <3>1, <4>1
      <4> QED
        BY <4>1, <4>2
    <3>3. Mine(ws, t) = {p} /\ p \in DOMAIN ws /\ ~ IsMarker(ws[p])
      BY <1>6, <1>7, <2>2, <3>1, <3>2
    <3> QED
      BY <3>3 DEF Shape
  <2>3. ASSUME Runs(ts, t) PROVE Runs(ws, t)
    <3>1. PICK m \in Mine(ts, t) : 
            /\ IsMarker(ts[m]) /\ \E k \in Mine(ts, t) : k # m
            /\ \A k \in Mine(ts, t) : k # m => m < k /\ ~ IsMarker(ts[k])
            /\ \A k \in Mine(ts, t) : \A j \in m .. k : j \in Mine(ts, t)
      BY <2>3 DEF Runs
    <3> QED
      BY <1>10, <1>11, <3>1
  <2> QED
    BY <2>1, <2>2, <2>3 DEF Spares, Shape
<1>12. ASSUME NEW k, Runs(ts, t), ~ IsMarker(ts[k]), gone \cap Mine(ts, t) \subseteq {k},
              \E j \in Mine(ts, t) : j # k /\ ~ IsMarker(ts[j])
       PROVE  Runs(ws, t)
  <2>1. PICK m \in Mine(ts, t) :
          /\ IsMarker(ts[m])
          /\ \A i \in Mine(ts, t) : i # m => m < i /\ ~ IsMarker(ts[i])
          /\ \A i \in Mine(ts, t) : \A j \in m .. i : j \in Mine(ts, t)
    BY <1>12 DEF Runs
  <2>2. m \notin gone /\ \E i \in Mine(ts, t) : i # m /\ i \notin gone
    BY <1>12, <2>1
  <2> QED
    BY <1>10, <2>1, <2>2
<1>13. ASSUME gone \cap DOMAIN ts = {}, LastRun(ts, t) PROVE LastRun(ws, t)
  <2>1. PICK m \in DOMAIN ts :
          /\ IsMarker(ts[m]) /\ ts[m].targetAddr = t
          /\ \A j \in DOMAIN ts : /\ m < j => ts[j].targetAddr = t /\ ~ IsMarker(ts[j])
                                  /\ j < m => ts[j].targetAddr # t
    BY <1>13 DEF LastRun
  <2>2. PICK p \in DOMAIN ws : where[p] = m
    BY <1>1, <1>13
  <2>3. IsMarker(ws[p]) /\ ws[p].targetAddr = t
    BY <1>1, <2>1, <2>2
  <2>4. ASSUME NEW j \in DOMAIN ws
        PROVE  /\ p < j => ws[j].targetAddr = t /\ ~ IsMarker(ws[j])
               /\ j < p => ws[j].targetAddr # t
    <3>1. where[j] \in DOMAIN ts /\ ws[j] = ts[where[j]]
      BY <1>1, <1>3
    <3>2. (p < j => m < where[j]) /\ (j < p => where[j] < m)
      BY <1>1, <2>2
    <3> QED
      BY <2>1, <3>1, <3>2
  <2> QED
    BY <2>3, <2>4 DEF LastRun
<1> QED
  BY <1>9, <1>11, <1>12, <1>13

LEMMA WithoutSpares ==
  ASSUME NEW ts \in Seq(Timer), NEW gone, NEW u, gone \cap Mine(ts, u) = {}
  PROVE  Spares(ts, Without(ts, gone), u)
<1>1. PICK ws \in Seq(Timer) : ws = Without(ts, gone)
  BY WithoutThins
<1>2. PICK where : Thinned(ts, gone, Without(ts, gone), where)
  BY WithoutThins, Zenon
<1>3. Thinned(ts, gone, ws, where)
  BY <1>1, <1>2
<1>4. Spares(ts, ws, u)
  BY <1>3, ThinnedShape
<1> QED
  BY <1>1, <1>4

LEMMA AppendShape ==
  ASSUME NEW ts \in Seq(Timer), NEW tmr \in Timer
  PROVE  /\ \A u : u # tmr.targetAddr => Spares(ts, Append(ts, tmr), u)
         /\ Mine(ts, tmr.targetAddr) = {} /\ ~ IsMarker(tmr) => Shape(Append(ts, tmr), tmr.targetAddr)
         /\ Mine(ts, tmr.targetAddr) = {} /\ IsMarker(tmr) => LastRun(Append(ts, tmr), tmr.targetAddr)
         /\ LastRun(ts, tmr.targetAddr) /\ ~ IsMarker(tmr) => LastRun(Append(ts, tmr), tmr.targetAddr)
<1> DEFINE ws == Append(ts, tmr)
           t == tmr.targetAddr
<1>1. PICK n \in Nat : n = Len(ts)
  BY LenProperties
<1>2. /\ DOMAIN ts = 1 .. n /\ DOMAIN ws = 1 .. n + 1 /\ ws[n + 1] = tmr
      /\ \A k \in 1 .. n : ws[k] = ts[k]
  BY <1>1, AppendProperties, LenProperties
<1> HIDE DEF ws
<1>3. ASSUME NEW u, u # t PROVE Spares(ts, ws, u)
  <2>1. Mine(ws, u) = Mine(ts, u)
    BY <1>2, <1>3 DEF Mine
  <2>2. \A k \in Mine(ts, u) : k \in DOMAIN ts /\ k \in DOMAIN ws /\ ws[k] = ts[k]
    BY <1>2 DEF Mine
  <2>3. Runs(ts, u) => Runs(ws, u)
    <3> SUFFICES ASSUME Runs(ts, u) PROVE Runs(ws, u)
      OBVIOUS
    <3>1. PICK m \in Mine(ts, u) :
            /\ IsMarker(ts[m]) /\ \E k \in Mine(ts, u) : k # m
            /\ \A k \in Mine(ts, u) : k # m => m < k /\ ~ IsMarker(ts[k])
            /\ \A k \in Mine(ts, u) : \A j \in m .. k : j \in Mine(ts, u)
      BY DEF Runs
    <3> QED
      BY <2>1, <2>2, <3>1 DEF Runs
  <2>4. Shape(ts, u) => Shape(ws, u)
    BY <2>1, <2>2, <2>3 DEF Shape
  <2> QED
    BY <2>1, <2>4 DEF Spares
<1>4. ASSUME Mine(ts, t) = {}, ~ IsMarker(tmr) PROVE Shape(ws, t)
  <2>1. Mine(ws, t) = {n + 1}
    BY <1>2, <1>4 DEF Mine
  <2>2. n + 1 \in DOMAIN ws /\ ~ IsMarker(ws[n + 1])
    BY <1>2, <1>4
  <2> QED
    BY <2>1, <2>2 DEF Shape
<1>5. ASSUME Mine(ts, t) = {}, IsMarker(tmr) PROVE LastRun(ws, t)
  <2>1. n + 1 \in DOMAIN ws /\ IsMarker(ws[n + 1]) /\ ws[n + 1].targetAddr = t
    BY <1>2, <1>5
  <2>2. ASSUME NEW j \in DOMAIN ws
        PROVE  ~ (n + 1 < j) /\ (j < n + 1 => ws[j].targetAddr # t)
    <3>1. j < n + 1 => j \in DOMAIN ts /\ ws[j] = ts[j]
      BY <1>2
    <3>2. \A k \in DOMAIN ts : ts[k].targetAddr # t
      BY <1>5 DEF Mine
    <3> QED
      BY <1>2, <3>1, <3>2
  <2> QED
    BY <2>1, <2>2 DEF LastRun
<1>6. ASSUME LastRun(ts, t), ~ IsMarker(tmr) PROVE LastRun(ws, t)
  <2>1. PICK m \in DOMAIN ts :
          /\ IsMarker(ts[m]) /\ ts[m].targetAddr = t
          /\ \A j \in DOMAIN ts : /\ m < j => ts[j].targetAddr = t /\ ~ IsMarker(ts[j])
                                  /\ j < m => ts[j].targetAddr # t
    BY <1>6 DEF LastRun
  <2>2. m \in DOMAIN ws /\ IsMarker(ws[m]) /\ ws[m].targetAddr = t
    BY <1>2, <2>1
  <2>3. ASSUME NEW j \in DOMAIN ws
        PROVE  /\ m < j => ws[j].targetAddr = t /\ ~ IsMarker(ws[j])
               /\ j < m => ws[j].targetAddr # t
    <3>1. CASE j = n + 1
      BY <1>2, <1>6, <2>1, <3>1
    <3>2. CASE j \in DOMAIN ts
      BY <1>2, <2>1, <3>2
    <3> QED
      BY <1>2, <3>1, <3>2
  <2> QED
    BY <2>2, <2>3 DEF LastRun
<1> QED
  BY <1>3, <1>4, <1>5, <1>6 DEF ws

\* Timers that only count on are the same to all this.
LEMMA AlikeShape ==
  ASSUME NEW ts, NEW ws, DOMAIN ws = DOMAIN ts, NEW u,
         \A k \in DOMAIN ts : ws[k].targetAddr = ts[k].targetAddr /\ ws[k].ifIndex = ts[k].ifIndex
  PROVE  Spares(ts, ws, u)
<1>1. Mine(ws, u) = Mine(ts, u) /\ Mine(ts, u) \subseteq DOMAIN ts
  BY DEF Mine
<1>2. \A k \in DOMAIN ts : IsMarker(ws[k]) <=> IsMarker(ts[k])
  BY DEF IsMarker
<1>3. Runs(ts, u) => Runs(ws, u)
  <2> SUFFICES ASSUME Runs(ts, u) PROVE Runs(ws, u)
    OBVIOUS
  <2>1. PICK m \in Mine(ts, u) :
          /\ IsMarker(ts[m]) /\ \E k \in Mine(ts, u) : k # m
          /\ \A k \in Mine(ts, u) : k # m => m < k /\ ~ IsMarker(ts[k])
          /\ \A k \in Mine(ts, u) : \A j \in m .. k : j \in Mine(ts, u)
    BY DEF Runs
  <2> QED
    BY <1>1, <1>2, <2>1 DEF Runs
<1>4. Shape(ts, u) => Shape(ws, u)
  BY <1>1, <1>2, <1>3 DEF Shape
<1> QED
  BY <1>1, <1>4 DEF Spares

LEMMA LastRunRuns ==
  ASSUME NEW ts \in Seq(Timer), NEW t, LastRun(ts, t), TimedIn(ts, t)
  PROVE  Runs(ts, t)
<1>1. PICK m \in DOMAIN ts :
        /\ IsMarker(ts[m]) /\ ts[m].targetAddr = t
        /\ \A j \in DOMAIN ts : /\ m < j => ts[j].targetAddr = t /\ ~ IsMarker(ts[j])
                                /\ j < m => ts[j].targetAddr # t
  BY DEF LastRun
<1>2. PICK n \in Nat : DOMAIN ts = 1 .. n
  BY LenProperties
<1>3. m \in Mine(ts, t) /\ \E k \in Mine(ts, t) : k # m
  BY <1>1 DEF Mine, TimedIn
<1>4. \A k \in Mine(ts, t) : k # m => m < k /\ ~ IsMarker(ts[k])
  BY <1>1, <1>2 DEF Mine
<1>5. \A k \in Mine(ts, t) : \A j \in m .. k : j \in Mine(ts, t)
  BY <1>1, <1>2 DEF Mine
<1> QED
  BY <1>1, <1>3, <1>4, <1>5 DEF Runs

\* No timer of t but the one in place own is scheduled.
LastOne(ts, t, own) == \A k \in Mine(ts, t) : k = own \/ IsMarker(ts[k])

\* The timer in place own is gone from s to r; the last one takes everything of t along.
FailsTo(s, r, t, own) ==
  /\ ~ LastOne(s.tmrs, t, own) => r.tmrs = Without(s.tmrs, {own}) /\ r.ne = s.ne /\ r.ppq = s.ppq
  /\ LastOne(s.tmrs, t, own) =>
       /\ r.ppq[t] = <<>> /\ r.ne \in {s.ne, [s.ne EXCEPT ![t] = None]}
       /\ \/ Mine(s.tmrs, t) = {}
          \/ Shape(s.tmrs, t) /\ own \in Mine(s.tmrs, t) /\ ~ IsMarker(s.tmrs[own])
          => Mine(r.tmrs, t) = {}
  /\ \A u \in Nbr \ {t} : Spares(s.tmrs, r.tmrs, u) /\ r.ne[u] = s.ne[u]

LEMMA UpdateAt ==
  ASSUME NEW D, NEW C, NEW f \in [D -> C], NEW d \in D, NEW x
  PROVE  [f EXCEPT ![d] = x][d] = x /\ [f EXCEPT ![d] = f[d]] = f
OBVIOUS

LEMMA FailedShape ==
  ASSUME NEW s \in Local, NEW t \in Nbr, NEW own,
         own \in DOMAIN s.tmrs => s.tmrs[own].targetAddr = t
  PROVE  FailsTo(s, failedAddrRes(s, t, own), t, own)
<1> DEFINE others == {k \in DOMAIN s.tmrs : k # own /\ s.tmrs[k].targetAddr = t}
           markers == {k \in others : IsMarker(s.tmrs[k])}
           finalTimer == markers = others
           startRemove == {k \in markers : \A j \in markers : j <= k}
           gone == {own} \cup IF finalTimer THEN startRemove ELSE {}
           ts == Without(s.tmrs, gone)
           es == IF finalTimer /\ settled THEN None ELSE s.ne[t]
           us == IF finalTimer THEN s.unreached[t] \cup Range(s.ppq[t]) ELSE s.unreached[t]
           qs == IF finalTimer THEN <<>> ELSE s.ppq[t]
           r == failedAddrRes(s, t, own)
<1>1. r = [s EXCEPT !.tmrs = ts, !.ne[t] = es, !.unreached[t] = us, !.ppq[t] = qs]
  BY DEF failedAddrRes
<1>2. /\ s.ne \in [Nbr -> Entry \cup {None}] /\ s.ppq \in [Nbr -> Seq(1 .. MaxPackets)]
      /\ s.tmrs \in Seq(Timer)
  BY DEF Local
<1>3. finalTimer <=> LastOne(s.tmrs, t, own)
  BY DEF LastOne, Mine
<1>4. gone \subseteq {own} \cup Mine(s.tmrs, t)
  BY DEF Mine
<1>5. \A u \in Nbr \ {t} : gone \cap Mine(s.tmrs, u) = {}
  BY <1>4 DEF Mine
<1>6. ~ finalTimer => gone = {own} /\ es = s.ne[t] /\ qs = s.ppq[t]
  OBVIOUS
<1>7. finalTimer => qs = <<>> /\ es \in {s.ne[t], None}
  OBVIOUS
<1>8. ASSUME finalTimer, Shape(s.tmrs, t), own \in Mine(s.tmrs, t), ~ IsMarker(s.tmrs[own])
      PROVE  Mine(s.tmrs, t) \subseteq gone
  <2> SUFFICES ASSUME NEW k \in Mine(s.tmrs, t), k # own PROVE k \in startRemove
    BY <1>8
  <2>1. k \in markers
    BY <1>8 DEF Mine
  <2>2. Runs(s.tmrs, t)
    BY <1>8 DEF Shape
  <2>3. PICK m \in Mine(s.tmrs, t) : \A j \in Mine(s.tmrs, t) : j # m => ~ IsMarker(s.tmrs[j])
    BY <2>2 DEF Runs
  <2>4. \A j \in markers : j = m
    BY <2>3 DEF Mine
  <2>5. m \in Nat
    BY <1>2, LenProperties DEF Mine
  <2> QED
    BY <2>1, <2>4, <2>5
<1> HIDE DEF gone, finalTimer, es, us, qs
<1>9. ts \in Seq(Timer) /\ \E where : Thinned(s.tmrs, gone, ts, where)
  BY <1>2, WithoutThins, Zenon
<1>10. \A u \in Nbr \ {t} : Spares(s.tmrs, ts, u)
  BY <1>2, <1>5, WithoutSpares, Zenon
<1>11. Mine(s.tmrs, t) \subseteq gone => Mine(ts, t) = {}
  <2>1. PICK ws \in Seq(Timer) : ws = ts
    BY <1>9
  <2>2. PICK where : Thinned(s.tmrs, gone, ws, where)
    BY <1>9, <2>1
  <2>3. Mine(s.tmrs, t) \subseteq gone => Mine(ws, t) = {}
    BY <1>2, <2>2, ThinnedShape
  <2> QED
    BY <2>1, <2>3
<1> HIDE DEF r
<1>12. /\ r.ne = [s.ne EXCEPT ![t] = es] /\ r.ppq = [s.ppq EXCEPT ![t] = qs] /\ r.tmrs = ts
  BY <1>1 DEF Local
<1>13. ~ finalTimer => r.tmrs = Without(s.tmrs, {own}) /\ r.ne = s.ne /\ r.ppq = s.ppq
  <2> SUFFICES ASSUME ~ finalTimer PROVE r.tmrs = Without(s.tmrs, {own}) /\ r.ne = s.ne /\ r.ppq = s.ppq
    OBVIOUS
  <2>1. r.ne = s.ne /\ r.ppq = s.ppq
    <3>1. [s.ne EXCEPT ![t] = s.ne[t]] = s.ne /\ [s.ppq EXCEPT ![t] = s.ppq[t]] = s.ppq
      BY <1>2, UpdateAt, Zenon
    <3>2. es = s.ne[t] /\ qs = s.ppq[t]
      BY <1>6
    <3> QED
      BY <1>12, <3>1, <3>2
  <2>2. r.tmrs = Without(s.tmrs, {own})
    BY <1>6, <1>12
  <2> QED
    BY <2>1, <2>2
<1> HIDE DEF ts
<1>14. finalTimer => r.ppq[t] = <<>> /\ r.ne \in {s.ne, [s.ne EXCEPT ![t] = None]}
  <2> SUFFICES ASSUME finalTimer PROVE r.ppq[t] = <<>> /\ r.ne \in {s.ne, [s.ne EXCEPT ![t] = None]}
    OBVIOUS
  <2>1. [s.ne EXCEPT ![t] = s.ne[t]] = s.ne /\ [s.ppq EXCEPT ![t] = qs][t] = qs
    BY <1>2, UpdateAt, Zenon
  <2>2. r.ppq[t] = <<>>
    BY <1>7, <1>12, <2>1
  <2>3. es = s.ne[t] \/ es = None
    BY <1>7
  <2> QED
    BY <1>12, <2>1, <2>2, <2>3
<1>15. finalTimer /\ (Mine(s.tmrs, t) = {} \/ (Shape(s.tmrs, t) /\ own \in Mine(s.tmrs, t) /\ ~ IsMarker(s.tmrs[own])))
         => Mine(r.tmrs, t) = {}
  BY <1>8, <1>11, <1>12
<1>16. \A u \in Nbr \ {t} : Spares(s.tmrs, r.tmrs, u) /\ r.ne[u] = s.ne[u]
  BY <1>2, <1>10, <1>12
<1> QED
  BY <1>3, <1>13, <1>14, <1>15, <1>16 DEF r, FailsTo

\* From s to r a resolution of t on all interfaces is under way, and nothing else is
\* different.
Starts(s, r, t) ==
  /\ r \in Local /\ r.ppq = s.ppq /\ r.ne = s.ne /\ LastRun(r.tmrs, t) /\ TimedIn(r.tmrs, t)
  /\ \A u \in Nbr \ {t} : Spares(s.tmrs, r.tmrs, u)

LEMMA FirstStarts ==
  ASSUME NEW s \in Local, NEW t \in Nbr, NEW i \in Iface, LastRun(s.tmrs, t),
         i \in addrs \/ TimedIn(s.tmrs, t)
  PROVE  Starts(s, FirstNgbrSol(s, t, i), t)
<1>1. s.tmrs \in Seq(Timer)
  BY DEF Local
<1>2. CASE i \in addrs
  <2> DEFINE tmr == [targetAddr |-> t, ifIndex |-> i, counter |-> 1]
             ts == Append(s.tmrs, tmr)
             r == [s EXCEPT !.tmrs = ts, !.asked = @ \cup {i}]
  <2>1. FirstNgbrSol(s, t, i) = r
    BY <1>2 DEF FirstNgbrSol
  <2>2. tmr \in Timer /\ ~ IsMarker(tmr) /\ tmr.targetAddr = t
    BY ParamAssumption DEF Timer, IsMarker
  <2> HIDE DEF tmr
  <2>3. ts \in Seq(Timer) /\ TimedIn(ts, t)
    BY <1>1, <2>2, AppendKeepsTimers
  <2>4. LastRun(ts, t) /\ \A u : u # t => Spares(s.tmrs, ts, u)
    BY <1>1, <2>2, AppendShape
  <2> HIDE DEF ts
  <2>5. r \in Local /\ r.ppq = s.ppq /\ r.ne = s.ne /\ r.tmrs = ts
    BY <2>3 DEF Local
  <2> HIDE DEF r
  <2>6. Starts(s, r, t)
    BY <2>3, <2>4, <2>5 DEF Starts
  <2> QED
    BY <2>1, <2>6
<1>3. CASE i \notin addrs
  <2>1. FirstNgbrSol(s, t, i) = failedAddrRes(s, t, 0)
    BY <1>3 DEF FirstNgbrSol
  <2>2. 0 \notin DOMAIN s.tmrs
    BY <1>1, LenProperties
  <2>3. ~ LastOne(s.tmrs, t, 0)
    BY <1>3, <2>2 DEF LastOne, TimedIn, Mine
  <2>4. PICK r \in Local : r = failedAddrRes(s, t, 0)
    <3>1. Resolves(s, failedAddrRes(s, t, 0), t)
      BY <2>2, FailedResolves, Zenon
    <3> QED
      BY <3>1 DEF Resolves
  <2>5. /\ r.tmrs = Without(s.tmrs, {0}) /\ r.ne = s.ne /\ r.ppq = s.ppq
        /\ \A u \in Nbr \ {t} : Spares(s.tmrs, r.tmrs, u)
    <3>1. 0 \in DOMAIN s.tmrs => s.tmrs[0].targetAddr = t
      BY <2>2
    <3>2. FailsTo(s, failedAddrRes(s, t, 0), t, 0)
      BY <3>1, FailedShape, Zenon
    <3>3. FailsTo(s, r, t, 0)
      BY <2>4, <3>2
    <3> QED
      BY <2>3, <3>3 DEF FailsTo
  <2>6. PICK where : Thinned(s.tmrs, {0}, Without(s.tmrs, {0}), where)
    BY <1>1, WithoutThins, Zenon
  <2>7. r.tmrs \in Seq(Timer) /\ Thinned(s.tmrs, {0}, r.tmrs, where)
    BY <2>5, <2>6 DEF Local
  <2>8. LastRun(r.tmrs, t)
    <3>1. {0} \cap DOMAIN s.tmrs = {}
      BY <2>2
    <3> QED
      BY <1>1, <2>7, <3>1, ThinnedShape
  <2>9. TimedIn(r.tmrs, t)
    <3>1. PICK k \in DOMAIN s.tmrs : s.tmrs[k].targetAddr = t /\ ~ IsMarker(s.tmrs[k])
      BY <1>3 DEF TimedIn
    <3>2. k \in DOMAIN s.tmrs \ {0}
      BY <2>2
    <3>3. TimedIn(Without(s.tmrs, {0}), t)
      BY <1>1, <3>1, <3>2, WithoutKeepsTimers, Zenon
    <3> QED
      BY <2>5, <3>3
  <2>10. Starts(s, r, t)
    BY <2>5, <2>8, <2>9 DEF Starts
  <2> QED
    BY <2>1, <2>4, <2>10
<1> QED
  BY <1>2, <1>3

LEMMA SparesTwice ==
  ASSUME NEW ts, NEW us, NEW ws, NEW u, Spares(ts, us, u), Spares(us, ws, u)
  PROVE  Spares(ts, ws, u)
BY DEF Spares

\* When the first interface can ask, a resolution on all of them is under way after it.
LEMMA InitiateStarts ==
  ASSUME NEW s \in Local, NEW t \in Nbr, 0 \in addrs, Mine(s.tmrs, t) = {}
  PROVE  Starts(s, initiateNgbrSol(s, t, UINT_MAX), t)
<1> DEFINE N == numInterfaceGates
           marker == [targetAddr |-> t, ifIndex |-> UINT_MAX, counter |-> 0]
<1>1. PICK f : InTurn(s, t, f) /\ initiateNgbrSol(s, t, UINT_MAX) = f[N]
  BY InitiateSteps
<1>2. N \in Nat /\ N # 0 /\ Iface = 0 .. N - 1
  BY ParamAssumption DEF Iface
<1>3. f[0] = Marked(s, t) /\ \A k \in Iface : f[k + 1] = FirstNgbrSol(f[k], t, k)
  BY <1>1 DEF InTurn
<1>4. f[0] \in Local /\ f[0].ne = s.ne /\ f[0].ppq = s.ppq /\ f[0].tmrs = Append(s.tmrs, marker)
  BY <1>3, MarkedIs
<1>5. s.tmrs \in Seq(Timer) /\ marker \in Timer /\ IsMarker(marker) /\ marker.targetAddr = t
  BY ParamAssumption DEF Local, Timer, IsMarker
<1> HIDE DEF N, marker
<1>6. LastRun(f[0].tmrs, t) /\ \A u \in Nbr \ {t} : Spares(s.tmrs, f[0].tmrs, u)
  BY <1>4, <1>5, AppendShape
<1> DEFINE Good(k) == k # 0 => Starts(s, f[k], t)
           S == {k \in Nat : k <= N => Good(k)}
<1>7. 0 \in S
  OBVIOUS
<1>8. ASSUME NEW k \in Nat, k \in S PROVE k + 1 \in S
  <2> SUFFICES ASSUME k + 1 <= N PROVE Starts(s, f[k + 1], t)
    OBVIOUS
  <2>1. k \in Iface /\ k <= N
    BY <1>2
  <2>2. /\ f[k] \in Local /\ f[k].ne = s.ne /\ f[k].ppq = s.ppq
        /\ LastRun(f[k].tmrs, t) /\ (k \in addrs \/ TimedIn(f[k].tmrs, t))
        /\ \A u \in Nbr \ {t} : Spares(s.tmrs, f[k].tmrs, u)
    <3>1. CASE k = 0
      BY <1>4, <1>6, <3>1
    <3>2. CASE k # 0
      BY <1>8, <2>1, <3>2 DEF Starts
    <3> QED
      BY <3>1, <3>2
  <2>3. Starts(f[k], f[k + 1], t)
    <3>1. f[k + 1] = FirstNgbrSol(f[k], t, k)
      BY <1>3, <2>1
    <3>2. Starts(f[k], FirstNgbrSol(f[k], t, k), t)
      BY <2>1, <2>2, FirstStarts, Zenon
    <3> QED
      BY <3>1, <3>2
  <2>4. \A u \in Nbr \ {t} : Spares(s.tmrs, f[k + 1].tmrs, u)
    <3> TAKE u \in Nbr \ {t}
    <3>1. Spares(s.tmrs, f[k].tmrs, u) /\ Spares(f[k].tmrs, f[k + 1].tmrs, u)
      BY <2>2, <2>3 DEF Starts
    <3> QED
      BY <3>1, SparesTwice
  <2> QED
    BY <2>2, <2>3, <2>4 DEF Starts
<1> HIDE DEF S
<1>9. Nat \subseteq S
  BY <1>7, <1>8, NatsBelow
<1>10. Starts(s, f[N], t)
  BY <1>2, <1>9 DEF S
<1> QED
  BY <1>1, <1>10

\* What the entry of t says of its queue and of its timers.
Calm(t) ==
  /\ Shape(tmrs, t)
  /\ ne[t] = None => ppq[t] = <<>> /\ Mine(tmrs, t) = {}
  /\ ne[t] # None =>
       /\ ne[t].state = "INCOMPLETE" => ne[t].ll = None /\ (ppq[t] = <<>> => Mine(tmrs, t) = {})
       /\ ne[t].state = "REACHABLE" => ppq[t] = <<>> /\ Mine(tmrs, t) = {}

\* Nothing happens any more after a crash.
SettleInv == /\ 0 \in addrs
             /\ ~ crashed => \A t \in Nbr : Calm(t)
             /\ ReachableIsSettled

LEMMA CalmFrame ==
  ASSUME NEW u \in Nbr, Calm(u), ne'[u] = ne[u], ppq'[u] = ppq[u], Spares(tmrs, tmrs', u)
  PROVE  Calm(u)'
<1>1. Shape(tmrs', u) /\ (Mine(tmrs, u) = {} => Mine(tmrs', u) = {})
  BY DEF Calm, Spares
<1> QED
  BY <1>1 DEF Calm

\* A change of t leaves the others calm.
LEMMA OthersCalm ==
  ASSUME SettleInv, ~ crashed, NEW t \in Nbr, addrs' = addrs, Calm(t)',
         \A u \in Nbr \ {t} : ne'[u] = ne[u] /\ ppq'[u] = ppq[u] /\ Spares(tmrs, tmrs', u)
  PROVE  SettleInv'
<1>1. ASSUME NEW u \in Nbr \ {t} PROVE Calm(u)'
  <2>1. u \in Nbr /\ Calm(u) /\ ne'[u] = ne[u] /\ ppq'[u] = ppq[u] /\ Spares(tmrs, tmrs', u)
    BY DEF SettleInv
  <2> QED
    BY <2>1, CalmFrame
<1>2. (\A u \in Nbr : Calm(u))'
  BY <1>1
<1>3. ReachableIsSettled'
  <2> SUFFICES ASSUME NEW u \in Nbr, ne'[u] # None, ne'[u].state = "REACHABLE"
               PROVE  ~ Timed(u)' /\ ppq'[u] = <<>>
    BY DEF ReachableIsSettled
  <2>1. ppq'[u] = <<>> /\ Mine(tmrs, u)' = {}
    BY <1>2 DEF Calm
  <2> QED
    BY <2>1 DEF Mine, Timed
<1> QED
  BY <1>2, <1>3 DEF SettleInv

LEMMA NothingCalm ==
  ASSUME SettleInv, UNCHANGED <<ne, ppq, tmrs, crashed>>, addrs \subseteq addrs'
  PROVE  SettleInv'
BY DEF SettleInv, Calm, ReachableIsSettled, Timed

LEMMA CancelledShape ==
  ASSUME tmrs \in Seq(Timer), NEW t \in Nbr, Shape(tmrs, t)
  PROVE  /\ Mine(CancelTimers(t), t) = {}
         /\ \A u \in Nbr \ {t} : Spares(tmrs, CancelTimers(t), u)
<1> DEFINE mine == Mine(tmrs, t)
           first == CHOOSE k \in mine : \A j \in mine : k <= j
           run == {k \in mine : \A j \in first .. k : j \in mine}
           gone == IF IsMarker(tmrs[first]) THEN run ELSE {first}
<1>1. CASE mine = {}
  BY <1>1 DEF CancelTimers, Spares, Mine
<1>2. CASE mine # {}
  <2>1. CancelTimers(t) = Without(tmrs, gone)
    BY <1>2 DEF CancelTimers, Mine
  <2>2. mine \in SUBSET Nat
    BY LenProperties DEF Mine
  <2>3. gone = mine
    <3>1. \E k \in mine : \A j \in mine : k <= j
      <4> HIDE DEF mine
      <4> QED
        BY <1>2, <2>2, LeastNat
    <3>2. first \in mine /\ \A j \in mine : first <= j
      BY <3>1
    <3> HIDE DEF first
    <3>3. CASE \E k \in DOMAIN tmrs : mine = {k} /\ ~ IsMarker(tmrs[k])
      BY <3>2, <3>3
    <3>4. CASE Runs(tmrs, t)
      <4>1. PICK m \in mine :
              /\ IsMarker(tmrs[m])
              /\ \A k \in mine : k # m => m < k /\ ~ IsMarker(tmrs[k])
              /\ \A k \in mine : \A j \in m .. k : j \in mine
        BY <3>4 DEF Runs
      <4> HIDE DEF mine
      <4>2. first = m
        BY <2>2, <3>2, <4>1
      <4> QED
        BY <4>1, <4>2
    <3> QED
      BY <1>2, <3>3, <3>4 DEF Shape
  <2> HIDE DEF gone
  <2>4. PICK ws \in Seq(Timer) : ws = Without(tmrs, gone)
    BY WithoutThins
  <2>5. PICK where : Thinned(tmrs, gone, Without(tmrs, gone), where)
    BY WithoutThins, Zenon
  <2>6. Thinned(tmrs, gone, ws, where)
    BY <2>4, <2>5
  <2>7. Mine(ws, t) = {}
    BY <2>3, <2>6, ThinnedShape
  <2>8. \A u \in Nbr \ {t} : gone \cap Mine(tmrs, u) = {}
    BY <2>3 DEF Mine
  <2>9. \A u \in Nbr \ {t} : Spares(tmrs, Without(tmrs, gone), u)
    BY <2>8, WithoutSpares, Zenon
  <2> QED
    BY <2>1, <2>4, <2>7, <2>9
<1> QED
  BY <1>1, <1>2

LEMMA NAUpdateStates ==
  ASSUME NEW e \in Entry, NEW ll \in LLAddr, NEW solicited \in BOOLEAN, NEW override \in BOOLEAN
  PROVE  /\ NAUpdate(e, ll, solicited, override).entry.state # "INCOMPLETE"
         /\ ~ NAUpdate(e, ll, solicited, override).pending =>
              NAUpdate(e, ll, solicited, override).entry.state # "REACHABLE"
<1> DEFINE st == IF solicited THEN "REACHABLE" ELSE "STALE"
           rt == IF solicited THEN "REACHABLE" ELSE IF ll # e.ll THEN "STALE" ELSE e.state
           ot == IF e.state = "REACHABLE" THEN "STALE" ELSE e.state
           u == NAUpdate(e, ll, solicited, override)
<1>1. CASE e.state = "INCOMPLETE"
  <2>1. u.entry = [e EXCEPT !.ll = ll, !.state = st] /\ u.pending = TRUE
    BY <1>1 DEF NAUpdate
  <2>2. [e EXCEPT !.ll = ll, !.state = st].state = st
    BY DEF Entry
  <2> QED
    BY <2>1, <2>2
<1>2. CASE e.state # "INCOMPLETE" /\ ll # e.ll /\ ~ override
  <2>1. u.entry = [e EXCEPT !.state = ot]
    BY <1>2 DEF NAUpdate
  <2>2. [e EXCEPT !.state = ot].state = ot
    BY DEF Entry
  <2> QED
    BY <1>2, <2>1, <2>2
<1>3. CASE e.state # "INCOMPLETE" /\ ~ (ll # e.ll /\ ~ override)
  <2> DEFINE r == [e EXCEPT !.ll = ll, !.state = rt]
  <2>1. u.entry = r /\ u.pending = (r.state = "REACHABLE")
    BY <1>3 DEF NAUpdate
  <2>2. r.state = rt
    BY DEF Entry
  <2> HIDE DEF r, u
  <2>3. rt # "INCOMPLETE" /\ u.entry.state = rt /\ (~ u.pending => rt # "REACHABLE")
    BY <1>3, <2>1, <2>2
  <2> HIDE DEF rt
  <2>4. u.entry.state # "INCOMPLETE" /\ (~ u.pending => u.entry.state # "REACHABLE")
    BY <2>3
  <2> QED
    BY <2>4 DEF u
<1> QED
  BY <1>1, <1>2, <1>3

\* A resolution that starts leaves t waiting for it, or over.
LEMMA InitiateCalm ==
  ASSUME QueueInv, SettleInv, ~ crashed, NEW t \in Nbr, NEW i \in Iface \cup {UINT_MAX},
         NEW s \in Local, s.tmrs = tmrs, Mine(tmrs, t) = {}, s.ppq[t] # <<>>,
         s.ne[t] \in Entry, s.ne[t].state = "INCOMPLETE", s.ne[t].ll = None,
         \A u \in Nbr \ {t} : s.ne[u] = ne[u] /\ s.ppq[u] = ppq[u],
         Becomes(initiateNgbrSol(s, t, i), t), addrs' = addrs
  PROVE  SettleInv'
<1>1. PICK r \in Local : r = initiateNgbrSol(s, t, i) /\ Resolves(s, r, t)
  BY InitiateResolves DEF Resolves
<1>2. ne' = r.ne /\ ppq' = r.ppq /\ tmrs' = r.tmrs
  BY <1>1 DEF Becomes
<1>3. s.tmrs \in Seq(Timer) /\ s.ne \in [Nbr -> Entry \cup {None}]
  BY DEF Local
<1>4. CASE i = UINT_MAX
  <2>1. 0 \in addrs /\ Mine(s.tmrs, t) = {}
    BY DEF SettleInv
  <2>2. Starts(s, initiateNgbrSol(s, t, UINT_MAX), t)
    BY <2>1, InitiateStarts, Zenon
  <2>3. Starts(s, r, t)
    BY <1>1, <1>4, <2>2
  <2>4. r.tmrs \in Seq(Timer) /\ LastRun(r.tmrs, t) /\ TimedIn(r.tmrs, t)
    BY <2>3 DEF Starts, Local
  <2>5. Shape(r.tmrs, t)
    BY <2>4, LastRunRuns DEF Shape
  <2>6. Calm(t)'
    <3>1. ne'[t] = s.ne[t] /\ ppq'[t] = s.ppq[t] /\ Shape(tmrs', t)
      BY <1>2, <2>3, <2>5 DEF Starts
    <3> QED
      BY <3>1, ParamAssumption DEF Calm
  <2>7. \A u \in Nbr \ {t} : ne'[u] = ne[u] /\ ppq'[u] = ppq[u] /\ Spares(tmrs, tmrs', u)
    BY <1>2, <2>3 DEF Starts
  <2> QED
    BY <2>6, <2>7, OthersCalm
<1>5. CASE i # UINT_MAX /\ i \in addrs
  <2> DEFINE tmr == [targetAddr |-> t, ifIndex |-> i, counter |-> 1]
             ts == Append(s.tmrs, tmr)
  <2>1. r = [s EXCEPT !.tmrs = ts, !.asked = @ \cup {i}]
    BY <1>1, <1>5 DEF initiateNgbrSol, FirstNgbrSol
  <2>2. tmr \in Timer /\ ~ IsMarker(tmr) /\ tmr.targetAddr = t
    BY <1>5, ParamAssumption DEF Timer, IsMarker
  <2> HIDE DEF tmr
  <2>3. Shape(ts, t) /\ \A u : u # t => Spares(s.tmrs, ts, u)
    BY <1>3, <2>2, AppendShape
  <2> HIDE DEF ts
  <2>4. r.ne = s.ne /\ r.ppq = s.ppq /\ r.tmrs = ts
    BY <2>1 DEF Local
  <2>5. Calm(t)'
    <3>1. ne'[t] = s.ne[t] /\ ppq'[t] = s.ppq[t] /\ Shape(tmrs', t)
      BY <1>2, <2>3, <2>4
    <3> QED
      BY <3>1, ParamAssumption DEF Calm
  <2>6. \A u \in Nbr \ {t} : ne'[u] = ne[u] /\ ppq'[u] = ppq[u] /\ Spares(tmrs, tmrs', u)
    BY <1>2, <2>3, <2>4
  <2> QED
    BY <2>5, <2>6, OthersCalm
<1>6. CASE i # UINT_MAX /\ i \notin addrs
  <2>1. r = failedAddrRes(s, t, 0)
    BY <1>1, <1>6 DEF initiateNgbrSol, FirstNgbrSol
  <2>2. 0 \in DOMAIN s.tmrs => s.tmrs[0].targetAddr = t
    BY <1>3, LenProperties
  <2>3. FailsTo(s, failedAddrRes(s, t, 0), t, 0)
    BY <2>2, FailedShape, Zenon
  <2>4. FailsTo(s, r, t, 0)
    BY <2>1, <2>3
  <2>5. LastOne(s.tmrs, t, 0)
    BY DEF LastOne
  <2>6. /\ r.ppq[t] = <<>> /\ r.ne \in {s.ne, [s.ne EXCEPT ![t] = None]} /\ Mine(r.tmrs, t) = {}
        /\ \A u \in Nbr \ {t} : Spares(s.tmrs, r.tmrs, u) /\ r.ne[u] = s.ne[u]
    BY <2>4, <2>5 DEF FailsTo
  <2>7. Calm(t)'
    <3>1. ne'[t] = s.ne[t] \/ ne'[t] = None
      BY <1>2, <1>3, <2>6
    <3>2. ppq'[t] = <<>> /\ Mine(tmrs', t) = {} /\ Shape(tmrs', t)
      BY <1>2, <2>6 DEF Shape
    <3> QED
      BY <3>1, <3>2, ParamAssumption DEF Calm
  <2>8. \A u \in Nbr \ {t} : ne'[u] = ne[u] /\ ppq'[u] = ppq[u] /\ Spares(tmrs, tmrs', u)
    BY <1>1, <1>2, <2>6 DEF Resolves
  <2> QED
    BY <2>7, <2>8, OthersCalm
<1> QED
  BY <1>4, <1>5, <1>6

LEMMA PacketPendsCalm ==
  ASSUME QueueInv, SettleInv, ~ crashed, PacketPends
  PROVE  SettleInv'
<1>1. PICK p \in Packet : p = Head(transit)
  BY HeadQueued DEF PacketPends, QueueInv
<1>2. PICK queued \in Local : queued = [Now EXCEPT !.ppq[p.nextHop] = Append(@, p.number)]
  BY <1>1, HeadQueued DEF PacketPends, QueueInv
<1> DEFINE t == p.nextHop
           entry == IF ne[t] # None THEN ne[t]
                    ELSE [state |-> "INCOMPLETE", ll |-> None, ifIndex |-> p.ifIndex]
<1>3. t \in Nbr /\ p.number \in 1 .. MaxPackets /\ p.ifIndex \in Iface \cup {UINT_MAX}
  BY DEF Packet
<1>4. entry \in Entry
  BY <1>3 DEF QueueInv, TypeOK, Entry
<1>5. /\ queued.ppq = [ppq EXCEPT ![t] = Append(@, p.number)] /\ queued.tmrs = tmrs
      /\ queued.ne = ne /\ queued.unreached = unreached
  BY <1>2 DEF Now
<1>6. /\ Append(ppq[t], p.number) # <<>> /\ Len(Append(ppq[t], p.number)) = Len(ppq[t]) + 1
      /\ Len(ppq[t]) \in Nat /\ (ppq[t] # <<>> <=> Len(ppq[t]) # 0)
  <2>1. ppq[t] \in Seq(1 .. MaxPackets)
    BY <1>3 DEF QueueInv, TypeOK
  <2> QED
    BY <1>3, <2>1, AppendProperties, LenProperties, EmptySeq
<1>7. /\ queued.ppq[t] = Append(ppq[t], p.number) /\ queued.ppq[t] # <<>>
      /\ \A u \in Nbr \ {t} : queued.ppq[u] = ppq[u]
  BY <1>3, <1>5, <1>6 DEF QueueInv, TypeOK
<1>8. Len(queued.ppq[t]) > 1 => ppq[t] # <<>>
  BY <1>6, <1>7
<1>9. Len(queued.ppq[t]) = 1 => ppq[t] = <<>>
  BY <1>6, <1>7
<1>10. Calm(t) /\ addrs' = addrs
  BY <1>3 DEF SettleInv, PacketPends
<1> HIDE DEF entry, t
<1>11. CASE Len(queued.ppq[t]) > 1 /\ ppq' = queued.ppq /\ UNCHANGED <<ne, tmrs, crashed>>
  <2>1. Calm(t)'
    BY <1>7, <1>8, <1>10, <1>11 DEF Calm
  <2>2. \A u \in Nbr \ {t} : ne'[u] = ne[u] /\ ppq'[u] = ppq[u] /\ Spares(tmrs, tmrs', u)
    BY <1>7, <1>11 DEF Spares
  <2> QED
    BY <1>3, <1>10, <2>1, <2>2, OthersCalm
<1>12. CASE ne[t] = None /\ ppq' = queued.ppq /\ crashed' = TRUE /\ UNCHANGED <<ne, tmrs>>
  <2>1. ReachableIsSettled'
    BY <1>7, <1>12 DEF SettleInv, ReachableIsSettled, Timed
  <2> QED
    BY <1>10, <1>12, <2>1 DEF SettleInv
<1>13. CASE UNCHANGED <<ne, ppq, tmrs, crashed>>
  BY <1>10, <1>13, NothingCalm
<1>15. CASE crashed' = TRUE /\ UNCHANGED <<ne, ppq, tmrs>>
  <2>1. ReachableIsSettled'
    BY <1>15 DEF SettleInv, ReachableIsSettled, Timed
  <2> QED
    BY <1>10, <1>15, <2>1 DEF SettleInv
<1>14. CASE /\ Len(queued.ppq[t]) = 1 /\ entry.state = "INCOMPLETE"
            /\ Becomes(initiateNgbrSol([queued EXCEPT !.ne[t] = entry], t, p.ifIndex), t)
            /\ UNCHANGED <<sent, crashed>>
  <2> DEFINE s == [queued EXCEPT !.ne[t] = entry]
  <2>1. /\ s \in Local /\ s.ppq = queued.ppq /\ s.tmrs = tmrs /\ s.ne[t] = entry
        /\ \A u \in Nbr \ {t} : s.ne[u] = ne[u]
    BY <1>3, <1>4, <1>5 DEF Local
  <2>2. Becomes(initiateNgbrSol(s, t, p.ifIndex), t)
    BY <1>14
  <2> HIDE DEF s
  <2>3. Mine(tmrs, t) = {} /\ entry.ll = None
    BY <1>9, <1>10, <1>14 DEF Calm, entry
  <2>4. \A u \in Nbr \ {t} : s.ne[u] = ne[u] /\ s.ppq[u] = ppq[u]
    BY <1>7, <2>1
  <2> QED
    BY <1>3, <1>4, <1>7, <1>10, <1>14, <2>1, <2>2, <2>3, <2>4, InitiateCalm
<1> QED
  BY <1>1, <1>2, <1>11, <1>12, <1>13, <1>14, <1>15 DEF PacketPends, entry, t

LEMMA TimeoutCalm ==
  ASSUME QueueInv, SettleInv, ~ crashed, NEW k \in DOMAIN tmrs, Timeout(k)
  PROVE  SettleInv'
<1> DEFINE tmr == tmrs[k]
<1>1. tmrs \in Seq(Timer) /\ Now \in Local
  BY NowIsLocal DEF QueueInv, TypeOK
<1>2. PICK t \in Nbr : t = tmr.targetAddr
  <2>1. tmr \in Timer
    BY <1>1, LenProperties
  <2> QED
    BY <2>1 DEF Timer
<1>3. Now.tmrs = tmrs /\ Now.ppq = ppq /\ Now.ne = ne
  BY DEF Now
<1>4. /\ Calm(t) /\ addrs' = addrs /\ crashed' = crashed /\ k \in Mine(tmrs, t) /\ ~ IsMarker(tmrs[k])
  BY <1>2 DEF SettleInv, Timeout, Mine
<1>5. ne[t] # None /\ ne[t].state # "REACHABLE" /\ (ne[t].state = "INCOMPLETE" => ppq[t] # <<>> /\ ne[t].ll = None)
  BY <1>4 DEF Calm
<1>6. CASE tmr.counter < MAX_MULTICAST_SOLICIT
  <2> DEFINE ts == [tmrs EXCEPT ![k].counter = @ + 1]
             s1 == [Now EXCEPT !.tmrs[k].counter = @ + 1, !.asked = {tmr.ifIndex}]
  <2>1. Becomes(s1, t)
    BY <1>2, <1>6 DEF Timeout
  <2>2. DOMAIN ts = DOMAIN tmrs
    OBVIOUS
  <2>3. \A j \in DOMAIN tmrs : ts[j].targetAddr = tmrs[j].targetAddr /\ ts[j].ifIndex = tmrs[j].ifIndex
    <3> TAKE j \in DOMAIN tmrs
    <3>1. tmrs[j] \in Timer
      BY <1>1, LenProperties
    <3> QED
      BY <1>1, <3>1 DEF Timer
  <2> HIDE DEF ts
  <2>4. s1 = [Now EXCEPT !.tmrs = ts, !.asked = {tmr.ifIndex}]
    BY <1>3 DEF ts, Now
  <2>5. s1.ppq = ppq /\ s1.ne = ne /\ s1.tmrs = ts
    BY <2>4 DEF Now
  <2> HIDE DEF s1
  <2>6. ppq' = ppq /\ ne' = ne /\ tmrs' = ts
    BY <2>1, <2>5 DEF Becomes
  <2>7. \A u \in Nbr : Spares(tmrs, tmrs', u)
    <3>1. \A u : Spares(tmrs, ts, u)
      BY <2>2, <2>3, AlikeShape
    <3> QED
      BY <2>6, <3>1
  <2>8. Calm(t)'
    BY <1>2, <1>4, <2>6, <2>7, CalmFrame
  <2> QED
    BY <1>2, <1>4, <2>6, <2>7, <2>8, OthersCalm
<1>7. CASE ~ tmr.counter < MAX_MULTICAST_SOLICIT
  <2>1. Becomes(failedAddrRes(Now, t, k), t)
    BY <1>2, <1>7 DEF Timeout
  <2>2. k \in DOMAIN Now.tmrs => Now.tmrs[k].targetAddr = t
    BY <1>2, <1>3
  <2>3. Resolves(Now, failedAddrRes(Now, t, k), t) /\ FailsTo(Now, failedAddrRes(Now, t, k), t, k)
    BY <1>1, <1>2, <2>2, FailedResolves, FailedShape, Zenon
  <2>4. PICK r : r = failedAddrRes(Now, t, k)
    OBVIOUS
  <2>5. Resolves(Now, r, t) /\ FailsTo(Now, r, t, k) /\ Becomes(r, t)
    BY <2>1, <2>3, <2>4
  <2>6. r \in Local /\ ne' = r.ne /\ ppq' = r.ppq /\ tmrs' = r.tmrs
    BY <2>5 DEF Resolves, Becomes
  <2>7. \A u \in Nbr \ {t} : ne'[u] = ne[u] /\ ppq'[u] = ppq[u] /\ Spares(tmrs, tmrs', u)
    BY <1>3, <2>5, <2>6 DEF Resolves, FailsTo
  <2>8. Calm(t)'
    <3>1. CASE LastOne(tmrs, t, k)
      <4>1. ppq'[t] = <<>> /\ ne' \in {ne, [ne EXCEPT ![t] = None]} /\ Mine(tmrs', t) = {}
        BY <1>3, <1>4, <2>5, <2>6, <3>1 DEF FailsTo, Calm
      <4>2. ne'[t] = ne[t] \/ ne'[t] = None
        BY <1>2, <4>1 DEF QueueInv, TypeOK
      <4> QED
        BY <1>5, <4>1, <4>2 DEF Calm, Shape
    <3>2. CASE ~ LastOne(tmrs, t, k)
      <4>1. tmrs' = Without(tmrs, {k}) /\ ne' = ne /\ ppq' = ppq
        BY <1>3, <2>5, <2>6, <3>2 DEF FailsTo
      <4>2. PICK j \in Mine(tmrs, t) : j # k /\ ~ IsMarker(tmrs[j])
        BY <3>2 DEF LastOne
      <4>3. Runs(tmrs, t)
        BY <1>4, <4>2 DEF Calm, Shape
      <4>4. PICK where : Thinned(tmrs, {k}, Without(tmrs, {k}), where)
        BY <1>1, WithoutThins, Zenon
      <4>5. PICK ws \in Seq(Timer) : ws = tmrs'
        BY <2>6 DEF Local
      <4>6. Thinned(tmrs, {k}, ws, where)
        BY <4>1, <4>4, <4>5
      <4>7. Runs(ws, t)
        BY <1>1, <1>4, <4>2, <4>3, <4>6, ThinnedShape
      <4>8. Shape(tmrs', t)
        BY <4>5, <4>7 DEF Shape
      <4> QED
        BY <1>5, <4>1, <4>8 DEF Calm
    <3> QED
      BY <3>1, <3>2
  <2> QED
    BY <1>2, <1>4, <2>7, <2>8, OthersCalm
<1> QED
  BY <1>6, <1>7

LEMMA processNgbrAdCalm ==
  ASSUME QueueInv, SettleInv, ~ crashed, NEW t \in Nbr, NEW i, NEW ll \in LLAddr,
         NEW solicited \in BOOLEAN, NEW override \in BOOLEAN,
         processNgbrAd(t, i, ll, solicited, override)
  PROVE  SettleInv'
<1> DEFINE u == NAUpdate(ne[t], ll, solicited, override)
<1>1. /\ Calm(t) /\ addrs' = addrs /\ crashed' = crashed
      /\ ne \in [Nbr -> Entry \cup {None}] /\ ppq \in [Nbr -> Seq(1 .. MaxPackets)] /\ tmrs \in Seq(Timer)
  BY DEF SettleInv, processNgbrAd, QueueInv, TypeOK
<1>2. ne[t] # None => /\ u.entry \in Entry /\ u.entry.state # "INCOMPLETE"
                      /\ ~ u.pending => u.entry.state # "REACHABLE"
  BY <1>1, NAUpdateIsEntry, NAUpdateStates
<1>3. CASE UNCHANGED <<ne, ppq, tmrs, sent>>
  BY <1>1, <1>3, NothingCalm
<1>4. CASE ne[t] # None /\ ~ u.pending
  <2>1. ne' = [ne EXCEPT ![t] = u.entry] /\ UNCHANGED <<ppq, tmrs>>
    BY <1>4 DEF processNgbrAd
  <2> HIDE DEF u
  <2>2. ne'[t] = u.entry /\ ne'[t] # None
    BY <1>1, <1>2, <1>4, <2>1, ParamAssumption
  <2>3. Calm(t)'
    BY <1>1, <1>2, <1>4, <2>1, <2>2 DEF Calm
  <2>4. \A v \in Nbr \ {t} : ne'[v] = ne[v] /\ ppq'[v] = ppq[v] /\ Spares(tmrs, tmrs', v)
    BY <1>1, <2>1 DEF Spares
  <2> QED
    BY <1>1, <2>3, <2>4, OthersCalm
<1>5. CASE ne[t] # None /\ u.pending
  <2> DEFINE e == [u.entry EXCEPT !.ifIndex = i]
  <2>1. ne' = [ne EXCEPT ![t] = e] /\ ppq' = [ppq EXCEPT ![t] = <<>>] /\ tmrs' = CancelTimers(t)
    BY <1>5 DEF processNgbrAd
  <2> HIDE DEF u
  <2>2. e.state = u.entry.state
    BY <1>2, <1>5 DEF Entry
  <2> HIDE DEF e
  <2>3. Mine(tmrs', t) = {} /\ \A v \in Nbr \ {t} : Spares(tmrs, tmrs', v)
    BY <1>1, <2>1, CancelledShape DEF Calm
  <2>4. ne'[t] = e /\ ppq'[t] = <<>>
    BY <1>1, <2>1
  <2>5. Calm(t)'
    BY <1>2, <1>5, <2>2, <2>3, <2>4 DEF Calm, Shape
  <2>6. \A v \in Nbr \ {t} : ne'[v] = ne[v] /\ ppq'[v] = ppq[v] /\ Spares(tmrs, tmrs', v)
    BY <1>1, <2>1, <2>3
  <2> QED
    BY <1>1, <2>5, <2>6, OthersCalm
<1> QED
  BY <1>3, <1>4, <1>5 DEF processNgbrAd

LEMMA processNgbrSolCalm ==
  ASSUME QueueInv, SettleInv, ~ crashed, NEW t \in Nbr, NEW ll \in LLAddr, NEW ours,
         processNgbrSol(t, ll, ours)
  PROVE  SettleInv'
<1> DEFINE i == LinkOf[t]
           old == ne[t]
           new == IF old = None THEN [state |-> "STALE", ll |-> ll, ifIndex |-> i]
                  ELSE IF old.ll # ll THEN [old EXCEPT !.ll = ll, !.state = "STALE"]
                  ELSE old
<1>1. /\ Calm(t) /\ addrs' = addrs /\ crashed' = crashed /\ tmrs' = tmrs /\ i \in Iface
      /\ ne \in [Nbr -> Entry \cup {None}] /\ ppq \in [Nbr -> Seq(1 .. MaxPackets)]
  BY ParamAssumption DEF SettleInv, processNgbrSol, QueueInv, TypeOK
<1>2. old # None => old \in Entry
  BY <1>1
<1>3. ne' = [ne EXCEPT ![t] = new]
  BY DEF processNgbrSol
<1>4. /\ \A u \in Nbr \ {t} : ppq'[u] = ppq[u]
      /\ ppq'[t] = ppq[t] \/ (ppq'[t] = <<>> /\ old.state = "INCOMPLETE")
  BY <1>1 DEF processNgbrSol
<1>5. new \in Entry /\ new.state # "INCOMPLETE" /\ (new.state = "REACHABLE" => old # None /\ old.state = "REACHABLE")
  <2>1. CASE old = None
    BY <1>1, <2>1 DEF Entry
  <2>2. CASE old # None /\ old.ll # ll
    <3>1. new = [old EXCEPT !.ll = ll, !.state = "STALE"]
      BY <2>2
    <3> HIDE DEF old
    <3> QED
      BY <1>2, <2>2, <3>1 DEF Entry
  <2>3. CASE old # None /\ old.ll = ll
    <3>1. new = old /\ old.ll # None
      BY <2>3, ParamAssumption
    <3> QED
      BY <1>1, <1>2, <2>3, <3>1 DEF Calm
  <2> QED
    BY <2>1, <2>2, <2>3
<1>6. ne'[t] = new /\ new # None
  BY <1>1, <1>3, <1>5, ParamAssumption
<1> HIDE DEF new
<1>7. Calm(t)'
  BY <1>1, <1>4, <1>5, <1>6 DEF Calm
<1>8. \A u \in Nbr \ {t} : ne'[u] = ne[u] /\ ppq'[u] = ppq[u] /\ Spares(tmrs, tmrs', u)
  BY <1>1, <1>3, <1>4 DEF Spares
<1> QED
  BY <1>1, <1>7, <1>8, OthersCalm

LEMMA SettleStep == QueueInv /\ SettleInv /\ [Next]_vars => SettleInv'
<1> SUFFICES ASSUME QueueInv, SettleInv, [Next]_vars PROVE SettleInv'
  OBVIOUS
<1>1. ASSUME UNCHANGED <<ne, ppq, tmrs, crashed>>, addrs \subseteq addrs' PROVE SettleInv'
  BY <1>1, NothingCalm
<1>2. ASSUME NEW t \in Nbr, SendAtOnce(t) \/ SendPending(t) PROVE SettleInv'
  BY <1>1, <1>2 DEF SendAtOnce, SendPending
<1>3. CASE ~ crashed /\ PacketPends
  BY <1>3, PacketPendsCalm
<1>4. ASSUME ~ crashed, NEW k \in DOMAIN tmrs, Timeout(k) PROVE SettleInv'
  BY <1>4, TimeoutCalm
<1>5. ASSUME ~ crashed, NEW a \in adverts, Answer(a) PROVE SettleInv'
  <2>1. a \in Advert
    BY DEF QueueInv, TypeOK
  <2>2. a.src \in Nbr /\ a.ll \in LLAddr /\ a.override \in BOOLEAN
    BY <2>1 DEF Advert
  <2>3. processNgbrAd(a.src, LinkOf[a.src], a.ll, TRUE, a.override)
    BY <1>5 DEF Answer
  <2> QED
    BY <1>5, <2>2, <2>3, processNgbrAdCalm
<1>6. ASSUME ~ crashed, NEW t \in Nbr, NEW ll \in LLAddr, NEW b \in BOOLEAN,
             Unsolicited(t, ll, b) \/ processNgbrSol(t, ll, b)
      PROVE  SettleInv'
  <2>1. CASE Unsolicited(t, ll, b)
    <3>1. processNgbrAd(t, LinkOf[t], ll, FALSE, b)
      BY <2>1 DEF Unsolicited
    <3> QED
      BY <1>6, <3>1, processNgbrAdCalm
  <2>2. CASE processNgbrSol(t, ll, b)
    BY <1>6, <2>2, processNgbrSolCalm
  <2> QED
    BY <1>6, <2>1, <2>2
<1>7. ASSUME NEW i \in Iface, AssignAddr(i) PROVE SettleInv'
  BY <1>1, <1>7 DEF AssignAddr
<1>8. CASE Settle
  BY <1>1, <1>8 DEF Settle
<1>9. CASE RouterAppears
  BY <1>1, <1>9 DEF RouterAppears
<1>10. CASE UNCHANGED vars
  BY <1>1, <1>10 DEF vars
<1> QED
  BY <1>2, <1>3, <1>4, <1>5, <1>6, <1>7, <1>8, <1>9, <1>10 DEF Next

\* When interface 0 has an address from the start, the resolution of a neighbour that
\* has answered is over, on any number of interfaces: nothing waits and no timer is left
\* that would forget it (processNgbrAd).  Otherwise it is not so: the first of several
\* interfaces that cannot ask takes the marker away, and an answer then stops one timer.
THEOREM AnswersSettle ==
  ASSUME 0 \notin NoAddrAtStart
  PROVE  Spec => []ReachableIsSettled
<1>1. Init => SettleInv
  <2> SUFFICES ASSUME Init PROVE SettleInv
    OBVIOUS
  <2>1. 0 \in addrs
    BY ParamAssumption DEF Init, Iface
  <2>2. \A t \in Nbr : Mine(tmrs, t) = {} /\ ne[t] = None /\ ppq[t] = <<>>
    BY EmptySeq DEF Init, Mine
  <2> QED
    BY <2>1, <2>2 DEF SettleInv, Calm, Shape, ReachableIsSettled
<1>2. SettleInv => ReachableIsSettled
  BY DEF SettleInv
<1> QED
  BY <1>1, <1>2, QueueInvariance, SettleStep, PTL DEF Spec
===============================================================================
