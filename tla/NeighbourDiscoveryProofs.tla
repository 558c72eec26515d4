----------------------- MODULE NeighbourDiscoveryProofs -----------------------
(***************************************************************************)
(* What the hosts of a link keep true while they configure their           *)
(* addresses, for any number of hosts, tokens and solicitations.           *)
(***************************************************************************)
EXTENDS NeighbourDiscovery, FiniteSetTheorems, SequenceTheorems, TLAPS

\* The states of a host as the functions of the module see it.
HostState ==
  [tentative : SUBSET Addr, inet : SUBSET Addr, dad : [Addr -> 0 .. dupAddrDetectTrans],
   groups : [Token -> Nat], initStarted : BOOLEAN, rs : Seq(1 .. MAX_RTR_SOLICITATIONS),
   out : SUBSET Addr]

\* The addresses that are being tested, by the counters of their timers.
Tested(d) == {a \in Addr : d[a] > 0}

\* The addresses that the host has or tests.
Used(s) == s.inet \cup Tested(s.dad)

\* How many of the addresses as there are in each group.
Tally(as) == [k \in Token |-> Cardinality({a \in as : a[2] = k})]

\* A host's groups are those of the addresses it uses.
Matched(s) == s.groups = Tally(Used(s))

\* An address is assigned or tentative, and only a tentative one is tested.
Apart(s) == s.inet \cap s.tentative = {} /\ Tested(s.dad) \subseteq s.tentative

\* Before the interface is initialised only the link-local address is tested.
Fresh(h, s) == ~ s.initStarted => /\ s.inet = {} /\ s.rs = <<>>
                                  /\ Tested(s.dad) \subseteq {linkLocalAddr(h)}

Sound(h, s) == /\ s \in HostState /\ IsFiniteSet(s.tentative)
               /\ Matched(s) /\ Apart(s) /\ Fresh(h, s)

\* A host that is down has started nothing.
Down(h) == ~ up[h] => ~ initStarted[h] /\ Tested(dad[h]) = {}

\* The first part of the invariant: each host by itself.
HostsInv ==
  /\ TypeOK
  /\ ~ crashed => \A h \in Host : Sound(h, Of(h)) /\ Down(h) /\ (rtrSolicited[h] => initStarted[h])

-----------------------------------------------------------------------------
\* The second part: hosts that use or test the same address, when there are detections.

Asked(h, a) == [type |-> "NS", src |-> h, target |-> a] \in wire

Answered(a) == \E m \in wire : m.type = "NA" /\ m.target = a

\* Only a host that has the address answers for it.
AnswersTrue == \A m \in wire : m.type = "NA" => m.target \in inet[m.src]

\* A host that tests an address that another one has will still ask, or hear of it.
OwnerHeard ==
  \A g, h \in Host, a \in Addr :
    g # h /\ a \in inet[g] /\ a \in Tested(dad[h]) => Asked(h, a) \/ Answered(a)

\* Of two hosts that test the same address one will still ask, and stop the other.
TestersMeet ==
  \A g, h \in Host, a \in Addr :
    g # h /\ a \in Tested(dad[g]) /\ a \in Tested(dad[h]) => Asked(g, a) \/ Asked(h, a)

LinkInv == UniqueAddress /\ (~ crashed => AnswersTrue /\ OwnerHeard /\ TestersMeet)

\* At most one timer solicits routers, and none when one has been heard.
QuietInv == \A h \in Host : Len(rs[h]) <= 1 /\ (rtrSolicited[h] => rs[h] = <<>>)

-----------------------------------------------------------------------------
\* Counting the addresses of a group.

LEMMA PairFinite ==
  ASSUME NEW x, NEW y
  PROVE  IsFiniteSet({x, y})
<1>1. IsFiniteSet({x})
  BY FS_Singleton
<1>2. IsFiniteSet({x} \cup {y})
  BY <1>1, FS_AddElement
<1>3. {x, y} = {x} \cup {y}
  OBVIOUS
<1> QED  BY <1>2, <1>3

LEMMA DisjointCard ==
  ASSUME NEW A, NEW B, IsFiniteSet(A), IsFiniteSet(B), A \cap B = {}
  PROVE  Cardinality(A \cup B) = Cardinality(A) + Cardinality(B)
<1>1. Cardinality(A \cup B) = Cardinality(A) + Cardinality(B) - Cardinality(A \cap B)
  BY FS_Union
<1>2. Cardinality(A \cap B) = 0
  BY FS_EmptySet
<1>3. Cardinality(A) \in Nat /\ Cardinality(B) \in Nat
  BY FS_CardinalityType
<1> QED  BY <1>1, <1>2, <1>3

LEMMA GroupFinite ==
  ASSUME NEW as \in SUBSET Addr, NEW k \in Token
  PROVE  IsFiniteSet({a \in as : a[2] = k})
<1> DEFINE with == {a \in as : a[2] = k}
<1>1. ASSUME NEW a \in with  PROVE a \in {<<LinkLocal, k>>, <<Global, k>>}
  <2>1. a \in {LinkLocal, Global} \X Token /\ a[2] = k
    BY DEF Addr
  <2> QED  BY <2>1
<1> QED  BY <1>1, PairFinite, FS_Subset

LEMMA TallyType ==
  ASSUME NEW as \in SUBSET Addr
  PROVE  Tally(as) \in [Token -> Nat]
<1> SUFFICES ASSUME NEW k \in Token  PROVE Cardinality({a \in as : a[2] = k}) \in Nat
  BY DEF Tally
<1> QED  BY GroupFinite, FS_CardinalityType

LEMMA TallyUnion ==
  ASSUME NEW as \in SUBSET Addr, NEW bs \in SUBSET Addr, as \cap bs = {}, NEW k \in Token
  PROVE  Tally(as \cup bs)[k] = Tally(as)[k] + Tally(bs)[k]
<1> DEFINE A == {a \in as : a[2] = k}
           B == {a \in bs : a[2] = k}
<1>1. {a \in as \cup bs : a[2] = k} = A \cup B /\ A \cap B = {}
  OBVIOUS
<1>2. IsFiniteSet(A) /\ IsFiniteSet(B)
  BY GroupFinite
<1>3. Cardinality(A \cup B) = Cardinality(A) + Cardinality(B)
  <2> HIDE DEF A, B
  <2> QED  BY <1>1, <1>2, DisjointCard
<1>4. /\ Tally(as \cup bs)[k] = Cardinality({a \in as \cup bs : a[2] = k})
      /\ Tally(as)[k] = Cardinality(A) /\ Tally(bs)[k] = Cardinality(B)
  BY DEF Tally
<1> HIDE DEF A, B
<1> QED  BY <1>1, <1>3, <1>4

\* Without one address, its group counts one less and the others as many.
LEMMA TallyWithout ==
  ASSUME NEW as \in SUBSET Addr, NEW b \in as
  PROVE  /\ Tally(as)[b[2]] > 0
         /\ Tally(as \ {b}) = [Tally(as) EXCEPT ![b[2]] = @ - 1]
<1>0. b[2] \in Token
  BY DEF Addr
<1>1. ASSUME NEW k \in Token, k # b[2]  PROVE Tally(as \ {b})[k] = Tally(as)[k]
  <2>1. {a \in as \ {b} : a[2] = k} = {a \in as : a[2] = k}
    BY <1>1
  <2> QED  BY <2>1 DEF Tally
<1>2. /\ Tally(as)[b[2]] > 0
      /\ Tally(as \ {b})[b[2]] = Tally(as)[b[2]] - 1
  <2> DEFINE A == {a \in as : a[2] = b[2]}
  <2>1. {a \in as \ {b} : a[2] = b[2]} = A \ {b} /\ b \in A
    OBVIOUS
  <2>2. Tally(as)[b[2]] = Cardinality(A) /\ Tally(as \ {b})[b[2]] = Cardinality({a \in as \ {b} : a[2] = b[2]})
    BY <1>0 DEF Tally
  <2>3. IsFiniteSet(A)
    BY <1>0, GroupFinite
  <2> HIDE DEF A
  <2>4. Cardinality(A \ {b}) = Cardinality(A) - 1 /\ IsFiniteSet(A \ {b})
    BY <2>1, <2>3, FS_RemoveElement
  <2>5. Cardinality(A \ {b}) \in Nat /\ Cardinality(A) \in Nat
    BY <2>3, <2>4, FS_CardinalityType
  <2>6. Cardinality(A) > 0
    BY <2>4, <2>5
  <2> QED  BY <2>1, <2>2, <2>4, <2>6
<1>3. Tally(as) \in [Token -> Nat] /\ Tally(as \ {b}) \in [Token -> Nat]
  BY TallyType
<1> QED  BY <1>0, <1>1, <1>2, <1>3

-----------------------------------------------------------------------------
\* The functions, on the state of one host.

\* The sum of two tallies, and a change of some values of a function.
LEMMA TallySum ==
  ASSUME NEW f \in [Token -> Nat], NEW g \in [Token -> Nat]
  PROVE  [k \in Token |-> f[k] + g[k]] \in [Token -> Nat]
  OBVIOUS

LEMMA Override ==
  ASSUME NEW f \in [Addr -> 0 .. dupAddrDetectTrans], NEW as \in SUBSET Addr,
         NEW x \in 0 .. dupAddrDetectTrans
  PROVE  LET d == [a \in Addr |-> IF a \in as THEN x ELSE f[a]]
         IN  /\ d \in [Addr -> 0 .. dupAddrDetectTrans]
             /\ \A a \in Addr : (a \in as => d[a] = x) /\ (a \notin as => d[a] = f[a])
  OBVIOUS

LEMMA Fields ==
  ASSUME NEW s \in HostState
  PROVE  /\ s.tentative \in SUBSET Addr /\ s.inet \in SUBSET Addr
         /\ s.dad \in [Addr -> 0 .. dupAddrDetectTrans] /\ s.groups \in [Token -> Nat]
         /\ s.initStarted \in BOOLEAN /\ s.rs \in Seq(1 .. MAX_RTR_SOLICITATIONS)
         /\ s.out \in SUBSET Addr
  BY DEF HostState

LEMMA SameFunction ==
  ASSUME NEW f \in [Token -> Nat], NEW g \in [Token -> Nat], \A k \in Token : f[k] = g[k]
  PROVE  f = g
  OBVIOUS

LEMMA TestedMore ==
  ASSUME NEW f \in [Addr -> 0 .. dupAddrDetectTrans], NEW as \in SUBSET Addr,
         NEW g \in [Addr -> 0 .. dupAddrDetectTrans],
         \A a \in Addr : (a \in as => g[a] = 1) /\ (a \notin as => g[a] = f[a])
  PROVE  Tested(g) = Tested(f) \cup as
<1>1. ASSUME NEW a \in Addr  PROVE a \in Tested(g) <=> a \in Tested(f) \cup as
  <2>1. CASE a \in as
    <3>1. g[a] = 1
      BY <2>1
    <3>2. g[a] > 0
      BY <3>1
    <3> QED  BY <2>1, <3>2 DEF Tested
  <2>2. CASE a \notin as
    BY <2>2 DEF Tested
  <2> QED  BY <2>1, <2>2
<1> QED  BY <1>1 DEF Tested

LEMMA TestedLess ==
  ASSUME NEW f \in [Addr -> 0 .. dupAddrDetectTrans], NEW as \in SUBSET Addr,
         NEW g \in [Addr -> 0 .. dupAddrDetectTrans],
         \A a \in Addr : (a \in as => g[a] = 0) /\ (a \notin as => g[a] = f[a])
  PROVE  Tested(g) = Tested(f) \ as
<1>1. ASSUME NEW a \in Addr  PROVE a \in Tested(g) <=> a \in Tested(f) \ as
  <2>1. CASE a \in as
    <3>1. g[a] = 0
      BY <2>1
    <3>2. ~ (g[a] > 0)
      BY <3>1
    <3> QED  BY <2>1, <3>2 DEF Tested
  <2>2. CASE a \notin as
    BY <2>2 DEF Tested
  <2> QED  BY <2>1, <2>2
<1> QED  BY <1>1 DEF Tested

LEMMA TestedZero ==
  ASSUME NEW f \in [Addr -> 0 .. dupAddrDetectTrans], NEW a \in Addr
  PROVE  Tested([f EXCEPT ![a] = 0]) = Tested(f) \ {a}
<1> DEFINE g == [f EXCEPT ![a] = 0]
<1>1. 0 \in 0 .. dupAddrDetectTrans
  BY ParamAssumption
<1>2. /\ g \in [Addr -> 0 .. dupAddrDetectTrans]
      /\ \A b \in Addr : (b \in {a} => g[b] = 0) /\ (b \notin {a} => g[b] = f[b])
  BY <1>1
<1> HIDE DEF g
<1>3. {a} \in SUBSET Addr
  OBVIOUS
<1>4. Tested(g) = Tested(f) \ {a}
  BY <1>2, <1>3, TestedLess, Zenon
<1> QED  BY <1>4 DEF g

LEMMA CountUp ==
  ASSUME NEW f \in [Addr -> 0 .. dupAddrDetectTrans], NEW a \in Addr, f[a] > 0,
         f[a] < dupAddrDetectTrans
  PROVE  /\ [f EXCEPT ![a] = @ + 1] \in [Addr -> 0 .. dupAddrDetectTrans]
         /\ Tested([f EXCEPT ![a] = @ + 1]) = Tested(f)
<1> DEFINE g == [f EXCEPT ![a] = @ + 1]
<1>1. g \in [Addr -> 0 .. dupAddrDetectTrans] /\ g[a] = f[a] + 1 /\ f[a] \in Nat
  BY ParamAssumption
<1>2. ASSUME NEW b \in Addr  PROVE b \in Tested(g) <=> b \in Tested(f)
  <2>1. CASE b = a
    <3>1. g[a] > 0
      BY <1>1
    <3> QED  BY <2>1, <3>1 DEF Tested
  <2>2. CASE b # a
    BY <2>2 DEF Tested
  <2> QED  BY <2>1, <2>2
<1> QED  BY <1>1, <1>2 DEF Tested

\* Join counts the addresses in their groups and changes nothing else.
Joins(s, as, t) ==
  /\ t \in HostState
  /\ \A k \in Token : t.groups[k] = s.groups[k] + Tally(as)[k]
  /\ t.tentative = s.tentative /\ t.inet = s.inet /\ t.dad = s.dad
  /\ t.initStarted = s.initStarted /\ t.rs = s.rs /\ t.out = s.out

LEMMA JoinState ==
  ASSUME NEW s \in HostState, NEW as \in SUBSET Addr
  PROVE  Joins(s, as, Join(s, as))
<1> SUFFICES ASSUME NEW t, t = Join(s, as)  PROVE Joins(s, as, t)
  OBVIOUS
<1> DEFINE g == [k \in Token |-> s.groups[k] + Tally(as)[k]]
<1>1. g \in [Token -> Nat] /\ \A k \in Token : g[k] = s.groups[k] + Tally(as)[k]
  <2>1. PICK j \in [Token -> Nat] : j = s.groups
    BY Fields
  <2>2. PICK f \in [Token -> Nat] : f = Tally(as)
    BY TallyType
  <2>3. \A k \in Token : j[k] + f[k] \in Nat
    OBVIOUS
  <2>4. g = [k \in Token |-> j[k] + f[k]]
    BY <2>1, <2>2
  <2> QED  BY <2>2, <2>3, <2>4
<1>2. t = [s EXCEPT !.groups = g]
  BY DEF Join, Tally
<1> HIDE DEF g
<1>3. t \in HostState /\ t.groups = g
  BY <1>1, <1>2 DEF HostState
<1>4. /\ t.tentative = s.tentative /\ t.inet = s.inet
      /\ t.dad = s.dad /\ t.initStarted = s.initStarted
      /\ t.rs = s.rs /\ t.out = s.out
  BY <1>1, <1>2 DEF HostState
<1> QED  BY <1>1, <1>3, <1>4 DEF Joins

\* What a joined group counts when none of the addresses was in use.
LEMMA JoinTally ==
  ASSUME NEW us \in SUBSET Addr, NEW as \in SUBSET Addr, us \cap as = {},
         NEW g \in [Token -> Nat], \A k \in Token : g[k] = Tally(us)[k] + Tally(as)[k]
  PROVE  g = Tally(us \cup as)
<1>1. Tally(us \cup as) \in [Token -> Nat]
  BY TallyType
<1>2. \A k \in Token : g[k] = Tally(us \cup as)[k]
  BY TallyUnion
<1> QED  BY <1>1, <1>2, SameFunction

\* Begin joins the groups and tests the addresses.
Begins(s, as, t) ==
  /\ t \in HostState
  /\ \A k \in Token : t.groups[k] = s.groups[k] + Tally(as)[k]
  /\ Tested(t.dad) = Tested(s.dad) \cup as /\ t.out = s.out \cup as
  /\ t.tentative = s.tentative /\ t.inet = s.inet
  /\ t.initStarted = s.initStarted /\ t.rs = s.rs

LEMMA BeginState ==
  ASSUME NEW s \in HostState, NEW as \in SUBSET Addr, dupAddrDetectTrans > 0
  PROVE  Begins(s, as, Begin(s, as))
<1> SUFFICES ASSUME NEW t, t = Begin(s, as)  PROVE Begins(s, as, t)
  OBVIOUS
<1> DEFINE d == [a \in Addr |-> IF a \in as THEN 1 ELSE s.dad[a]]
<1>1. /\ d \in [Addr -> 0 .. dupAddrDetectTrans]
      /\ \A a \in Addr : (a \in as => d[a] = 1) /\ (a \notin as => d[a] = s.dad[a])
  <2>1. 1 \in 0 .. dupAddrDetectTrans
    BY ParamAssumption
  <2>2. s.dad \in [Addr -> 0 .. dupAddrDetectTrans]
    BY Fields
  <2> QED  BY <2>1, <2>2, Override
<1>2. PICK j : j = Join(s, as)
  OBVIOUS
<1>3. /\ j \in HostState /\ j.tentative = s.tentative /\ j.inet = s.inet /\ j.dad = s.dad
      /\ j.initStarted = s.initStarted /\ j.rs = s.rs /\ j.out = s.out
      /\ \A k \in Token : j.groups[k] = s.groups[k] + Tally(as)[k]
  BY <1>2, JoinState DEF Joins
<1>4. t = [j EXCEPT !.dad = [a \in Addr |-> IF a \in as THEN 1 ELSE j.dad[a]],
                    !.out = j.out \cup as]
  BY <1>2 DEF Begin
<1>5. t = [j EXCEPT !.dad = d, !.out = s.out \cup as]
  BY <1>3, <1>4
<1>6. s.out \cup as \in SUBSET Addr
  BY DEF HostState
<1> HIDE DEF d
<1>7. t \in HostState
  BY <1>1, <1>3, <1>5, <1>6 DEF HostState
<1>8. t.dad = d /\ t.out = s.out \cup as
  BY <1>1, <1>3, <1>5, <1>6 DEF HostState
<1>9. /\ t.groups = j.groups /\ t.tentative = j.tentative /\ t.inet = j.inet
      /\ t.initStarted = j.initStarted /\ t.rs = j.rs
  BY <1>1, <1>3, <1>5, <1>6 DEF HostState
<1>10. Tested(d) = Tested(s.dad) \cup as
  BY <1>1, Fields, TestedMore
<1> QED  BY <1>3, <1>7, <1>8, <1>9, <1>10 DEF Begins

\* Assign makes the addresses the host's own.
Assigns(s, as, t) ==
  /\ t \in HostState
  /\ t.tentative = s.tentative \ as /\ t.inet = s.inet \cup as
  /\ Tested(t.dad) = Tested(s.dad) \ as
  /\ t.groups = s.groups /\ t.out = s.out /\ t.initStarted = s.initStarted /\ t.rs = s.rs

LEMMA AssignState ==
  ASSUME NEW s \in HostState, NEW as \in SUBSET Addr
  PROVE  Assigns(s, as, Assign(s, as))
<1> SUFFICES ASSUME NEW t, t = Assign(s, as)  PROVE Assigns(s, as, t)
  OBVIOUS
<1> DEFINE d == [a \in Addr |-> IF a \in as THEN 0 ELSE s.dad[a]]
<1>1. /\ d \in [Addr -> 0 .. dupAddrDetectTrans]
      /\ \A a \in Addr : (a \in as => d[a] = 0) /\ (a \notin as => d[a] = s.dad[a])
  <2>1. 0 \in 0 .. dupAddrDetectTrans
    BY ParamAssumption
  <2>2. s.dad \in [Addr -> 0 .. dupAddrDetectTrans]
    BY Fields
  <2> QED  BY <2>1, <2>2, Override
<1>2. t = [s EXCEPT !.tentative = s.tentative \ as, !.inet = s.inet \cup as, !.dad = d]
  BY DEF Assign
<1>3. s.tentative \ as \in SUBSET Addr /\ s.inet \cup as \in SUBSET Addr
  BY DEF HostState
<1> HIDE DEF d
<1>4. t \in HostState
  BY <1>1, <1>2, <1>3 DEF HostState
<1>5. t.tentative = s.tentative \ as /\ t.inet = s.inet \cup as
  BY <1>1, <1>2, <1>3 DEF HostState
<1>6. /\ t.dad = d /\ t.groups = s.groups /\ t.out = s.out
      /\ t.initStarted = s.initStarted /\ t.rs = s.rs
  BY <1>1, <1>2, <1>3 DEF HostState
<1>7. Tested(d) = Tested(s.dad) \ as
  BY <1>1, Fields, TestedLess
<1> QED  BY <1>4, <1>5, <1>6, <1>7 DEF Assigns

\* The groups after Join count the addresses in use and the new ones.
LEMMA JoinedTally ==
  ASSUME NEW s \in HostState, Matched(s), Apart(s), NEW as \in SUBSET s.tentative,
         as \cap Tested(s.dad) = {}, NEW t \in HostState,
         \A k \in Token : t.groups[k] = s.groups[k] + Tally(as)[k]
  PROVE  t.groups = Tally(Used(s) \cup as)
<1>1. as \in SUBSET Addr
  BY Fields
<1>2. Used(s) \cap as = {} /\ Used(s) \in SUBSET Addr
  <2>1. s.inet \in SUBSET Addr /\ Tested(s.dad) \in SUBSET Addr
    BY Fields DEF Tested
  <2> QED  BY <2>1 DEF Used, Apart
<1>3. t.groups \in [Token -> Nat] /\ s.groups \in [Token -> Nat]
  BY Fields
<1>4. PICK g, us : g = t.groups /\ us = Used(s)
  OBVIOUS
<1>5. /\ g \in [Token -> Nat] /\ us \in SUBSET Addr /\ us \cap as = {}
      /\ \A k \in Token : g[k] = Tally(us)[k] + Tally(as)[k]
  BY <1>2, <1>3, <1>4 DEF Matched
<1>6. g = Tally(us \cup as)
  BY <1>1, <1>5, JoinTally
<1> QED  BY <1>4, <1>6

\* Detection of new tentative addresses keeps the groups and the sets right.
LEMMA BeginSound ==
  ASSUME NEW s \in HostState, Matched(s), Apart(s),
         NEW as \in SUBSET s.tentative, as \cap Tested(s.dad) = {}, NEW t, Begins(s, as, t)
  PROVE  Matched(t) /\ Apart(t)
<1>1. /\ t \in HostState /\ t.inet = s.inet /\ t.tentative = s.tentative
      /\ Tested(t.dad) = Tested(s.dad) \cup as
      /\ \A k \in Token : t.groups[k] = s.groups[k] + Tally(as)[k]
  BY DEF Begins
<1>2. t.groups = Tally(Used(s) \cup as)
  BY <1>1, JoinedTally
<1>3. Used(t) = Used(s) \cup as
  BY <1>1 DEF Used
<1>4. Matched(t)
  BY <1>2, <1>3 DEF Matched
<1>5. Apart(t)
  BY <1>1 DEF Apart
<1> QED  BY <1>4, <1>5

\* The end of a detection, or of none for addresses whose groups have been joined.
LEMMA AssignSound ==
  ASSUME NEW s \in HostState, Apart(s), NEW as \in SUBSET Addr, s.groups = Tally(Used(s) \cup as),
         NEW t, Assigns(s, as, t)
  PROVE  Matched(t) /\ Apart(t)
<1>1. /\ t \in HostState /\ t.inet = s.inet \cup as /\ t.tentative = s.tentative \ as
      /\ t.groups = s.groups /\ Tested(t.dad) = Tested(s.dad) \ as
  BY DEF Assigns
<1>2. Used(t) = Used(s) \cup as
  BY <1>1 DEF Used
<1>3. Matched(t)
  BY <1>1, <1>2 DEF Matched
<1>4. Apart(t)
  BY <1>1 DEF Apart
<1> QED  BY <1>3, <1>4

\* Solicit adds n timers, unless a router has been heard.
Solicits(h, s, n, t) ==
  /\ t \in HostState
  /\ t.tentative = s.tentative /\ t.inet = s.inet /\ t.dad = s.dad /\ t.groups = s.groups
  /\ t.initStarted = s.initStarted /\ t.out = s.out
  /\ t.rs = s.rs \/ (~ rtrSolicited[h] /\ Len(t.rs) = Len(s.rs) + n)

LEMMA SolicitState ==
  ASSUME NEW h \in Host, NEW s \in HostState, NEW n \in Nat
  PROVE  Solicits(h, s, n, Solicit(h, s, n))
<1> SUFFICES ASSUME NEW t, t = Solicit(h, s, n)  PROVE Solicits(h, s, n, t)
  OBVIOUS
<1>1. CASE rtrSolicited[h]
  BY <1>1 DEF Solicit, Solicits
<1>2. CASE ~ rtrSolicited[h]
  <2> DEFINE q == s.rs \o [k \in 1 .. n |-> 1]
  <2>1. q \in Seq(1 .. MAX_RTR_SOLICITATIONS) /\ Len(q) = Len(s.rs) + n
    <3>1. s.rs \in Seq(1 .. MAX_RTR_SOLICITATIONS)
      BY Fields
    <3>2. 1 \in 1 .. MAX_RTR_SOLICITATIONS
      BY ParamAssumption
    <3>3. [k \in 1 .. n |-> 1] \in Seq(1 .. MAX_RTR_SOLICITATIONS) /\ Len([k \in 1 .. n |-> 1]) = n
      BY <3>2
    <3> QED  BY <3>1, <3>3
  <2>2. t = [s EXCEPT !.rs = q]
    BY <1>2 DEF Solicit
  <2> HIDE DEF q
  <2>3. t \in HostState /\ t.rs = q
    BY <2>1, <2>2 DEF HostState
  <2>4. /\ t.tentative = s.tentative /\ t.inet = s.inet /\ t.dad = s.dad /\ t.groups = s.groups
        /\ t.initStarted = s.initStarted /\ t.out = s.out
    BY <2>1, <2>2 DEF HostState
  <2> QED  BY <1>2, <2>1, <2>3, <2>4 DEF Solicits
<1> QED  BY <1>1, <1>2

\* What a function does to a host: it stays sound.  With detection, the host assigns
\* at most the addresses as, asks for the ones it begins to test, and solicits routers
\* only when its interface is initialised.
Moves(h, s, as, t) ==
  /\ Sound(h, t)
  /\ s.initStarted => t.initStarted
  /\ dupAddrDetectTrans > 0 =>
       /\ s.inet \subseteq t.inet /\ t.inet \subseteq s.inet \cup as
       /\ Tested(t.dad) \subseteq Tested(s.dad) \cup t.out
       /\ t.rs = s.rs \/ (~ rtrSolicited[h] /\ ~ s.initStarted /\ Len(t.rs) <= 1)

\* The interface is initialised once, when nothing is being tested.
LEMMA InitialiseSound ==
  ASSUME NEW h \in Host, NEW s \in HostState, IsFiniteSet(s.tentative), Matched(s), Apart(s),
         Tested(s.dad) = {}, s.rs = <<>>, ~ s.initStarted
  PROVE  Moves(h, s, {}, initialiseInterface(h, s))
<1> SUFFICES ASSUME NEW t, t = initialiseInterface(h, s)  PROVE Moves(h, s, {}, t)
  OBVIOUS
<1> DEFINE others == s.tentative
<1>0. others \in SUBSET Addr
  BY Fields
<1>1. ASSUME NEW b \in HostState, t = [b EXCEPT !.initStarted = TRUE]
      PROVE  /\ t \in HostState /\ t.initStarted = TRUE /\ t.tentative = b.tentative /\ t.inet = b.inet
             /\ t.dad = b.dad /\ t.groups = b.groups /\ t.rs = b.rs /\ t.out = b.out
  BY <1>1 DEF HostState
<1>2. ASSUME NEW b, NEW c, Matched(b), Apart(b), IsFiniteSet(b.tentative), NEW n, Solicits(h, b, n, c),
             t = [c EXCEPT !.initStarted = TRUE]
      PROVE  Sound(h, t)
  <2>1. /\ c \in HostState /\ c.tentative = b.tentative /\ c.inet = b.inet /\ c.dad = b.dad
        /\ c.groups = b.groups
    BY <1>2 DEF Solicits
  <2>2. /\ t \in HostState /\ t.initStarted = TRUE /\ t.tentative = c.tentative /\ t.inet = c.inet
        /\ t.dad = c.dad /\ t.groups = c.groups
    BY <1>1, <1>2, <2>1
  <2>3. Matched(t) /\ Apart(t)
    BY <1>2, <2>1, <2>2 DEF Matched, Used, Apart
  <2> QED  BY <1>2, <2>1, <2>2, <2>3 DEF Sound, Fresh
<1>3. CASE dupAddrDetectTrans > 0
  <2>1. PICK b : b = Begin(s, others)
    OBVIOUS
  <2>2. Begins(s, others, b)
    BY <1>0, <1>3, <2>1, BeginState
  <2>3. Matched(b) /\ Apart(b)
    BY <2>2, BeginSound
  <2>4. PICK c : c = Solicit(h, b, 1)
    OBVIOUS
  <2>5. b \in HostState
    BY <2>2 DEF Begins
  <2>6. Solicits(h, b, 1, c)
    BY <2>4, <2>5, SolicitState
  <2>7. t = [c EXCEPT !.initStarted = TRUE]
    BY <1>3, <2>1, <2>4 DEF initialiseInterface
  <2>8. Sound(h, t)
    BY <1>2, <2>2, <2>3, <2>6, <2>7 DEF Begins
  <2>9. /\ t.initStarted = TRUE /\ t.inet = s.inet /\ t.dad = b.dad /\ t.rs = c.rs /\ t.out = b.out
    BY <1>1, <2>2, <2>6, <2>7 DEF Begins, Solicits
  <2>10. Tested(t.dad) \subseteq Tested(s.dad) \cup t.out
    BY <2>2, <2>9 DEF Begins
  <2>11. t.rs = s.rs \/ (~ rtrSolicited[h] /\ Len(t.rs) <= 1)
    <3>1. b.rs = s.rs /\ (c.rs = b.rs \/ (~ rtrSolicited[h] /\ Len(c.rs) = Len(b.rs) + 1))
      BY <2>2, <2>6 DEF Begins, Solicits
    <3>2. Len(b.rs) = 0
      BY <3>1
    <3>3. CASE c.rs = b.rs
      BY <2>9, <3>1, <3>3
    <3>4. CASE ~ rtrSolicited[h] /\ Len(c.rs) = Len(b.rs) + 1
      <4>1. Len(c.rs) <= 1
        BY <3>2, <3>4
      <4> QED  BY <2>9, <3>4, <4>1
    <3> QED  BY <3>1, <3>3, <3>4
  <2> QED  BY <2>8, <2>9, <2>10, <2>11 DEF Moves
<1>4. CASE ~ (dupAddrDetectTrans > 0)
  <2>1. PICK j : j = Join(s, others)
    OBVIOUS
  <2>2. Joins(s, others, j)
    BY <1>0, <2>1, JoinState
  <2>3. PICK b : b = Assign(j, others)
    OBVIOUS
  <2>4. Assigns(j, others, b)
    BY <1>0, <2>2, <2>3, AssignState DEF Joins
  <2>5. Matched(b) /\ Apart(b)
    <3>1. Apart(j) /\ Used(j) = Used(s) /\ j \in HostState
      BY <2>2 DEF Joins, Apart, Used
    <3>2. j.groups = Tally(Used(s) \cup others)
      BY <1>0, <2>2, JoinedTally DEF Joins
    <3> QED  BY <1>0, <2>4, <3>1, <3>2, AssignSound
  <2>6. PICK n : n = 1 + Cardinality(others)
    OBVIOUS
  <2>7. n \in Nat
    BY <2>6, FS_CardinalityType
  <2>8. PICK c : c = Solicit(h, b, n)
    OBVIOUS
  <2>9. Solicits(h, b, n, c)
    BY <2>4, <2>7, <2>8, SolicitState DEF Assigns
  <2>10. t = [c EXCEPT !.initStarted = TRUE]
    BY <1>4, <2>1, <2>3, <2>6, <2>8 DEF initialiseInterface
  <2>11. IsFiniteSet(b.tentative)
    BY <2>2, <2>4, FS_EmptySet DEF Joins, Assigns
  <2>12. Sound(h, t)
    BY <1>2, <2>5, <2>9, <2>10, <2>11
  <2> QED  BY <1>4, <2>12 DEF Moves
<1> QED  BY <1>3, <1>4

\* The end of a detection.  Only the link-local address may come first.
LEMMA SuccessSound ==
  ASSUME NEW h \in Host, NEW s \in HostState, IsFiniteSet(s.tentative), Apart(s), Fresh(h, s),
         NEW a \in Addr, s.groups = Tally(Used(s) \cup {a}),
         ~ s.initStarted => a = linkLocalAddr(h)
  PROVE  Moves(h, s, {a}, dupAddrDetSuccess(h, s, a))
<1> SUFFICES ASSUME NEW t, t = dupAddrDetSuccess(h, s, a)  PROVE Moves(h, s, {a}, t)
  OBVIOUS
<1>1. PICK b : b = Assign(s, {a})
  OBVIOUS
<1>2. Assigns(s, {a}, b)
  BY <1>1, AssignState
<1>3. Matched(b) /\ Apart(b)
  BY <1>2, AssignSound
<1>4. /\ b \in HostState /\ b.inet = s.inet \cup {a} /\ Tested(b.dad) = Tested(s.dad) \ {a}
      /\ b.rs = s.rs /\ b.out = s.out /\ b.initStarted = s.initStarted
  BY <1>2 DEF Assigns
<1>5. IsFiniteSet(b.tentative)
  BY <1>2, FS_Subset DEF Assigns
<1>6. CASE s.initStarted
  <2>1. t = b
    BY <1>1, <1>6 DEF dupAddrDetSuccess
  <2>2. Sound(h, t)
    BY <1>3, <1>4, <1>5, <1>6, <2>1 DEF Sound, Fresh
  <2> QED  BY <1>4, <1>6, <2>1, <2>2 DEF Moves
<1>7. CASE ~ s.initStarted
  <2>1. t = initialiseInterface(h, b)
    BY <1>1, <1>7 DEF dupAddrDetSuccess
  <2>2. Tested(b.dad) = {} /\ b.rs = <<>> /\ ~ b.initStarted
    BY <1>4, <1>7 DEF Fresh
  <2>3. Moves(h, b, {}, t)
    BY <1>3, <1>4, <1>5, <2>1, <2>2, InitialiseSound
  <2> QED  BY <1>4, <1>7, <2>3 DEF Moves
<1> QED  BY <1>6, <1>7

\* The start of a detection.
LEMMA DetectSound ==
  ASSUME NEW h \in Host, NEW s, Sound(h, s), NEW a \in s.tentative, a \notin Tested(s.dad),
         ~ s.initStarted => a = linkLocalAddr(h)
  PROVE  Moves(h, s, {}, Detect(h, s, a))
<1> SUFFICES ASSUME NEW t, t = Detect(h, s, a)  PROVE Moves(h, s, {}, t)
  OBVIOUS
<1>1. s \in HostState /\ IsFiniteSet(s.tentative) /\ Matched(s) /\ Apart(s) /\ Fresh(h, s)
  BY DEF Sound
<1>2. a \in Addr /\ {a} \in SUBSET Addr /\ {a} \in SUBSET s.tentative /\ {a} \cap Tested(s.dad) = {}
  BY <1>1, Fields
<1>3. CASE dupAddrDetectTrans > 0
  <2>1. t = Begin(s, {a})
    BY <1>3 DEF Detect
  <2>2. Begins(s, {a}, t)
    BY <1>1, <1>2, <1>3, <2>1, BeginState
  <2>3. Matched(t) /\ Apart(t)
    BY <1>1, <1>2, <2>2, BeginSound
  <2>4. /\ t \in HostState /\ t.tentative = s.tentative /\ t.inet = s.inet
        /\ t.initStarted = s.initStarted /\ t.rs = s.rs /\ t.out = s.out \cup {a}
        /\ Tested(t.dad) = Tested(s.dad) \cup {a}
    BY <2>2 DEF Begins
  <2>5. Fresh(h, t)
    BY <1>1, <2>4 DEF Fresh
  <2>6. Sound(h, t)
    BY <1>1, <2>3, <2>4, <2>5 DEF Sound
  <2> QED  BY <2>4, <2>6 DEF Moves
<1>4. CASE ~ (dupAddrDetectTrans > 0)
  <2>1. PICK j : j = Join(s, {a})
    OBVIOUS
  <2>2. Joins(s, {a}, j)
    BY <1>1, <1>2, <2>1, JoinState
  <2>3. /\ j \in HostState /\ j.tentative = s.tentative /\ j.inet = s.inet /\ j.dad = s.dad
        /\ j.initStarted = s.initStarted /\ j.rs = s.rs
    BY <2>2 DEF Joins
  <2>4. j.groups = Tally(Used(s) \cup {a})
    BY <1>1, <1>2, <2>2, JoinedTally DEF Joins
  <2>5. Used(j) = Used(s) /\ Apart(j) /\ Fresh(h, j) /\ IsFiniteSet(j.tentative)
    BY <1>1, <2>3 DEF Used, Apart, Fresh
  <2>6. t = dupAddrDetSuccess(h, j, a)
    BY <1>4, <2>1 DEF Detect
  <2>7. ~ j.initStarted => a = linkLocalAddr(h)
    BY <2>3
  <2>8. Moves(h, j, {a}, t)
    BY <1>2, <2>3, <2>4, <2>5, <2>6, <2>7, SuccessSound
  <2> QED  BY <1>4, <2>3, <2>8 DEF Moves
<1> QED  BY <1>3, <1>4

\* The expiry of a detection's timer: another solicitation, or success.
LEMMA TimeoutSound ==
  ASSUME NEW h \in Host, NEW s, Sound(h, s), s.out = {}, NEW a \in Tested(s.dad)
  PROVE  Moves(h, s, {a}, dupAddrDetection(h, s, a))
<1> SUFFICES ASSUME NEW t, t = dupAddrDetection(h, s, a)  PROVE Moves(h, s, {a}, t)
  OBVIOUS
<1>1. s \in HostState /\ IsFiniteSet(s.tentative) /\ Matched(s) /\ Apart(s) /\ Fresh(h, s)
  BY DEF Sound
<1>2. a \in Addr /\ s.dad[a] > 0
  BY DEF Tested
<1>3. CASE s.dad[a] < dupAddrDetectTrans
  <2> DEFINE d == [s.dad EXCEPT ![a] = @ + 1]
  <2>1. d \in [Addr -> 0 .. dupAddrDetectTrans] /\ Tested(d) = Tested(s.dad)
    BY <1>1, <1>2, <1>3, Fields, CountUp
  <2>2. t = [s EXCEPT !.dad = d, !.out = {a}]
    BY <1>3 DEF dupAddrDetection
  <2>a. d \in [Addr -> 0 .. dupAddrDetectTrans] /\ {a} \in SUBSET Addr
    BY <1>2, <2>1
  <2> HIDE DEF d
  <2>3. t \in HostState /\ t.dad = d
    BY <1>1, <2>a, <2>2 DEF HostState
  <2>4. /\ t.tentative = s.tentative /\ t.inet = s.inet
        /\ t.groups = s.groups /\ t.initStarted = s.initStarted /\ t.rs = s.rs
    BY <1>1, <1>2, <2>1, <2>2 DEF HostState
  <2>5. Matched(t) /\ Apart(t) /\ Fresh(h, t)
    BY <1>1, <2>1, <2>3, <2>4 DEF Matched, Used, Apart, Fresh
  <2>6. Sound(h, t)
    BY <1>1, <2>3, <2>4, <2>5 DEF Sound
  <2> QED  BY <2>1, <2>3, <2>4, <2>6 DEF Moves
<1>4. CASE ~ (s.dad[a] < dupAddrDetectTrans)
  <2>1. t = dupAddrDetSuccess(h, s, a)
    BY <1>4 DEF dupAddrDetection
  <2>2. s.groups = Tally(Used(s) \cup {a})
    <3>1. Used(s) \cup {a} = Used(s)
      BY DEF Used
    <3> QED  BY <1>1, <3>1 DEF Matched
  <2>3. ~ s.initStarted => a = linkLocalAddr(h)
    BY <1>1 DEF Fresh
  <2> QED  BY <1>1, <1>2, <2>1, <2>2, <2>3, SuccessSound
<1> QED  BY <1>3, <1>4

\* The advertised prefix.
LEMMA PrefixSound ==
  ASSUME NEW h \in Host, NEW s, Sound(h, s)
  PROVE  Moves(h, s, {}, prefixAddrConf(h, s))
<1> SUFFICES ASSUME NEW t, t = prefixAddrConf(h, s)  PROVE Moves(h, s, {}, t)
  OBVIOUS
<1> DEFINE known == s.inet = {} \/ (\E a \in s.inet \cup s.tentative : a[1] = Global)
           a == <<Global, TokenOf[h]>>
<1>1. s \in HostState /\ IsFiniteSet(s.tentative) /\ Matched(s) /\ Apart(s) /\ Fresh(h, s)
  BY DEF Sound
<1>2. CASE known
  <2>1. t = s
    BY <1>2 DEF prefixAddrConf
  <2> QED  BY <2>1 DEF Moves
<1>3. CASE ~ known
  <2>1. PICK b : b = [s EXCEPT !.tentative = @ \cup {a}]
    OBVIOUS
  <2>2. t = Detect(h, b, a)
    BY <1>3, <2>1 DEF prefixAddrConf
  <2>3. a \in Addr /\ a \notin s.inet \cup s.tentative /\ s.inet # {}
    <3>1. a \in Addr /\ a[1] = Global
      BY ParamAssumption DEF Addr
    <3> QED  BY <1>3, <3>1
  <2>4. s.tentative \cup {a} \in SUBSET Addr
    BY <1>1, <2>3, Fields
  <2> HIDE DEF a
  <2>5. b \in HostState /\ b.tentative = s.tentative \cup {a}
    BY <1>1, <2>1, <2>4 DEF HostState
  <2>6. /\ b.inet = s.inet /\ b.dad = s.dad /\ b.groups = s.groups
        /\ b.initStarted = s.initStarted /\ b.rs = s.rs /\ b.out = s.out
    BY <1>1, <2>1, <2>4 DEF HostState
  <2>7. s.initStarted
    BY <1>1, <2>3 DEF Fresh
  <2>8. Matched(b) /\ Apart(b) /\ Fresh(h, b)
    BY <1>1, <2>3, <2>5, <2>6 DEF Matched, Used, Apart, Fresh
  <2>9. IsFiniteSet(b.tentative)
    BY <1>1, <2>5, FS_AddElement
  <2>10. Sound(h, b)
    BY <2>5, <2>8, <2>9 DEF Sound
  <2>11. a \in b.tentative /\ a \notin Tested(b.dad) /\ b.initStarted
    BY <1>1, <2>3, <2>5, <2>6, <2>7 DEF Apart
  <2>12. Moves(h, b, {}, t)
    BY <2>2, <2>10, <2>11, DetectSound
  <2> QED  BY <2>6, <2>12 DEF Moves
<1> QED  BY <1>2, <1>3

-----------------------------------------------------------------------------
\* From the functions to the steps.

\* Soundness does not depend on what has been sent.
LEMMA SameSound ==
  ASSUME NEW h \in Host, NEW t, Sound(h, t), NEW u \in HostState,
         u.tentative = t.tentative, u.inet = t.inet, u.dad = t.dad, u.groups = t.groups,
         u.initStarted = t.initStarted, u.rs = t.rs
  PROVE  Sound(h, u)
<1>1. IsFiniteSet(u.tentative) /\ Matched(u) /\ Apart(u) /\ Fresh(h, u)
  BY DEF Sound, Matched, Used, Apart, Fresh
<1> QED  BY <1>1 DEF Sound

LEMMA OfState ==
  ASSUME TypeOK, NEW h \in Host
  PROVE  /\ Of(h) \in HostState
         /\ Of(h).tentative = tentative[h] /\ Of(h).inet = inet[h] /\ Of(h).dad = dad[h]
         /\ Of(h).groups = groups[h] /\ Of(h).initStarted = initStarted[h]
         /\ Of(h).rs = rs[h] /\ Of(h).out = {}
  BY DEF Of, HostState, TypeOK

\* The variables of a host's own state after a step.
LEMMA BecomesState ==
  ASSUME TypeOK, NEW h \in Host, NEW t \in HostState, Becomes(h, t, wire)
  PROVE  /\ tentative' \in [Host -> SUBSET Addr] /\ inet' \in [Host -> SUBSET Addr]
         /\ dad' \in [Host -> [Addr -> 0 .. dupAddrDetectTrans]]
         /\ groups' \in [Host -> [Token -> Nat]] /\ initStarted' \in [Host -> BOOLEAN]
         /\ rs' \in [Host -> Seq(1 .. MAX_RTR_SOLICITATIONS)] /\ wire' \subseteq Message
         /\ tentative'[h] = t.tentative /\ inet'[h] = t.inet /\ dad'[h] = t.dad
         /\ groups'[h] = t.groups /\ initStarted'[h] = t.initStarted /\ rs'[h] = t.rs
         /\ \A g \in Host \ {h} :
              /\ tentative'[g] = tentative[g] /\ inet'[g] = inet[g] /\ dad'[g] = dad[g]
              /\ groups'[g] = groups[g] /\ initStarted'[g] = initStarted[g] /\ rs'[g] = rs[g]
<1>1. /\ t.tentative \in SUBSET Addr /\ t.inet \in SUBSET Addr
      /\ t.dad \in [Addr -> 0 .. dupAddrDetectTrans] /\ t.groups \in [Token -> Nat]
      /\ t.initStarted \in BOOLEAN /\ t.rs \in Seq(1 .. MAX_RTR_SOLICITATIONS)
      /\ t.out \in SUBSET Addr
  BY Fields
<1>2. /\ tentative' \in [Host -> SUBSET Addr] /\ inet' \in [Host -> SUBSET Addr]
      /\ tentative'[h] = t.tentative /\ inet'[h] = t.inet
      /\ \A g \in Host \ {h} : tentative'[g] = tentative[g] /\ inet'[g] = inet[g]
  BY <1>1 DEF Becomes, TypeOK
<1>3. /\ dad' \in [Host -> [Addr -> 0 .. dupAddrDetectTrans]] /\ groups' \in [Host -> [Token -> Nat]]
      /\ dad'[h] = t.dad /\ groups'[h] = t.groups
      /\ \A g \in Host \ {h} : dad'[g] = dad[g] /\ groups'[g] = groups[g]
  BY <1>1 DEF Becomes, TypeOK
<1>4. /\ initStarted' \in [Host -> BOOLEAN] /\ rs' \in [Host -> Seq(1 .. MAX_RTR_SOLICITATIONS)]
      /\ initStarted'[h] = t.initStarted /\ rs'[h] = t.rs
      /\ \A g \in Host \ {h} : initStarted'[g] = initStarted[g] /\ rs'[g] = rs[g]
  BY <1>1 DEF Becomes, TypeOK
<1>5. wire' \subseteq Message
  BY <1>1 DEF Becomes, TypeOK, Message
<1> QED  BY <1>2, <1>3, <1>4, <1>5

\* A step by which h alone moves keeps every host sound.
LEMMA HostStep ==
  ASSUME HostsInv, ~ crashed, NEW h \in Host, NEW s, NEW as, NEW t, Moves(h, s, as, t),
         s.initStarted = initStarted[h], Becomes(h, t, wire),
         up' \in [Host -> BOOLEAN], up'[h], \A g \in Host \ {h} : up'[g] = up[g],
         rtrSolicited' \in [Host -> BOOLEAN], rtrSolicited'[h] => initStarted[h],
         \A g \in Host \ {h} : rtrSolicited'[g] = rtrSolicited[g],
         crashed' \in BOOLEAN, router' \in [Host -> Router]
  PROVE  HostsInv'
<1>1. TypeOK /\ t \in HostState /\ Sound(h, t)
  BY DEF HostsInv, Moves, Sound
<1>2. /\ tentative' \in [Host -> SUBSET Addr] /\ inet' \in [Host -> SUBSET Addr]
      /\ dad' \in [Host -> [Addr -> 0 .. dupAddrDetectTrans]]
      /\ groups' \in [Host -> [Token -> Nat]] /\ initStarted' \in [Host -> BOOLEAN]
      /\ rs' \in [Host -> Seq(1 .. MAX_RTR_SOLICITATIONS)] /\ wire' \subseteq Message
  BY <1>1, BecomesState
<1>3. TypeOK'
  BY <1>2 DEF TypeOK
<1>4. ASSUME NEW g \in Host
      PROVE  Sound(g, Of(g))' /\ Down(g)' /\ (rtrSolicited'[g] => initStarted'[g])
  <2>1. PICK u : u = Of(g)'
    OBVIOUS
  <2>2. /\ u \in HostState
        /\ u.tentative = tentative'[g] /\ u.inet = inet'[g] /\ u.dad = dad'[g]
        /\ u.groups = groups'[g] /\ u.initStarted = initStarted'[g] /\ u.rs = rs'[g]
    BY <1>2, <2>1 DEF Of, HostState
  <2>3. CASE g = h
    <3>1. /\ tentative'[h] = t.tentative /\ inet'[h] = t.inet /\ dad'[h] = t.dad
          /\ groups'[h] = t.groups /\ initStarted'[h] = t.initStarted /\ rs'[h] = t.rs
      BY <1>1, BecomesState
    <3>2. Sound(g, u)
      BY <1>1, <2>2, <2>3, <3>1, SameSound
    <3>3. rtrSolicited'[h] => initStarted'[h]
      BY <3>1 DEF Moves
    <3> QED  BY <2>1, <2>3, <3>2, <3>3 DEF Down
  <2>4. CASE g # h
    <3>1. /\ tentative'[g] = tentative[g] /\ inet'[g] = inet[g] /\ dad'[g] = dad[g]
          /\ groups'[g] = groups[g] /\ initStarted'[g] = initStarted[g] /\ rs'[g] = rs[g]
      BY <1>1, <2>4, BecomesState
    <3>2. Sound(g, Of(g)) /\ Down(g) /\ (rtrSolicited[g] => initStarted[g])
      BY DEF HostsInv
    <3>3. Sound(g, u)
      BY <1>1, <2>2, <3>1, <3>2, OfState, SameSound
    <3> QED  BY <2>1, <2>4, <3>1, <3>2, <3>3 DEF Down
  <2> QED  BY <2>3, <2>4
<1> QED  BY <1>3, <1>4 DEF HostsInv

\* Steps that change only the solicitation of routers and what is known of them.
LEMMA RouterStep ==
  ASSUME HostsInv, ~ crashed, UNCHANGED <<up, tentative, inet, dad, groups, initStarted, wire>>,
         rs' \in [Host -> Seq(1 .. MAX_RTR_SOLICITATIONS)],
         \A g \in Host : ~ initStarted[g] => rs'[g] = <<>>,
         rtrSolicited' \in [Host -> BOOLEAN],
         \A g \in Host : rtrSolicited'[g] => initStarted[g],
         crashed' \in BOOLEAN, router' \in [Host -> Router]
  PROVE  HostsInv'
<1>1. TypeOK
  BY DEF HostsInv
<1>2. TypeOK'
  BY <1>1 DEF TypeOK
<1>3. ASSUME NEW g \in Host
      PROVE  Sound(g, Of(g))' /\ Down(g)' /\ (rtrSolicited'[g] => initStarted'[g])
  <2>1. PICK u : u = Of(g)'
    OBVIOUS
  <2>2. PICK s : s = Of(g)
    OBVIOUS
  <2>3. /\ u \in HostState
        /\ u.tentative = tentative[g] /\ u.inet = inet[g] /\ u.dad = dad[g]
        /\ u.groups = groups[g] /\ u.initStarted = initStarted[g] /\ u.rs = rs'[g]
    BY <1>1, <2>1 DEF Of, HostState, TypeOK
  <2>4. /\ s.tentative = tentative[g] /\ s.inet = inet[g] /\ s.dad = dad[g]
        /\ s.groups = groups[g] /\ s.initStarted = initStarted[g]
    BY <1>1, <2>2, OfState
  <2>5. Sound(g, s) /\ Down(g)
    BY <2>2 DEF HostsInv
  <2>6. IsFiniteSet(u.tentative) /\ Matched(u) /\ Apart(u) /\ Fresh(g, u)
    BY <2>3, <2>4, <2>5 DEF Sound, Matched, Used, Apart, Fresh
  <2>7. Sound(g, u)
    BY <2>3, <2>6 DEF Sound
  <2> QED  BY <2>1, <2>5, <2>7 DEF Down
<1> QED  BY <1>2, <1>3 DEF HostsInv

LEMMA LeaveType ==
  ASSUME NEW f \in [Token -> Nat], NEW k \in Token
  PROVE  Leave(f, k) \in [Token -> Nat]
<1>1. CASE f[k] = 0
  <2>1. Leave(f, k) = [f EXCEPT ![k] = 0]
    BY <1>1 DEF Leave
  <2> QED  BY <2>1
<1>2. CASE f[k] # 0
  <2>1. Leave(f, k) = [f EXCEPT ![k] = f[k] - 1]
    BY <1>2 DEF Leave
  <2>2. f[k] - 1 \in Nat
    BY <1>2
  <2> QED  BY <2>1, <2>2
<1> QED  BY <1>1, <1>2

\* Leaving the group of one address in use leaves the groups of the others.
LEMMA LeaveTally ==
  ASSUME NEW us \in SUBSET Addr, NEW a \in us
  PROVE  Leave(Tally(us), a[2]) = Tally(us \ {a})
<1>1. PICK f, k : f = Tally(us) /\ k = a[2]
  OBVIOUS
<1>2. f \in [Token -> Nat] /\ k \in Token /\ f[k] > 0
  BY <1>1, TallyType, TallyWithout DEF Addr
<1>3. Tally(us \ {a}) = [f EXCEPT ![k] = f[k] - 1]
  BY <1>1, TallyWithout
<1>4. Leave(f, k) = [f EXCEPT ![k] = f[k] - 1]
  <2>1. f[k] # 0
    BY <1>2
  <2> QED  BY <2>1 DEF Leave
<1> QED  BY <1>1, <1>3, <1>4

\* What a host does that hears of another user of a: it gives a tested address up.
GivesUp(g, a) ==
  /\ a \in tentative[g] /\ a \in Tested(dad[g])
  /\ tentative'[g] = tentative[g] \ {a} /\ dad'[g] = [dad[g] EXCEPT ![a] = 0]
  /\ groups'[g] = Leave(groups[g], a[2])

Stays(g) == tentative'[g] = tentative[g] /\ dad'[g] = dad[g] /\ groups'[g] = groups[g]

LEMMA HearTypes ==
  ASSUME TypeOK, NEW hs \in SUBSET Host, NEW a \in Addr, checkDupAddrDetected(hs, a)
  PROVE  /\ tentative' \in [Host -> SUBSET Addr] /\ groups' \in [Host -> [Token -> Nat]]
         /\ dad' \in [Host -> [Addr -> 0 .. dupAddrDetectTrans]] /\ crashed' \in BOOLEAN
<1>1. a[2] \in Token
  BY DEF Addr
<1>2. tentative' \in [Host -> SUBSET Addr] /\ crashed' \in BOOLEAN
  BY DEF checkDupAddrDetected, TypeOK
<1>3. groups' \in [Host -> [Token -> Nat]]
  <2>1. \A g \in Host : Leave(groups[g], a[2]) \in [Token -> Nat]
    BY <1>1, LeaveType DEF TypeOK
  <2> QED  BY <2>1 DEF checkDupAddrDetected, TypeOK
<1>4. dad' \in [Host -> [Addr -> 0 .. dupAddrDetectTrans]]
  <2>1. \A g \in Host : [dad[g] EXCEPT ![a] = 0] \in [Addr -> 0 .. dupAddrDetectTrans]
    BY ParamAssumption DEF TypeOK
  <2> QED  BY <2>1 DEF checkDupAddrDetected, TypeOK
<1> QED  BY <1>2, <1>3, <1>4

LEMMA HearCases ==
  ASSUME TypeOK, NEW hs \in SUBSET Host, NEW a \in Addr, checkDupAddrDetected(hs, a), ~ crashed',
         NEW g \in Host
  PROVE  /\ Stays(g) \/ GivesUp(g, a)
         /\ g \in hs /\ a \in tentative[g] => GivesUp(g, a)
<1> DEFINE found == {x \in hs : a \in tentative[x]}
           dup == {x \in found : dad[x][a] > 0}
<1>1. found = dup
  BY DEF checkDupAddrDetected
<1>2. CASE g \in found
  <2>1. g \in dup
    BY <1>1, <1>2
  <2>2. dad[g][a] > 0 /\ a \in tentative[g]
    BY <2>1
  <2>3. tentative'[g] = tentative[g] \ {a} /\ dad'[g] = [dad[g] EXCEPT ![a] = 0]
    BY <2>1 DEF checkDupAddrDetected
  <2>4. groups'[g] = Leave(groups[g], a[2])
    BY <1>2 DEF checkDupAddrDetected
  <2> QED  BY <2>2, <2>3, <2>4 DEF GivesUp, Tested
<1>3. CASE g \notin found
  <2>1. g \notin dup
    BY <1>3
  <2>2. tentative'[g] = tentative[g] /\ dad'[g] = dad[g]
    BY <2>1 DEF checkDupAddrDetected
  <2>3. groups'[g] = groups[g]
    BY <1>3 DEF checkDupAddrDetected
  <2> QED  BY <1>3, <2>2, <2>3 DEF Stays
<1> QED  BY <1>2, <1>3

\* Hearing of another user of an address keeps every host sound.
LEMMA HearStep ==
  ASSUME HostsInv, ~ crashed, NEW hs \in SUBSET Host, NEW a \in Addr, checkDupAddrDetected(hs, a),
         UNCHANGED <<up, inet, initStarted, rtrSolicited, rs, router>>, wire' \subseteq Message
  PROVE  HostsInv'
<1>1. TypeOK
  BY DEF HostsInv
<1>2. TypeOK'
  <2>1. /\ tentative' \in [Host -> SUBSET Addr] /\ groups' \in [Host -> [Token -> Nat]]
        /\ dad' \in [Host -> [Addr -> 0 .. dupAddrDetectTrans]] /\ crashed' \in BOOLEAN
    BY <1>1, HearTypes
  <2> QED  BY <1>1, <2>1 DEF TypeOK
<1>3. ASSUME ~ crashed', NEW g \in Host
      PROVE  Sound(g, Of(g))' /\ Down(g)' /\ (rtrSolicited'[g] => initStarted'[g])
  <2>1. PICK u : u = Of(g)'
    OBVIOUS
  <2>2. PICK s : s = Of(g)
    OBVIOUS
  <2>3. /\ u \in HostState
        /\ u.tentative = tentative'[g] /\ u.inet = inet[g] /\ u.dad = dad'[g]
        /\ u.groups = groups'[g] /\ u.initStarted = initStarted[g] /\ u.rs = rs[g]
    BY <1>2, <2>1 DEF Of, HostState, TypeOK
  <2>4. /\ s \in HostState /\ s.tentative = tentative[g] /\ s.inet = inet[g] /\ s.dad = dad[g]
        /\ s.groups = groups[g] /\ s.initStarted = initStarted[g] /\ s.rs = rs[g]
    BY <1>1, <2>2, OfState
  <2>5. Sound(g, s) /\ Down(g) /\ (rtrSolicited[g] => initStarted[g])
    BY <2>2 DEF HostsInv
  <2>6. CASE Stays(g)
    <3>1. Sound(g, u)
      BY <2>3, <2>4, <2>5, <2>6, SameSound DEF Stays
    <3> QED  BY <2>1, <2>5, <2>6, <3>1 DEF Down, Stays
  <2>7. CASE GivesUp(g, a)
    <3>1. /\ u.tentative = s.tentative \ {a} /\ u.dad = [s.dad EXCEPT ![a] = 0]
          /\ u.groups = Leave(s.groups, a[2]) /\ a \in s.tentative /\ a \in Tested(s.dad)
      BY <2>3, <2>4, <2>7 DEF GivesUp
    <3>2. Tested(u.dad) = Tested(s.dad) \ {a}
      <4>1. PICK f : f = s.dad
        OBVIOUS
      <4>2. f \in [Addr -> 0 .. dupAddrDetectTrans]
        BY <2>4, <4>1, Fields
      <4>3. Tested([f EXCEPT ![a] = 0]) = Tested(f) \ {a}
        BY <4>2, TestedZero
      <4> QED  BY <3>1, <4>1, <4>3
    <3>3. Used(u) = Used(s) \ {a} /\ a \in Used(s) /\ Used(s) \in SUBSET Addr
      <4>1. s.inet \in SUBSET Addr /\ Tested(s.dad) \in SUBSET Addr /\ s.inet \cap s.tentative = {}
        BY <2>4, <2>5, Fields DEF Tested, Sound, Apart
      <4> QED  BY <2>3, <2>4, <3>1, <3>2, <4>1 DEF Used
    <3>4. Matched(u)
      BY <2>5, <3>1, <3>3, LeaveTally DEF Sound, Matched
    <3>5. Apart(u) /\ Fresh(g, u)
      BY <2>3, <2>4, <2>5, <3>1, <3>2 DEF Sound, Apart, Fresh
    <3>6. IsFiniteSet(u.tentative)
      BY <2>5, <3>1, FS_Subset DEF Sound
    <3>7. Sound(g, u)
      BY <2>3, <3>4, <3>5, <3>6 DEF Sound
    <3>8. up[g]
      BY <2>5, <2>7 DEF Down, GivesUp
    <3> QED  BY <2>1, <2>5, <3>7, <3>8 DEF Down
  <2> QED  BY <1>1, <1>3, <2>6, <2>7, HearCases
<1> QED  BY <1>2, <1>3 DEF HostsInv

-----------------------------------------------------------------------------
\* Each host by itself: every step keeps HostsInv.

LEMMA HostsInit == Init => HostsInv
<1> SUFFICES ASSUME Init  PROVE HostsInv
  OBVIOUS
<1>1. TypeOK
  <2>1. tentative \in [Host -> SUBSET Addr]
    BY ParamAssumption DEF Init, Addr
  <2>2. dad \in [Host -> [Addr -> 0 .. dupAddrDetectTrans]]
    <3>1. 0 \in 0 .. dupAddrDetectTrans
      BY ParamAssumption
    <3> QED  BY <3>1 DEF Init
  <2>3. groups \in [Host -> [Token -> Nat]] /\ wire \subseteq Message
    BY DEF Init
  <2>4. rs \in [Host -> Seq(1 .. MAX_RTR_SOLICITATIONS)]
    BY DEF Init
  <2>5. router \in [Host -> Router]
    BY DEF Init, Router
  <2> QED  BY <2>1, <2>2, <2>3, <2>4, <2>5 DEF Init, TypeOK
<1>2. ASSUME NEW h \in Host
      PROVE  Sound(h, Of(h)) /\ Down(h) /\ (rtrSolicited[h] => initStarted[h])
  <2>1. PICK s : s = Of(h)
    OBVIOUS
  <2>2. /\ s \in HostState /\ s.tentative = Manual[h] /\ s.inet = {} /\ s.dad = dad[h]
        /\ s.groups = groups[h] /\ s.initStarted = FALSE /\ s.rs = <<>>
    BY <1>1, <2>1, OfState DEF Init
  <2>3. Tested(dad[h]) = {}
    <3>1. ASSUME NEW a \in Addr  PROVE ~ (dad[h][a] > 0)
      <4>1. dad[h][a] = 0
        BY DEF Init
      <4> QED  BY <4>1
    <3> QED  BY <3>1 DEF Tested
  <2>4. Used(s) = {}
    BY <2>2, <2>3 DEF Used
  <2>5. Tally({}) = groups[h]
    <3>1. ASSUME NEW k \in Token  PROVE Cardinality({a \in {} : a[2] = k}) = 0
      <4>1. {a \in {} : a[2] = k} = {}
        OBVIOUS
      <4> QED  BY <4>1, FS_EmptySet
    <3>2. Tally({}) = [k \in Token |-> 0]
      BY <3>1 DEF Tally
    <3> QED  BY <3>2 DEF Init
  <2>6. Matched(s)
    BY <2>2, <2>4, <2>5 DEF Matched
  <2>7. Apart(s) /\ Fresh(h, s) /\ IsFiniteSet(s.tentative)
    BY <2>2, <2>3, ParamAssumption DEF Apart, Fresh
  <2>8. Sound(h, s)
    BY <2>2, <2>6, <2>7 DEF Sound
  <2> QED  BY <2>1, <2>3, <2>8 DEF Down, Init
<1> QED  BY <1>1, <1>2 DEF HostsInv

\* The state in which h starts the detection of its link-local address.
LEMMA StartMoves ==
  ASSUME HostsInv, NEW h \in Host, nodeInitialise(h)
  PROVE  \E s, t : /\ s.initStarted = initStarted[h] /\ s.inet = inet[h]
                   /\ s.dad = dad[h] /\ s.rs = rs[h]
                   /\ Moves(h, s, {}, t) /\ Becomes(h, t, wire)
<1> DEFINE a == linkLocalAddr(h)
<1>1. PICK o : o = Of(h)
  OBVIOUS
<1>2. PICK s : s = [o EXCEPT !.tentative = @ \cup {a}]
  OBVIOUS
<1>3. PICK t : t = Detect(h, s, a)
  OBVIOUS
<1>4. Becomes(h, t, wire)
  BY <1>1, <1>2, <1>3 DEF nodeInitialise
<1>5. /\ o \in HostState /\ o.inet = inet[h] /\ o.dad = dad[h]
      /\ o.initStarted = initStarted[h] /\ o.rs = rs[h]
  BY <1>1, OfState DEF HostsInv
<1>6. Sound(h, o) /\ Down(h)
  BY <1>1 DEF HostsInv, nodeInitialise
<1>7. ~ o.initStarted /\ Tested(o.dad) = {}
  BY <1>5, <1>6 DEF Down, nodeInitialise
<1>8. a \in Addr /\ o.tentative \cup {a} \in SUBSET Addr
  <2>1. a \in Addr
    BY ParamAssumption DEF linkLocalAddr, Addr
  <2> QED  BY <1>5, <2>1, Fields
<1> HIDE DEF a
<1>9. s \in HostState /\ s.tentative = o.tentative \cup {a}
  BY <1>2, <1>5, <1>8 DEF HostState
<1>10. /\ s.inet = o.inet /\ s.dad = o.dad /\ s.groups = o.groups
       /\ s.initStarted = o.initStarted /\ s.rs = o.rs
  BY <1>2, <1>5, <1>8 DEF HostState
<1>11. Matched(s) /\ Apart(s) /\ Fresh(h, s)
  BY <1>6, <1>7, <1>9, <1>10 DEF Sound, Matched, Used, Apart, Fresh
<1>12. IsFiniteSet(s.tentative)
  BY <1>6, <1>9, FS_AddElement DEF Sound
<1>13. Sound(h, s)
  BY <1>9, <1>11, <1>12 DEF Sound
<1>14. Moves(h, s, {}, t)
  <2>1. a \in s.tentative /\ a \notin Tested(s.dad) /\ a = linkLocalAddr(h)
    BY <1>7, <1>9, <1>10 DEF a
  <2> QED  BY <1>3, <1>13, <2>1, DetectSound
<1> QED  BY <1>4, <1>5, <1>10, <1>14

\* A router advertisement to a host: one timer of router solicitations ends, and the
\* advertised prefix may begin a detection.
Quieted(h, s) ==
  /\ Sound(h, s) /\ s.initStarted = initStarted[h] /\ s.inet = inet[h] /\ s.dad = dad[h]
  /\ s.rs = IF ~ rtrSolicited[h] /\ inet[h] # {} /\ rs[h] # <<>> THEN Tail(rs[h]) ELSE rs[h]

LEMMA TailType ==
  ASSUME NEW S, NEW q \in Seq(S), q # <<>>
  PROVE  Tail(q) \in Seq(S) /\ Len(Tail(q)) = Len(q) - 1
  OBVIOUS

LEMMA AdvertMoves ==
  ASSUME HostsInv, NEW h \in Host, processRtrAd(h)
  PROVE  \/ \E s \in HostState : crashed' /\ Quieted(h, s) /\ Becomes(h, s, wire) /\ UNCHANGED router
         \/ \E s, t : /\ Quieted(h, s) /\ Moves(h, s, {}, t) /\ Becomes(h, t, wire)
                      /\ router' \in [Host -> Router] /\ UNCHANGED crashed
<1>1. PICK o : o = Of(h)
  OBVIOUS
<1>2. /\ o \in HostState /\ o.inet = inet[h] /\ o.dad = dad[h] /\ o.rs = rs[h]
      /\ o.initStarted = initStarted[h] /\ Sound(h, o)
  BY <1>1, OfState DEF HostsInv, processRtrAd
<1> DEFINE ends == ~ rtrSolicited[h] /\ inet[h] # {} /\ rs[h] # <<>>
<1>3. PICK s : s = IF ends THEN [o EXCEPT !.rs = Tail(@)] ELSE o
  OBVIOUS
<1>4. s \in HostState /\ Quieted(h, s)
  <2>1. CASE ends
    <3>1. Tail(rs[h]) \in Seq(1 .. MAX_RTR_SOLICITATIONS)
      BY <1>2, <2>1, Fields, TailType
    <3>2. s = [o EXCEPT !.rs = Tail(rs[h])]
      BY <1>2, <1>3, <2>1
    <3>3. s \in HostState /\ s.rs = Tail(rs[h])
      BY <1>2, <3>1, <3>2 DEF HostState
    <3>4. /\ s.tentative = o.tentative /\ s.inet = o.inet /\ s.dad = o.dad
          /\ s.groups = o.groups /\ s.initStarted = o.initStarted
      BY <1>2, <3>1, <3>2 DEF HostState
    <3>5. Matched(s) /\ Apart(s) /\ Fresh(h, s) /\ IsFiniteSet(s.tentative)
      BY <1>2, <2>1, <3>4 DEF Sound, Matched, Used, Apart, Fresh
    <3>6. Sound(h, s)
      BY <3>3, <3>5 DEF Sound
    <3> QED  BY <1>2, <2>1, <3>3, <3>4, <3>6 DEF Quieted
  <2>2. CASE ~ ends
    BY <1>2, <1>3, <2>2 DEF Quieted
  <2> QED  BY <2>1, <2>2
<1>5. \/ crashed' = TRUE /\ Becomes(h, s, wire) /\ UNCHANGED router
      \/ /\ router' = [router EXCEPT ![h] = [list |-> TRUE, dest |-> TRUE, rel |-> "yes"]]
         /\ Becomes(h, prefixAddrConf(h, s), wire) /\ UNCHANGED crashed
  <2>1. s = IF ~ rtrSolicited[h] /\ o.inet # {} /\ o.rs # <<>> THEN [o EXCEPT !.rs = Tail(@)] ELSE o
    BY <1>2, <1>3
  <2> HIDE DEF ends
  <2> QED  BY <1>1, <2>1 DEF processRtrAd
<1>6. CASE crashed' = TRUE /\ Becomes(h, s, wire) /\ UNCHANGED router
  BY <1>4, <1>6
<1>7. CASE /\ router' = [router EXCEPT ![h] = [list |-> TRUE, dest |-> TRUE, rel |-> "yes"]]
           /\ Becomes(h, prefixAddrConf(h, s), wire) /\ UNCHANGED crashed
  <2>1. PICK t : t = prefixAddrConf(h, s)
    OBVIOUS
  <2>2. Moves(h, s, {}, t)
    BY <1>4, <2>1, PrefixSound DEF Quieted
  <2>3. router' \in [Host -> Router]
    BY <1>7 DEF HostsInv, TypeOK, Router
  <2> QED  BY <1>4, <1>7, <2>1, <2>2, <2>3
<1> QED  BY <1>5, <1>6, <1>7

LEMMA TimeoutMoves ==
  ASSUME HostsInv, NEW h \in Host, NEW a \in Addr, DupAddrSolTimeout(h, a)
  PROVE  \E s, t : /\ s.initStarted = initStarted[h] /\ s.inet = inet[h]
                   /\ s.dad = dad[h] /\ s.rs = rs[h]
                   /\ Moves(h, s, {a}, t) /\ Becomes(h, t, wire)
<1>1. PICK s : s = Of(h)
  OBVIOUS
<1>2. /\ s.inet = inet[h] /\ s.dad = dad[h] /\ s.rs = rs[h] /\ s.out = {}
      /\ s.initStarted = initStarted[h] /\ Sound(h, s)
  BY <1>1, OfState DEF HostsInv, DupAddrSolTimeout
<1>3. a \in Tested(s.dad)
  BY <1>2 DEF DupAddrSolTimeout, Tested
<1>4. Moves(h, s, {a}, dupAddrDetection(h, s, a))
  BY <1>2, <1>3, TimeoutSound
<1>5. Becomes(h, dupAddrDetection(h, s, a), wire)
  BY <1>1 DEF DupAddrSolTimeout
<1> QED  BY <1>2, <1>4, <1>5

LEMMA RemoveState ==
  ASSUME NEW S, NEW q \in Seq(S), NEW k \in 1 .. Len(q)
  PROVE  RemoveAt(q, k) \in Seq(S) /\ Len(RemoveAt(q, k)) = Len(q) - 1
<1>1. Len(q) \in Nat /\ k \in Int /\ 1 <= k /\ k <= Len(q)
  BY LenProperties
<1>9. PICK n \in Nat : n = Len(q)
  BY <1>1
<1>2. PICK b, c : b = SubSeq(q, 1, k - 1) /\ c = SubSeq(q, k + 1, Len(q))
  OBVIOUS
<1>3. b \in Seq(S) /\ Len(b) = k - 1
  <2>1. \A i \in 1 .. k - 1 : q[i] \in S
    BY <1>1, ElementOfSeq
  <2>2. Len(b) = IF 1 <= k - 1 THEN (k - 1) - 1 + 1 ELSE 0
    BY <1>1, <1>2, <2>1, SubSeqProperties
  <2> QED  BY <1>1, <1>2, <2>1, <2>2, SubSeqProperties
<1>4. c \in Seq(S) /\ Len(c) = Len(q) - k
  <2>1. \A i \in k + 1 .. Len(q) : q[i] \in S
    BY <1>1, ElementOfSeq
  <2>2. Len(c) = IF k + 1 <= Len(q) THEN Len(q) - (k + 1) + 1 ELSE 0
    BY <1>1, <1>2, <2>1, SubSeqProperties
  <2> QED  BY <1>1, <1>2, <2>1, <2>2, SubSeqProperties
<1>5. b \o c \in Seq(S) /\ Len(b \o c) = Len(b) + Len(c)
  BY <1>3, <1>4, ConcatProperties
<1>6. RemoveAt(q, k) = b \o c
  BY <1>2 DEF RemoveAt
<1>7. Len(b) + Len(c) = Len(q) - 1
  <2>1. Len(b) = k - 1 /\ Len(c) = n - k
    BY <1>3, <1>4, <1>9
  <2> QED  BY <1>1, <1>9, <2>1
<1>8. Len(b \o c) = Len(q) - 1
  BY <1>5, <1>7
<1> QED  BY <1>5, <1>6, <1>8, Zenon

\* Another router solicitation, or the end of the timer.
LEMMA RetryState ==
  ASSUME NEW q \in Seq(1 .. MAX_RTR_SOLICITATIONS), NEW k \in DOMAIN q, NEW r,
         r = IF q[k] < MAX_RTR_SOLICITATIONS THEN [q EXCEPT ![k] = @ + 1] ELSE RemoveAt(q, k)
  PROVE  r \in Seq(1 .. MAX_RTR_SOLICITATIONS) /\ Len(r) <= Len(q)
<1>1. k \in 1 .. Len(q) /\ Len(q) \in Nat
  BY LenProperties
<1>2. q[k] \in 1 .. MAX_RTR_SOLICITATIONS
  BY <1>1, ElementOfSeq
<1>3. CASE q[k] < MAX_RTR_SOLICITATIONS
  <2>1. PICK x : x = q[k] + 1
    OBVIOUS
  <2>2. x \in 1 .. MAX_RTR_SOLICITATIONS
    BY <1>2, <1>3, <2>1, ParamAssumption
  <2>3. r = [q EXCEPT ![k] = x]
    BY <1>3, <2>1
  <2>4. r \in Seq(1 .. MAX_RTR_SOLICITATIONS) /\ Len(r) = Len(q)
    <3>1. ASSUME NEW S, q \in Seq(S), x \in S  PROVE r \in Seq(S) /\ Len(r) = Len(q)
      BY <1>1, <2>3, <3>1, ExceptSeq
    <3> QED  BY <2>2, <3>1
  <2> QED  BY <1>1, <2>4
<1>4. CASE ~ (q[k] < MAX_RTR_SOLICITATIONS)
  <2>1. r = RemoveAt(q, k)
    BY <1>4
  <2>2. r \in Seq(1 .. MAX_RTR_SOLICITATIONS) /\ Len(r) = Len(q) - 1
    BY <1>1, <2>1, RemoveState
  <2> QED  BY <1>1, <2>2
<1> QED  BY <1>3, <1>4

LEMMA RtrSolHosts ==
  ASSUME HostsInv, NEW h \in Host, NEW k \in DOMAIN rs[h], RtrSolTimeout(h, k)
  PROVE  HostsInv' /\ Len(rs'[h]) <= Len(rs[h]) /\ \A g \in Host \ {h} : rs'[g] = rs[g]
<1>1. TypeOK /\ ~ crashed
  BY DEF HostsInv, RtrSolTimeout
<1>2. rs \in [Host -> Seq(1 .. MAX_RTR_SOLICITATIONS)]
  BY <1>1 DEF TypeOK
<1>3. PICK q, r : /\ q = rs[h]
                  /\ r = IF q[k] < MAX_RTR_SOLICITATIONS THEN [q EXCEPT ![k] = @ + 1] ELSE RemoveAt(q, k)
  OBVIOUS
<1>4. r \in Seq(1 .. MAX_RTR_SOLICITATIONS) /\ Len(r) <= Len(q)
  BY <1>2, <1>3, RetryState
<1>5. rs' = [rs EXCEPT ![h] = r]
  <2>1. CASE q[k] < MAX_RTR_SOLICITATIONS
    <3>1. r = [rs[h] EXCEPT ![k] = rs[h][k] + 1]
      BY <1>3, <2>1
    <3>2. rs' = [rs EXCEPT ![h][k] = rs[h][k] + 1]
      BY <1>3, <2>1 DEF RtrSolTimeout
    <3> QED  BY <1>2, <3>1, <3>2
  <2>2. CASE ~ (q[k] < MAX_RTR_SOLICITATIONS)
    <3>1. r = RemoveAt(q, k)
      BY <1>3, <2>2
    <3> QED  BY <1>3, <2>2, <3>1 DEF RtrSolTimeout
  <2> QED  BY <2>1, <2>2
<1>6. /\ rs' \in [Host -> Seq(1 .. MAX_RTR_SOLICITATIONS)] /\ rs'[h] = r
      /\ \A g \in Host \ {h} : rs'[g] = rs[g]
  BY <1>2, <1>4, <1>5
<1>7. rs[h] # <<>>
  OBVIOUS
<1>8. ASSUME NEW g \in Host, ~ initStarted[g]  PROVE rs'[g] = <<>>
  <2>1. rs[g] = <<>>
    <3>1. Fresh(g, Of(g))
      BY <1>1 DEF HostsInv, Sound
    <3> QED  BY <1>1, <1>8, <3>1, OfState DEF Fresh
  <2> QED  BY <1>6, <1>7, <2>1
<1>9. HostsInv'
  <2>1. \A g \in Host : rtrSolicited'[g] => initStarted[g]
    BY <1>1 DEF HostsInv, RtrSolTimeout
  <2> QED  BY <1>1, <1>6, <1>8, <2>1, RouterStep DEF RtrSolTimeout, TypeOK
<1> QED  BY <1>3, <1>4, <1>6, <1>9

\* A host with an address, and one that solicits routers, is initialised.
LEMMA Initialised ==
  ASSUME HostsInv, ~ crashed, NEW h \in Host
  PROVE  /\ inet[h] # {} => initStarted[h]
         /\ rs[h] # <<>> => initStarted[h]
         /\ rtrSolicited[h] => initStarted[h]
         /\ Tested(dad[h]) # {} => up[h]
         /\ inet[h] # {} => up[h]
<1>1. TypeOK /\ Fresh(h, Of(h)) /\ Down(h) /\ (rtrSolicited[h] => initStarted[h])
  BY DEF HostsInv, Sound
<1>2. /\ Of(h).inet = inet[h] /\ Of(h).rs = rs[h] /\ Of(h).initStarted = initStarted[h]
  BY <1>1, OfState
<1> QED  BY <1>1, <1>2 DEF Fresh, Down

LEMMA WithdrawHosts ==
  ASSUME HostsInv, NEW h \in Host, RouterWithdraws(h)
  PROVE  HostsInv'
<1>1. TypeOK /\ ~ crashed
  BY DEF HostsInv, RouterWithdraws
<1> DEFINE heard == ~ rtrSolicited[h] /\ inet[h] # {}
<1>2. /\ rtrSolicited' = [rtrSolicited EXCEPT ![h] = @ \/ heard]
      /\ rs' = IF heard /\ rs[h] # <<>> THEN [rs EXCEPT ![h] = Tail(@)] ELSE rs
  BY DEF RouterWithdraws
<1>3. heard => initStarted[h]
  BY <1>1, Initialised
<1>4. /\ rtrSolicited' \in [Host -> BOOLEAN]
      /\ \A g \in Host : rtrSolicited'[g] => initStarted[g]
  <2>1. rtrSolicited' \in [Host -> BOOLEAN] /\ (rtrSolicited'[h] => rtrSolicited[h] \/ heard)
    BY <1>1, <1>2 DEF TypeOK
  <2>2. \A g \in Host \ {h} : rtrSolicited'[g] = rtrSolicited[g]
    BY <1>1, <1>2 DEF TypeOK
  <2>3. \A g \in Host : rtrSolicited[g] => initStarted[g]
    BY <1>1, Initialised
  <2> QED  BY <1>3, <2>1, <2>2, <2>3
<1>5. /\ rs' \in [Host -> Seq(1 .. MAX_RTR_SOLICITATIONS)]
      /\ \A g \in Host : ~ initStarted[g] => rs'[g] = <<>>
  <2>1. \A g \in Host : ~ initStarted[g] => rs[g] = <<>>
    BY <1>1, Initialised
  <2>2. rs \in [Host -> Seq(1 .. MAX_RTR_SOLICITATIONS)]
    BY <1>1 DEF TypeOK
  <2>3. CASE heard /\ rs[h] # <<>>
    <3>1. Tail(rs[h]) \in Seq(1 .. MAX_RTR_SOLICITATIONS)
      BY <2>2, <2>3, TailType
    <3>2. rs' = [rs EXCEPT ![h] = Tail(rs[h])]
      BY <1>2, <2>3
    <3> HIDE DEF heard
    <3> QED  BY <1>3, <2>1, <2>2, <2>3, <3>1, <3>2
  <2>4. CASE ~ (heard /\ rs[h] # <<>>)
    BY <1>2, <2>1, <2>2, <2>4
  <2> QED  BY <2>3, <2>4
<1>6. router' \in [Host -> Router] /\ crashed' \in BOOLEAN
  <2>1. [router[h] EXCEPT !.list = FALSE, !.rel = "freed"] \in Router
    BY <1>1 DEF TypeOK, Router
  <2>2. CASE router[h].list
    <3>1. router' = [router EXCEPT ![h].list = FALSE, ![h].rel = "freed"] /\ UNCHANGED crashed
      BY <2>2 DEF RouterWithdraws
    <3>2. router' = [router EXCEPT ![h] = [router[h] EXCEPT !.list = FALSE, !.rel = "freed"]]
      BY <1>1, <3>1 DEF TypeOK
    <3> QED  BY <1>1, <2>1, <3>1, <3>2 DEF TypeOK
  <2>3. CASE ~ router[h].list
    BY <1>1, <2>3 DEF RouterWithdraws, TypeOK
  <2> QED  BY <2>2, <2>3
<1> HIDE DEF heard
<1> QED  BY <1>1, <1>4, <1>5, <1>6, RouterStep DEF RouterWithdraws, TypeOK

LEMMA ExpireHosts ==
  ASSUME HostsInv, NEW h \in Host, RouterTimeout(h)
  PROVE  HostsInv'
<1>1. TypeOK /\ ~ crashed
  BY DEF HostsInv, RouterTimeout
<1>2. router' \in [Host -> Router] /\ crashed' \in BOOLEAN
  <2>1. [router[h] EXCEPT !.list = FALSE, !.rel = "no"] \in Router
    BY <1>1 DEF TypeOK, Router
  <2>2. CASE router[h].rel = "freed"
    BY <1>1, <2>2 DEF RouterTimeout, TypeOK
  <2>3. CASE router[h].rel # "freed"
    <3>1. /\ router' = [router EXCEPT ![h].list = FALSE, ![h].rel = "no"] /\ UNCHANGED crashed
      BY <2>3 DEF RouterTimeout
    <3>2. router' = [router EXCEPT ![h] = [router[h] EXCEPT !.list = FALSE, !.rel = "no"]]
      BY <1>1, <3>1 DEF TypeOK
    <3> QED  BY <1>1, <2>1, <3>1, <3>2 DEF TypeOK
  <2> QED  BY <2>2, <2>3
<1>3. /\ \A g \in Host : ~ initStarted[g] => rs'[g] = <<>>
      /\ \A g \in Host : rtrSolicited'[g] => initStarted[g]
  BY <1>1, Initialised DEF RouterTimeout
<1> QED  BY <1>1, <1>2, <1>3, RouterStep DEF RouterTimeout, TypeOK

LEMMA StartHosts ==
  ASSUME HostsInv, NEW h \in Host, nodeInitialise(h)
  PROVE  HostsInv'
<1>1. TypeOK /\ ~ crashed
  BY DEF HostsInv, nodeInitialise
<1>2. PICK s, t : /\ s.initStarted = initStarted[h] /\ Moves(h, s, {}, t) /\ Becomes(h, t, wire)
  BY StartMoves
<1>3. up' \in [Host -> BOOLEAN] /\ up'[h] /\ \A g \in Host \ {h} : up'[g] = up[g]
  BY <1>1 DEF nodeInitialise, TypeOK
<1>4. rtrSolicited[h] => initStarted[h]
  BY <1>1, Initialised
<1> QED  BY <1>1, <1>2, <1>3, <1>4, HostStep DEF nodeInitialise, TypeOK

LEMMA TimeoutHosts ==
  ASSUME HostsInv, NEW h \in Host, NEW a \in Addr, DupAddrSolTimeout(h, a)
  PROVE  HostsInv'
<1>1. TypeOK /\ ~ crashed
  BY DEF HostsInv, DupAddrSolTimeout
<1>2. PICK s, t : /\ s.initStarted = initStarted[h] /\ Moves(h, s, {a}, t) /\ Becomes(h, t, wire)
  BY TimeoutMoves
<1>3. up[h] /\ (rtrSolicited[h] => initStarted[h])
  BY <1>1, Initialised DEF DupAddrSolTimeout, Tested
<1> QED  BY <1>1, <1>2, <1>3, HostStep DEF DupAddrSolTimeout, TypeOK

LEMMA AdvertHosts ==
  ASSUME HostsInv, NEW h \in Host, processRtrAd(h)
  PROVE  HostsInv'
<1>1. TypeOK /\ ~ crashed /\ up[h] /\ up' = up
  BY DEF HostsInv, processRtrAd
<1>2. /\ rtrSolicited' \in [Host -> BOOLEAN]
      /\ rtrSolicited'[h] => initStarted[h]
      /\ \A g \in Host \ {h} : rtrSolicited'[g] = rtrSolicited[g]
  <2>1. rtrSolicited' = [rtrSolicited EXCEPT ![h] = @ \/ (~ rtrSolicited[h] /\ Of(h).inet # {})]
    BY DEF processRtrAd
  <2>2. Of(h).inet = inet[h]
    BY <1>1, OfState
  <2>3. rtrSolicited[h] \/ inet[h] # {} => initStarted[h]
    BY <1>1, Initialised
  <2> QED  BY <1>1, <2>1, <2>2, <2>3 DEF TypeOK
<1>3. CASE \E s \in HostState : crashed' /\ Quieted(h, s) /\ Becomes(h, s, wire) /\ UNCHANGED router
  <2>1. PICK s \in HostState : crashed' /\ Becomes(h, s, wire) /\ UNCHANGED router
    BY <1>3
  <2>2. /\ tentative' \in [Host -> SUBSET Addr] /\ inet' \in [Host -> SUBSET Addr]
        /\ dad' \in [Host -> [Addr -> 0 .. dupAddrDetectTrans]]
        /\ groups' \in [Host -> [Token -> Nat]] /\ initStarted' \in [Host -> BOOLEAN]
        /\ rs' \in [Host -> Seq(1 .. MAX_RTR_SOLICITATIONS)] /\ wire' \subseteq Message
    BY <1>1, <2>1, BecomesState
  <2>3. crashed' \in BOOLEAN
    BY <1>1 DEF processRtrAd, TypeOK
  <2> QED  BY <1>1, <1>2, <2>1, <2>2, <2>3 DEF HostsInv, TypeOK
<1>4. CASE \E s, t : /\ Quieted(h, s) /\ Moves(h, s, {}, t) /\ Becomes(h, t, wire)
                     /\ router' \in [Host -> Router] /\ UNCHANGED crashed
  <2>1. PICK s, t : /\ Quieted(h, s) /\ Moves(h, s, {}, t) /\ Becomes(h, t, wire)
                    /\ router' \in [Host -> Router] /\ UNCHANGED crashed
    BY <1>4
  <2>2. s.initStarted = initStarted[h]
    BY <2>1 DEF Quieted
  <2>3. crashed' \in BOOLEAN /\ up' \in [Host -> BOOLEAN] /\ up'[h] /\ \A g \in Host \ {h} : up'[g] = up[g]
    BY <1>1, <2>1 DEF TypeOK
  <2> QED  BY <1>1, <1>2, <2>1, <2>2, <2>3, HostStep
<1> QED  BY <1>3, <1>4, AdvertMoves

\* What is heard, and what is on the wire after it.
LEMMA HearHosts ==
  ASSUME HostsInv, NEW m \in wire, Hear(m)
  PROVE  HostsInv'
<1>1. TypeOK /\ ~ crashed
  BY DEF HostsInv, Hear, HearNgbrSol, HearNgbrAd
<1>2. m \in Message /\ m.target \in Addr
  BY <1>1 DEF TypeOK, Message
<1>3. Running(m) \in SUBSET Host
  BY DEF Running
<1>4. CASE HearNgbrSol(m)
  <2> DEFINE hs == {g \in Running(m) : groups[g][m.target[2]] > 0}
  <2>1. /\ checkDupAddrDetected(hs, m.target)
        /\ wire' = (wire \ {m}) \cup [type : {"NA"}, src : {g \in hs : m.target \in inet[g]},
                                      target : {m.target}]
        /\ UNCHANGED <<up, inet, initStarted, rtrSolicited, rs, router>>
    BY <1>4 DEF HearNgbrSol
  <2>2. hs \in SUBSET Host
    BY <1>3
  <2>3. wire' \subseteq Message
    BY <1>1, <1>2, <2>1, <2>2 DEF TypeOK, Message
  <2> HIDE DEF hs
  <2> QED  BY <1>1, <1>2, <2>1, <2>2, <2>3, HearStep
<1>5. CASE HearNgbrAd(m)
  <2>1. wire' \subseteq Message
    BY <1>1, <1>5 DEF TypeOK, HearNgbrAd
  <2> QED  BY <1>1, <1>2, <1>3, <1>5, <2>1, HearStep DEF HearNgbrAd
<1> QED  BY <1>4, <1>5 DEF Hear

LEMMA HostsNext == HostsInv /\ [Next]_vars => HostsInv'
<1> SUFFICES ASSUME HostsInv, [Next]_vars  PROVE HostsInv'
  OBVIOUS
<1>1. CASE UNCHANGED vars
  <2>1. TypeOK'
    BY <1>1 DEF HostsInv, TypeOK, vars
  <2>2. ASSUME NEW h \in Host, ~ crashed
        PROVE  Sound(h, Of(h))' /\ Down(h)' /\ (rtrSolicited'[h] => initStarted'[h])
    <3>1. Sound(h, Of(h)) /\ Down(h) /\ (rtrSolicited[h] => initStarted[h])
      BY <2>2 DEF HostsInv
    <3>2. Of(h)' = Of(h)
      BY <1>1 DEF Of, vars
    <3> QED  BY <1>1, <3>1, <3>2 DEF Down, vars
  <2> QED  BY <1>1, <2>1, <2>2 DEF HostsInv, vars
<1>2. ASSUME NEW h \in Host, nodeInitialise(h)  PROVE HostsInv'
  BY <1>2, StartHosts
<1>3. ASSUME NEW h \in Host, processRtrAd(h)  PROVE HostsInv'
  BY <1>3, AdvertHosts
<1>4. ASSUME NEW h \in Host, RouterWithdraws(h)  PROVE HostsInv'
  BY <1>4, WithdrawHosts
<1>5. ASSUME NEW h \in Host, RouterTimeout(h)  PROVE HostsInv'
  BY <1>5, ExpireHosts
<1>6. ASSUME NEW h \in Host, NEW a \in Addr, DupAddrSolTimeout(h, a)  PROVE HostsInv'
  BY <1>6, TimeoutHosts
<1>7. ASSUME NEW h \in Host, NEW k \in DOMAIN rs[h], RtrSolTimeout(h, k)  PROVE HostsInv'
  BY <1>7, RtrSolHosts
<1>8. ASSUME NEW m \in wire, Hear(m)  PROVE HostsInv'
  BY <1>8, HearHosts
<1> QED  BY <1>1, <1>2, <1>3, <1>4, <1>5, <1>6, <1>7, <1>8 DEF Next

LEMMA HostsAlways == Spec => []HostsInv
<1> QED  BY HostsInit, HostsNext, PTL DEF Spec

\* The type of every variable, for any number of hosts, tokens and solicitations.
THEOREM TypeCorrect == Spec => []TypeOK
<1>1. HostsInv => TypeOK
  BY DEF HostsInv
<1> QED  BY <1>1, HostsAlways, PTL

\* checkDupAddrDetected leaves a group once for each address given up, dupAddrDetection joins
\* once for each address tested: as long as no assertion fails, a host listens in exactly the
\* solicited-node groups of the addresses it has or tests, shared groups counted.
THEOREM GroupsAreMatched == Spec => []GroupsMatch
<1>1. HostsInv => GroupsMatch
  <2> SUFFICES ASSUME HostsInv, ~ crashed, NEW h \in Host, NEW k \in Token
               PROVE  groups[h][k] = Cardinality({a \in Addr : a[2] = k /\ (a \in inet[h] \/ dad[h][a] > 0)})
    BY DEF GroupsMatch
  <2>1. PICK s : s = Of(h)
    OBVIOUS
  <2>2. s.groups = groups[h] /\ s.inet = inet[h] /\ s.dad = dad[h] /\ s \in HostState /\ Matched(s)
    BY <2>1, OfState DEF HostsInv, Sound
  <2>3. groups[h][k] = Cardinality({a \in Used(s) : a[2] = k})
    BY <2>2 DEF Matched, Tally
  <2>4. {a \in Used(s) : a[2] = k} = {a \in Addr : a[2] = k /\ (a \in inet[h] \/ dad[h][a] > 0)}
    BY <2>2, Fields DEF Used, Tested
  <2> QED  BY <2>3, <2>4
<1> QED  BY <1>1, HostsAlways, PTL

-----------------------------------------------------------------------------
\* Hosts that want the same address, when addresses are tested.

\* A step of h that assigns only what it has tested, when no answer may come any more.
LEMMA LinkStep ==
  ASSUME dupAddrDetectTrans > 0, HostsInv, ~ crashed, LinkInv, NEW h \in Host, NEW s, NEW as, NEW t,
         Moves(h, s, as, t), s.inet = inet[h], s.dad = dad[h], Becomes(h, t, wire),
         \A a \in as : a \in Tested(dad[h]) /\ ~ AnswerMayCome(h, a)
  PROVE  LinkInv'
<1>1. TypeOK /\ t \in HostState
  BY DEF HostsInv, Moves, Sound
<1>2. /\ inet'[h] = t.inet /\ dad'[h] = t.dad
      /\ \A g \in Host \ {h} : inet'[g] = inet[g] /\ dad'[g] = dad[g]
  BY <1>1, BecomesState
<1>3. /\ inet[h] \subseteq inet'[h] /\ inet'[h] \subseteq inet[h] \cup as
      /\ Tested(dad'[h]) \subseteq Tested(dad[h]) \cup t.out
  BY <1>2 DEF Moves
<1>4. wire' = wire \cup [type : {"NS"}, src : {h}, target : t.out]
  BY DEF Becomes
<1>5. /\ wire \subseteq wire'
      /\ \A m \in wire' : m.type = "NA" => m \in wire
      /\ \A b \in t.out : Asked(h, b)'
  BY <1>4 DEF Asked
<1>6. \A g \in Host, b \in Addr : (Asked(g, b) => Asked(g, b)') /\ (Answered(b) => Answered(b)')
  BY <1>5 DEF Asked, Answered
<1>7. \A a \in as : ~ Asked(h, a) /\ ~ Answered(a)
  BY DEF AnswerMayCome, Asked, Answered
<1>8. \A g \in Host : inet[g] \subseteq inet'[g] /\ inet[g] \subseteq Addr /\ inet'[g] \subseteq Addr
  <2>1. inet \in [Host -> SUBSET Addr] /\ inet' \in [Host -> SUBSET Addr]
    BY <1>1, BecomesState DEF TypeOK
  <2> QED  BY <1>2, <1>3, <2>1
<1>9. \A b \in as : b \in Addr
  BY DEF Tested
<1>10. UniqueAddress /\ AnswersTrue /\ OwnerHeard /\ TestersMeet
  BY DEF LinkInv
<1>11. ASSUME NEW g \in Host \ {h}  PROVE inet'[g] \cap inet'[h] = {}
  <2> SUFFICES ASSUME NEW b \in inet'[g], b \in inet'[h]  PROVE FALSE
    OBVIOUS
  <2>1. b \in inet[g] /\ g # h /\ b \in Addr
    BY <1>2, <1>8
  <2>2. CASE b \in inet[h]
    BY <1>10, <2>1, <2>2 DEF UniqueAddress
  <2>3. CASE b \in as
    <3>1. b \in Tested(dad[h])
      BY <2>3
    <3> QED  BY <1>7, <1>10, <2>1, <2>3, <3>1 DEF OwnerHeard
  <2> QED  BY <1>3, <2>2, <2>3
<1>12. UniqueAddress'
  <2> SUFFICES ASSUME NEW g \in Host, NEW k \in Host, g # k  PROVE inet'[g] \cap inet'[k] = {}
    BY DEF UniqueAddress
  <2>1. CASE g = h
    BY <1>11, <2>1
  <2>2. CASE k = h
    BY <1>11, <2>2
  <2>3. CASE g # h /\ k # h
    BY <1>2, <1>10, <2>3 DEF UniqueAddress
  <2> QED  BY <2>1, <2>2, <2>3
<1>13. AnswersTrue'
  <2> SUFFICES ASSUME NEW m \in wire', m.type = "NA"  PROVE m.target \in inet'[m.src]
    BY DEF AnswersTrue
  <2>1. m \in wire /\ m.src \in Host
    BY <1>1, <1>5 DEF TypeOK, Message
  <2>2. m.target \in inet[m.src]
    BY <1>10, <2>1 DEF AnswersTrue
  <2> QED  BY <1>8, <2>1, <2>2
<1>14. OwnerHeard'
  <2> SUFFICES ASSUME NEW g \in Host, NEW k \in Host, NEW b \in Addr,
                      g # k, b \in inet'[g], b \in Tested(dad'[k])
               PROVE  Asked(k, b)' \/ Answered(b)'
    BY DEF OwnerHeard
  <2>1. CASE k = h
    <3>1. b \in inet[g]
      BY <1>2, <2>1
    <3>2. CASE b \in t.out
      BY <1>5, <2>1, <3>2
    <3>3. CASE b \in Tested(dad[h])
      BY <1>6, <1>10, <2>1, <3>1, <3>3 DEF OwnerHeard
    <3> QED  BY <1>3, <2>1, <3>2, <3>3
  <2>2. CASE k # h /\ b \in inet[g]
    BY <1>2, <1>6, <1>10, <2>2 DEF OwnerHeard
  <2>3. CASE k # h /\ b \notin inet[g]
    <3>1. g = h /\ b \in as
      BY <1>2, <1>3, <2>3
    <3>2. b \in Tested(dad[h]) /\ b \in Tested(dad[k])
      BY <1>2, <2>3, <3>1
    <3>3. Asked(k, b)
      BY <1>7, <1>10, <2>3, <3>1, <3>2 DEF TestersMeet
    <3> QED  BY <1>6, <3>3
  <2> QED  BY <2>1, <2>2, <2>3
<1>15. TestersMeet'
  <2> SUFFICES ASSUME NEW g \in Host, NEW k \in Host, NEW b \in Addr,
                      g # k, b \in Tested(dad'[g]), b \in Tested(dad'[k])
               PROVE  Asked(g, b)' \/ Asked(k, b)'
    BY DEF TestersMeet
  <2>1. \A x \in {g, k} : b \in Tested(dad[x]) \/ Asked(x, b)'
    BY <1>2, <1>3, <1>5
  <2> QED  BY <1>6, <1>10, <2>1 DEF TestersMeet
<1> QED  BY <1>12, <1>13, <1>14, <1>15 DEF LinkInv

\* A step that leaves the addresses, the detections and the wire alone.
LEMMA LinkSame ==
  ASSUME LinkInv, UNCHANGED <<inet, dad, wire>>, crashed => crashed'
  PROVE  LinkInv'
<1>1. UniqueAddress'
  BY DEF LinkInv, UniqueAddress
<1>2. ASSUME ~ crashed'  PROVE AnswersTrue' /\ OwnerHeard' /\ TestersMeet'
  <2>1. AnswersTrue /\ OwnerHeard /\ TestersMeet
    BY <1>2 DEF LinkInv
  <2>2. AnswersTrue'
    BY <2>1 DEF AnswersTrue
  <2>3. OwnerHeard'
    BY <2>1 DEF OwnerHeard, Asked, Answered
  <2>4. TestersMeet'
    BY <2>1 DEF TestersMeet, Asked
  <2> QED  BY <2>2, <2>3, <2>4
<1> QED  BY <1>1, <1>2 DEF LinkInv

\* A host hears solicitations for the addresses it uses.
LEMMA Listens ==
  ASSUME HostsInv, ~ crashed, NEW g \in Host, NEW a \in Addr, a \in inet[g] \cup Tested(dad[g])
  PROVE  up[g] /\ groups[g][a[2]] > 0
<1>1. up[g]
  BY Initialised
<1>2. PICK s : s = Of(g)
  OBVIOUS
<1>3. s \in HostState /\ s.groups = groups[g] /\ s.inet = inet[g] /\ s.dad = dad[g] /\ Matched(s)
  BY <1>2, OfState DEF HostsInv, Sound
<1>4. PICK us : us = Used(s)
  OBVIOUS
<1>5. us \in SUBSET Addr /\ a \in us
  BY <1>3, <1>4, Fields DEF Used, Tested
<1>6. Tally(us)[a[2]] > 0
  BY <1>5, TallyWithout
<1> QED  BY <1>1, <1>3, <1>4, <1>6 DEF Matched

\* What a tester that is reached does: it tests no longer.
LEMMA HearTested ==
  ASSUME HostsInv, ~ crashed, NEW hs \in SUBSET Host, NEW a \in Addr, checkDupAddrDetected(hs, a),
         ~ crashed', NEW g \in Host
  PROVE  /\ Tested(dad'[g]) \subseteq Tested(dad[g])
         /\ g \in hs => a \notin Tested(dad'[g])
<1>1. TypeOK
  BY DEF HostsInv
<1>2. PICK f : f = dad[g]
  OBVIOUS
<1>3. f \in [Addr -> 0 .. dupAddrDetectTrans]
  BY <1>1, <1>2 DEF TypeOK
<1>4. ASSUME GivesUp(g, a)  PROVE Tested(dad'[g]) = Tested(f) \ {a}
  BY <1>2, <1>3, <1>4, TestedZero DEF GivesUp
<1>5. (Stays(g) \/ GivesUp(g, a)) /\ (g \in hs /\ a \in tentative[g] => GivesUp(g, a))
  BY <1>1, HearCases
<1>6. Tested(f) \subseteq tentative[g]
  <2>1. Apart(Of(g)) /\ Of(g).tentative = tentative[g] /\ Of(g).dad = dad[g]
    BY <1>1, OfState DEF HostsInv, Sound
  <2> QED  BY <1>2, <2>1 DEF Apart
<1>7. CASE GivesUp(g, a)
  BY <1>2, <1>4, <1>7
<1>8. CASE Stays(g) /\ ~ GivesUp(g, a)
  <2>1. dad'[g] = f
    BY <1>2, <1>8 DEF Stays
  <2>2. g \in hs => a \notin tentative[g]
    BY <1>5, <1>8
  <2> QED  BY <1>2, <1>6, <2>1, <2>2
<1> QED  BY <1>5, <1>7, <1>8

\* A solicitation is heard: by every other host that has the address, which answers, and
\* by every other one that tests it, which gives it up.
LEMMA LinkSol ==
  ASSUME HostsInv, LinkInv, NEW m \in wire, HearNgbrSol(m)
  PROVE  LinkInv'
<1> DEFINE hs == {g \in Running(m) : groups[g][m.target[2]] > 0}
<1>1. /\ ~ crashed /\ m.type = "NS" /\ checkDupAddrDetected(hs, m.target) /\ inet' = inet
      /\ wire' = (wire \ {m}) \cup [type : {"NA"}, src : {g \in hs : m.target \in inet[g]},
                                    target : {m.target}]
  BY DEF HearNgbrSol
<1>2. TypeOK /\ UniqueAddress /\ AnswersTrue /\ OwnerHeard /\ TestersMeet
  BY <1>1 DEF HostsInv, LinkInv
<1>3. /\ m = [type |-> "NS", src |-> m.src, target |-> m.target]
      /\ m.src \in Host /\ m.target \in Addr
  BY <1>1, <1>2 DEF TypeOK, Message
<1>4. hs \in SUBSET Host
  BY DEF Running
<1>5. ASSUME NEW g \in Host, g # m.src, m.target \in inet[g] \cup Tested(dad[g])  PROVE g \in hs
  BY <1>1, <1>3, <1>5, Listens DEF Running
<1> HIDE DEF hs
<1>6. UniqueAddress'
  BY <1>1, <1>2 DEF UniqueAddress
<1>7. ASSUME ~ crashed'  PROVE AnswersTrue' /\ OwnerHeard' /\ TestersMeet'
  <2>1. \A g \in Host : /\ Tested(dad'[g]) \subseteq Tested(dad[g])
                        /\ g \in hs => m.target \notin Tested(dad'[g])
    BY <1>1, <1>3, <1>4, <1>7, HearTested
  <2>2. \A b \in Addr : Answered(b) => Answered(b)'
    BY <1>1 DEF Answered
  <2>3. \A g \in Host, b \in Addr : Asked(g, b) => Asked(g, b)' \/ (g = m.src /\ b = m.target)
    BY <1>1, <1>3 DEF Asked
  <2>4. ASSUME NEW g \in hs, m.target \in inet[g]  PROVE Answered(m.target)'
    <3>1. [type |-> "NA", src |-> g, target |-> m.target] \in wire'
      BY <1>1, <2>4
    <3> QED  BY <3>1 DEF Answered
  <2>5. AnswersTrue'
    <3> SUFFICES ASSUME NEW n \in wire', n.type = "NA"  PROVE n.target \in inet[n.src]
      BY <1>1 DEF AnswersTrue
    <3> QED  BY <1>1, <1>2 DEF AnswersTrue
  <2>6. OwnerHeard'
    <3> SUFFICES ASSUME NEW g \in Host, NEW k \in Host, NEW b \in Addr,
                        g # k, b \in inet[g], b \in Tested(dad'[k])
                 PROVE  Asked(k, b)' \/ Answered(b)'
      BY <1>1 DEF OwnerHeard
    <3>1. Asked(k, b) \/ Answered(b)
      BY <1>2, <2>1 DEF OwnerHeard
    <3>2. CASE k = m.src /\ b = m.target
      BY <1>5, <2>4, <3>2
    <3> QED  BY <2>2, <2>3, <3>1, <3>2
  <2>7. TestersMeet'
    <3> SUFFICES ASSUME NEW g \in Host, NEW k \in Host, NEW b \in Addr,
                        g # k, b \in Tested(dad'[g]), b \in Tested(dad'[k])
                 PROVE  Asked(g, b)' \/ Asked(k, b)'
      BY DEF TestersMeet
    <3>1. Asked(g, b) \/ Asked(k, b)
      BY <1>2, <2>1 DEF TestersMeet
    <3>2. ASSUME NEW x \in Host, b \in Tested(dad'[x]), b = m.target  PROVE x = m.src
      BY <1>5, <2>1, <3>2
    <3> QED  BY <2>3, <3>1, <3>2
  <2> QED  BY <2>5, <2>6, <2>7
<1> QED  BY <1>6, <1>7 DEF LinkInv

\* An answer is heard by every host that tests the address: its sender does not.
LEMMA LinkAd ==
  ASSUME HostsInv, LinkInv, NEW m \in wire, HearNgbrAd(m)
  PROVE  LinkInv'
<1>1. /\ ~ crashed /\ m.type = "NA" /\ checkDupAddrDetected(Running(m), m.target) /\ inet' = inet
      /\ wire' = wire \ {m}
  BY DEF HearNgbrAd
<1>2. TypeOK /\ UniqueAddress /\ AnswersTrue /\ OwnerHeard /\ TestersMeet
  BY <1>1 DEF HostsInv, LinkInv
<1>3. m.src \in Host /\ m.target \in Addr /\ m.target \in inet[m.src]
  BY <1>1, <1>2 DEF TypeOK, Message, AnswersTrue
<1>4. m.target \notin Tested(dad[m.src])
  <2>1. Apart(Of(m.src)) /\ Of(m.src).inet = inet[m.src] /\ Of(m.src).dad = dad[m.src]
    BY <1>1, <1>2, <1>3, OfState DEF HostsInv, Sound
  <2> QED  BY <1>3, <2>1 DEF Apart
<1>5. Running(m) \in SUBSET Host
  BY DEF Running
<1>6. ASSUME NEW g \in Host, m.target \in Tested(dad[g])  PROVE g \in Running(m)
  BY <1>1, <1>3, <1>4, <1>6, Listens DEF Running
<1>7. UniqueAddress'
  BY <1>1, <1>2 DEF UniqueAddress
<1>8. ASSUME ~ crashed'  PROVE AnswersTrue' /\ OwnerHeard' /\ TestersMeet'
  <2>1. \A g \in Host : /\ Tested(dad'[g]) \subseteq Tested(dad[g])
                        /\ g \in Running(m) => m.target \notin Tested(dad'[g])
    BY <1>1, <1>3, <1>5, <1>8, HearTested
  <2>2. \A g \in Host, b \in Addr : Asked(g, b) => Asked(g, b)'
    BY <1>1 DEF Asked
  <2>3. \A b \in Addr : Answered(b) => Answered(b)' \/ b = m.target
    BY <1>1 DEF Answered
  <2>4. AnswersTrue'
    BY <1>1, <1>2 DEF AnswersTrue
  <2>5. \A g \in Host : m.target \notin Tested(dad'[g])
    BY <1>6, <2>1
  <2>6. OwnerHeard'
    <3> SUFFICES ASSUME NEW g \in Host, NEW k \in Host, NEW b \in Addr,
                        g # k, b \in inet[g], b \in Tested(dad'[k])
                 PROVE  Asked(k, b)' \/ Answered(b)'
      BY <1>1 DEF OwnerHeard
    <3>1. Asked(k, b) \/ Answered(b)
      BY <1>2, <2>1 DEF OwnerHeard
    <3> QED  BY <2>2, <2>3, <2>5, <3>1
  <2>7. TestersMeet'
    <3> SUFFICES ASSUME NEW g \in Host, NEW k \in Host, NEW b \in Addr,
                        g # k, b \in Tested(dad'[g]), b \in Tested(dad'[k])
                 PROVE  Asked(g, b)' \/ Asked(k, b)'
      BY DEF TestersMeet
    <3> QED  BY <1>2, <2>1, <2>2 DEF TestersMeet
  <2> QED  BY <2>4, <2>6, <2>7
<1> QED  BY <1>7, <1>8 DEF LinkInv

LEMMA LinkInit == Init => LinkInv
<1> SUFFICES ASSUME Init  PROVE LinkInv
  OBVIOUS
<1>1. UniqueAddress /\ AnswersTrue /\ OwnerHeard
  BY DEF Init, UniqueAddress, AnswersTrue, OwnerHeard
<1>2. \A g \in Host : Tested(dad[g]) = {}
  BY HostsInit DEF HostsInv, Down, Init
<1>3. TestersMeet
  BY <1>2 DEF TestersMeet
<1> QED  BY <1>1, <1>3 DEF LinkInv

LEMMA LinkNext ==
  ASSUME dupAddrDetectTrans > 0
  PROVE  HostsInv /\ LinkInv /\ [Next]_vars => LinkInv'
<1> SUFFICES ASSUME HostsInv, LinkInv, [Next]_vars  PROVE LinkInv'
  OBVIOUS
<1>1. CASE UNCHANGED vars
  BY <1>1, LinkSame DEF vars
<1>2. ASSUME NEW h \in Host, nodeInitialise(h)  PROVE LinkInv'
  <2>1. PICK s, t : /\ s.inet = inet[h] /\ s.dad = dad[h]
                    /\ Moves(h, s, {}, t) /\ Becomes(h, t, wire)
    BY <1>2, StartMoves
  <2>2. ~ crashed
    BY <1>2 DEF nodeInitialise
  <2> QED  BY <2>1, <2>2, LinkStep
<1>3. ASSUME NEW h \in Host, processRtrAd(h)  PROVE LinkInv'
  <2>1. ~ crashed
    BY <1>3 DEF processRtrAd
  <2>2. ASSUME NEW s \in HostState, crashed', Quieted(h, s), Becomes(h, s, wire)  PROVE LinkInv'
    <3>1. inet' = inet
      BY <2>2 DEF Quieted, Becomes, HostsInv, TypeOK
    <3>2. UniqueAddress'
      BY <3>1 DEF UniqueAddress, LinkInv
    <3> QED  BY <2>2, <3>2 DEF LinkInv
  <2>3. ASSUME NEW s, NEW t, Quieted(h, s), Moves(h, s, {}, t), Becomes(h, t, wire)  PROVE LinkInv'
    BY <2>1, <2>3, LinkStep DEF Quieted
  <2> QED  BY <1>3, <2>2, <2>3, AdvertMoves
<1>4. ASSUME NEW h \in Host, RouterWithdraws(h) \/ RouterTimeout(h)  PROVE LinkInv'
  BY <1>4, LinkSame DEF RouterWithdraws, RouterTimeout
<1>5. ASSUME NEW h \in Host, NEW a \in Addr, DupAddrSolTimeout(h, a)  PROVE LinkInv'
  <2>1. PICK s, t : /\ s.inet = inet[h] /\ s.dad = dad[h]
                    /\ Moves(h, s, {a}, t) /\ Becomes(h, t, wire)
    BY <1>5, TimeoutMoves
  <2>2. ~ crashed /\ a \in Tested(dad[h]) /\ ~ AnswerMayCome(h, a)
    BY <1>5 DEF DupAddrSolTimeout, Tested
  <2> QED  BY <2>1, <2>2, LinkStep
<1>6. ASSUME NEW h \in Host, NEW k \in DOMAIN rs[h], RtrSolTimeout(h, k)  PROVE LinkInv'
  BY <1>6, LinkSame DEF RtrSolTimeout
<1>7. ASSUME NEW m \in wire, Hear(m)  PROVE LinkInv'
  BY <1>7, LinkSol, LinkAd DEF Hear
<1> QED  BY <1>1, <1>2, <1>3, <1>4, <1>5, <1>6, <1>7 DEF Next

\* With at least one solicitation for each address (dupAddrDetection), and a link that
\* loses nothing and is faster than retransTimer, no two hosts ever assign the same address,
\* however many hosts start, test and hear of each other in whatever order.
THEOREM AddressesAreUnique ==
  ASSUME dupAddrDetectTrans > 0
  PROVE  Spec => []UniqueAddress
<1>1. LinkInv => UniqueAddress
  BY DEF LinkInv
<1>2. HostsInv /\ LinkInv /\ [Next]_vars => LinkInv'
  BY LinkNext
<1> QED  BY <1>1, <1>2, LinkInit, HostsAlways, PTL DEF Spec

-----------------------------------------------------------------------------
\* Router solicitation, when addresses are tested.

LEMMA TailCalm ==
  ASSUME NEW S, NEW q \in Seq(S), q # <<>>, Len(q) <= 1
  PROVE  Tail(q) = <<>>
<1>1. Len(q) = 1
  <2>1. Len(q) \in Nat /\ Len(q) # 0
    BY EmptySeq, LenProperties
  <2> QED  BY <2>1
<1>2. Tail(q) \in Seq(S) /\ Len(Tail(q)) = 0
  BY <1>1, TailType
<1> QED  BY <1>2, EmptySeq

LEMMA QuietSame ==
  ASSUME QuietInv, UNCHANGED <<rs, rtrSolicited>>
  PROVE  QuietInv'
  BY DEF QuietInv

\* A step of h that is not an advertisement.
LEMMA QuietStep ==
  ASSUME dupAddrDetectTrans > 0, HostsInv, QuietInv, NEW h \in Host, NEW s, NEW as, NEW t,
         Moves(h, s, as, t), s.rs = rs[h], Becomes(h, t, wire), UNCHANGED rtrSolicited
  PROVE  QuietInv'
<1>1. rs'[h] = t.rs /\ \A g \in Host \ {h} : rs'[g] = rs[g]
  BY BecomesState DEF HostsInv, Moves, Sound
<1>2. t.rs = rs[h] \/ (~ rtrSolicited[h] /\ Len(t.rs) <= 1)
  BY DEF Moves
<1>3. ASSUME NEW g \in Host  PROVE Len(rs'[g]) <= 1 /\ (rtrSolicited'[g] => rs'[g] = <<>>)
  <2>1. Len(rs[g]) <= 1 /\ (rtrSolicited[g] => rs[g] = <<>>)
    BY DEF QuietInv
  <2>2. CASE g # h \/ t.rs = rs[h]
    BY <1>1, <2>1, <2>2
  <2>3. CASE g = h /\ ~ rtrSolicited[h] /\ Len(t.rs) <= 1
    BY <1>1, <2>3
  <2> QED  BY <1>2, <2>2, <2>3
<1> QED  BY <1>3 DEF QuietInv

\* An advertisement ends the one timer there may be, and starts none.
LEMMA QuietAdvert ==
  ASSUME dupAddrDetectTrans > 0, HostsInv, QuietInv, NEW h \in Host, processRtrAd(h)
  PROVE  QuietInv'
<1>1. TypeOK /\ ~ crashed /\ rs[h] \in Seq(1 .. MAX_RTR_SOLICITATIONS)
  BY DEF HostsInv, processRtrAd, TypeOK
<1>2. /\ rtrSolicited'[h] => rtrSolicited[h] \/ inet[h] # {}
      /\ \A g \in Host \ {h} : rtrSolicited'[g] = rtrSolicited[g]
  <2>1. rtrSolicited' = [rtrSolicited EXCEPT ![h] = @ \/ (~ rtrSolicited[h] /\ Of(h).inet # {})]
    BY DEF processRtrAd
  <2>2. Of(h).inet = inet[h]
    BY <1>1, OfState
  <2> QED  BY <1>1, <2>1, <2>2 DEF TypeOK
<1>3. \A g \in Host : Len(rs[g]) <= 1 /\ (rtrSolicited[g] => rs[g] = <<>>)
  BY DEF QuietInv
<1>4. ASSUME NEW s, Quieted(h, s)
      PROVE  Len(s.rs) <= 1 /\ (rtrSolicited[h] \/ inet[h] # {} => s.rs = <<>>)
  <2>1. CASE ~ rtrSolicited[h] /\ inet[h] # {} /\ rs[h] # <<>>
    <3>1. s.rs = Tail(rs[h])
      BY <1>4, <2>1 DEF Quieted
    <3>2. s.rs = <<>>
      BY <1>1, <1>3, <2>1, <3>1, TailCalm
    <3> QED  BY <3>2
  <2>2. CASE ~ (~ rtrSolicited[h] /\ inet[h] # {} /\ rs[h] # <<>>)
    <3>1. s.rs = rs[h]
      BY <1>4, <2>2 DEF Quieted
    <3> QED  BY <1>3, <2>2, <3>1
  <2> QED  BY <2>1, <2>2
<1>5. ASSUME NEW t \in HostState, Becomes(h, t, wire), Len(t.rs) <= 1,
             rtrSolicited[h] \/ inet[h] # {} => t.rs = <<>>
      PROVE  QuietInv'
  <2>1. rs'[h] = t.rs /\ \A g \in Host \ {h} : rs'[g] = rs[g]
    BY <1>1, <1>5, BecomesState
  <2>2. ASSUME NEW g \in Host  PROVE Len(rs'[g]) <= 1 /\ (rtrSolicited'[g] => rs'[g] = <<>>)
    <3>1. CASE g = h
      BY <1>2, <1>5, <2>1, <3>1
    <3>2. CASE g # h
      BY <1>2, <1>3, <2>1, <3>2
    <3> QED  BY <3>1, <3>2
  <2> QED  BY <2>2 DEF QuietInv
<1>6. ASSUME NEW s \in HostState, Quieted(h, s), Becomes(h, s, wire)  PROVE QuietInv'
  BY <1>4, <1>5, <1>6
<1>7. ASSUME NEW s, NEW t, Quieted(h, s), Moves(h, s, {}, t), Becomes(h, t, wire)  PROVE QuietInv'
  <2>1. t \in HostState /\ (t.rs = s.rs \/ (~ rtrSolicited[h] /\ ~ s.initStarted /\ Len(t.rs) <= 1))
    BY <1>7 DEF Moves, Sound
  <2>2. CASE t.rs = s.rs
    BY <1>4, <1>5, <1>7, <2>1, <2>2
  <2>3. CASE ~ rtrSolicited[h] /\ ~ s.initStarted /\ Len(t.rs) <= 1
    <3>1. inet[h] = {}
      BY <1>1, <1>7, <2>3, Initialised DEF Quieted
    <3> QED  BY <1>5, <1>7, <2>1, <2>3, <3>1
  <2> QED  BY <2>1, <2>2, <2>3
<1> QED  BY <1>6, <1>7, AdvertMoves

LEMMA QuietWithdraw ==
  ASSUME HostsInv, QuietInv, NEW h \in Host, RouterWithdraws(h)
  PROVE  QuietInv'
<1> DEFINE heard == ~ rtrSolicited[h] /\ inet[h] # {}
<1>1. /\ rtrSolicited' = [rtrSolicited EXCEPT ![h] = @ \/ heard]
      /\ rs' = IF heard /\ rs[h] # <<>> THEN [rs EXCEPT ![h] = Tail(@)] ELSE rs
  BY DEF RouterWithdraws
<1>2. /\ rtrSolicited \in [Host -> BOOLEAN] /\ rs \in [Host -> Seq(1 .. MAX_RTR_SOLICITATIONS)]
  BY DEF HostsInv, TypeOK
<1>3. /\ rtrSolicited'[h] => rtrSolicited[h] \/ heard
      /\ \A g \in Host \ {h} : rtrSolicited'[g] = rtrSolicited[g]
  BY <1>1, <1>2
<1>4. \A g \in Host : Len(rs[g]) <= 1 /\ (rtrSolicited[g] => rs[g] = <<>>)
  BY DEF QuietInv
<1>5. ASSUME NEW g \in Host  PROVE Len(rs'[g]) <= 1 /\ (rtrSolicited'[g] => rs'[g] = <<>>)
  <2>1. CASE heard /\ rs[h] # <<>>
    <3>1. Tail(rs[h]) = <<>>
      BY <1>2, <1>4, <2>1, TailCalm
    <3>2. rs'[h] = <<>> /\ \A x \in Host \ {h} : rs'[x] = rs[x]
      BY <1>1, <1>2, <2>1, <3>1
    <3>3. CASE g = h
      BY <3>2, <3>3
    <3>4. CASE g # h
      BY <1>3, <1>4, <3>2, <3>4
    <3> QED  BY <3>3, <3>4
  <2>2. CASE ~ (heard /\ rs[h] # <<>>)
    <3>1. rs' = rs
      BY <1>1, <2>2
    <3>2. CASE g = h
      BY <1>3, <1>4, <2>2, <3>1, <3>2
    <3>3. CASE g # h
      BY <1>3, <1>4, <3>1, <3>3
    <3> QED  BY <3>2, <3>3
  <2> QED  BY <2>1, <2>2
<1> QED  BY <1>5 DEF QuietInv

LEMMA QuietNext ==
  ASSUME dupAddrDetectTrans > 0
  PROVE  HostsInv /\ QuietInv /\ [Next]_vars => QuietInv'
<1> SUFFICES ASSUME HostsInv, QuietInv, [Next]_vars  PROVE QuietInv'
  OBVIOUS
<1>1. CASE UNCHANGED vars
  BY <1>1, QuietSame DEF vars
<1>2. ASSUME NEW h \in Host, nodeInitialise(h)  PROVE QuietInv'
  <2>1. PICK s, t : s.rs = rs[h] /\ Moves(h, s, {}, t) /\ Becomes(h, t, wire)
    BY <1>2, StartMoves
  <2>2. UNCHANGED rtrSolicited
    BY <1>2 DEF nodeInitialise
  <2> QED  BY <2>1, <2>2, QuietStep
<1>3. ASSUME NEW h \in Host, processRtrAd(h)  PROVE QuietInv'
  BY <1>3, QuietAdvert
<1>4. ASSUME NEW h \in Host, RouterWithdraws(h)  PROVE QuietInv'
  BY <1>4, QuietWithdraw
<1>5. ASSUME NEW h \in Host, RouterTimeout(h)  PROVE QuietInv'
  BY <1>5, QuietSame DEF RouterTimeout
<1>6. ASSUME NEW h \in Host, NEW a \in Addr, DupAddrSolTimeout(h, a)  PROVE QuietInv'
  <2>1. PICK s, t : s.rs = rs[h] /\ Moves(h, s, {a}, t) /\ Becomes(h, t, wire)
    BY <1>6, TimeoutMoves
  <2>2. UNCHANGED rtrSolicited
    BY <1>6 DEF DupAddrSolTimeout
  <2> QED  BY <2>1, <2>2, QuietStep
<1>7. ASSUME NEW h \in Host, NEW k \in DOMAIN rs[h], RtrSolTimeout(h, k)  PROVE QuietInv'
  <2>1. /\ Len(rs'[h]) <= Len(rs[h]) /\ \A g \in Host \ {h} : rs'[g] = rs[g]
        /\ rtrSolicited' = rtrSolicited
    BY <1>7, RtrSolHosts DEF RtrSolTimeout
  <2>2. \A g \in Host : Len(rs[g]) <= 1 /\ (rtrSolicited[g] => rs[g] = <<>>)
    BY DEF QuietInv
  <2>3. ~ rtrSolicited[h] /\ Len(rs'[h]) <= 1
    <3>1. rs[h] # <<>>
      BY <1>7
    <3>2. Len(rs[h]) \in Nat /\ Len(rs'[h]) \in Nat
      <4>1. rs \in [Host -> Seq(1 .. MAX_RTR_SOLICITATIONS)]
        BY DEF HostsInv, TypeOK
      <4>2. rs' \in [Host -> Seq(1 .. MAX_RTR_SOLICITATIONS)]
        BY <1>7, RtrSolHosts DEF HostsInv, TypeOK
      <4> QED  BY <4>1, <4>2, LenProperties
    <3> QED  BY <2>1, <2>2, <3>1, <3>2
  <2>4. ASSUME NEW g \in Host  PROVE Len(rs'[g]) <= 1 /\ (rtrSolicited'[g] => rs'[g] = <<>>)
    <3>1. CASE g = h
      BY <2>1, <2>3, <3>1
    <3>2. CASE g # h
      BY <2>1, <2>2, <3>2
    <3> QED  BY <3>1, <3>2
  <2> QED  BY <2>4 DEF QuietInv
<1>8. ASSUME NEW m \in wire, Hear(m)  PROVE QuietInv'
  BY <1>8, QuietSame DEF Hear, HearNgbrSol, HearNgbrAd
<1> QED  BY <1>1, <1>2, <1>3, <1>4, <1>5, <1>6, <1>7, <1>8 DEF Next

\* The one timer that processRtrAd removes is the only one: initialiseInterface starts it, once,
\* since it is called only before initStarted is set.  So a host that has heard a router does
\* not solicit routers any more, when its addresses are tested.
THEOREM HeardIsQuiet ==
  ASSUME dupAddrDetectTrans > 0
  PROVE  Spec => []HeardMeansQuiet
<1>1. Init => QuietInv
  BY DEF Init, QuietInv
<1>2. HostsInv /\ QuietInv /\ [Next]_vars => QuietInv'
  BY QuietNext
<1>3. QuietInv => HeardMeansQuiet
  BY DEF QuietInv, HeardMeansQuiet
<1> QED  BY <1>1, <1>2, <1>3, HostsAlways, PTL DEF Spec
===============================================================================
