-------------------------- MODULE NeighbourDiscovery --------------------------
(***************************************************************************)
(* Hosts of one link that configure their addresses: duplicate address     *)
(* detection, router solicitation and what router advertisements do,       *)
(* Network/ICMPv6/NDStateHost.cc with the tables of RoutingTable6.cc and   *)
(* IPv6CDS.cc.  A frame reaches the other hosts at once; a first           *)
(* solicitation waits for a random time before it is sent.                 *)
(*                                                                         *)
(* Left out: optimistic DAD, lifetimes of addresses and prefixes, redirects,*)
(* parameters that an advertisement sets, neighbour entries made by the    *)
(* solicitations of a router, Mobile IPv6.  Assumed: the link loses        *)
(* nothing, and it is faster than retransTimer.                            *)
(***************************************************************************)
EXTENDS Naturals, Sequences, FiniteSets, SequencesExt

CONSTANTS
  Host,
  Token,                 \* interface tokens; the last bits of an address
  TokenOf,               \* the token of each host's interface
  Manual,                \* the global addresses each host is given in the XML file
  LinkLocal, Global,     \* the two prefixes
  dupAddrDetectTrans,
  MAX_RTR_SOLICITATIONS

ASSUME ParamAssumption ==
  /\ TokenOf \in [Host -> Token]
  /\ LinkLocal # Global
  /\ Manual \in [Host -> SUBSET ({Global} \X Token)]
  /\ \A h \in Host : IsFiniteSet(Manual[h])
  /\ dupAddrDetectTrans \in Nat
  /\ MAX_RTR_SOLICITATIONS \in Nat \ {0}

Addr == {LinkLocal, Global} \X Token

linkLocalAddr(h) == <<LinkLocal, TokenOf[h]>>

VARIABLES
  up,            \* nodeInitialise has been called
  crashed,       \* an assertion or a null pointer has ended the simulation
  tentative,     \* tentativeAddrs
  inet,          \* inetAddrs
  dad,           \* per host and address, the solicitations its DAD timer has sent, 0 without
  groups,        \* how often each solicited-node group has been joined
  initStarted,
  rtrSolicited,
  rs,            \* the counters of the "RtrSolRetry" timers
  router,        \* the router as each host knows it
  wire           \* what has been sent or waits to be sent

vars == <<up, crashed, tentative, inet, dad, groups, initStarted, rtrSolicited, rs, router, wire>>

\* list: in the router list; dest: has a destination entry; rel: in the expiry list,
\* "freed" when it points to an entry that is no more.
Router == [list : BOOLEAN, dest : BOOLEAN, rel : {"no", "yes", "freed"}]

Message == [type : {"NS", "NA"}, src : Host, target : Addr]

-----------------------------------------------------------------------------

\* The state of host h that the functions below change, and what they send.
Of(h) == [tentative |-> tentative[h], inet |-> inet[h], dad |-> dad[h], groups |-> groups[h],
          initStarted |-> initStarted[h], rs |-> rs[h], out |-> {}]

\* The new state of h; msgs are the messages that stay on the wire.
Becomes(h, s, msgs) ==
  /\ tentative' = [tentative EXCEPT ![h] = s.tentative]
  /\ inet' = [inet EXCEPT ![h] = s.inet]
  /\ dad' = [dad EXCEPT ![h] = s.dad]
  /\ groups' = [groups EXCEPT ![h] = s.groups]
  /\ initStarted' = [initStarted EXCEPT ![h] = s.initStarted]
  /\ rs' = [rs EXCEPT ![h] = s.rs]
  /\ wire' = msgs \cup [type : {"NS"}, src : {h}, target : s.out]

\* Mutant: the group is not joined until the address is assigned.
Join_Late(s, as) == s

\* dupAddrDetection joins the solicited-node groups of the addresses as.
Join(s, as) ==
  [s EXCEPT !.groups = [k \in Token |-> @[k] + Cardinality({a \in as : a[2] = k})]]

\* dupAddrDetection for new timers: detection begins, with a first solicitation.
Begin(s, as) ==
  [Join(s, as) EXCEPT !.dad = [a \in Addr |-> IF a \in as THEN 1 ELSE @[a]],
                      !.out = @ \cup as]

\* assignAddress.
Assign(s, as) ==
  [s EXCEPT !.tentative = @ \ as, !.inet = @ \cup as,
            !.dad = [a \in Addr |-> IF a \in as THEN 0 ELSE @[a]]]

\* sendRtrSol for n new timers, unless a router has been heard.
Solicit(h, s, n) ==
  IF rtrSolicited[h] THEN s ELSE [s EXCEPT !.rs = @ \o [k \in 1 .. n |-> 1]]

\* Mutant: the interface is initialised again when another address is assigned.
initialiseInterface_Again(h, s) == Solicit(h, Begin(s, s.tentative), 1)

\* initialiseInterface, once the link-local address is assigned.  Without detection,
\* the assignment of every other address comes back here before initStarted is set.
initialiseInterface(h, s) ==
  LET others == s.tentative
      begun == IF dupAddrDetectTrans > 0 THEN Solicit(h, Begin(s, others), 1)
               ELSE Solicit(h, Assign(Join(s, others), others), 1 + Cardinality(others))
  IN  [begun EXCEPT !.initStarted = TRUE]

dupAddrDetSuccess(h, s, a) ==
  IF s.initStarted THEN Assign(s, {a}) ELSE initialiseInterface(h, Assign(s, {a}))

\* dupAddrDetection for the new timer of a.
Detect(h, s, a) ==
  IF dupAddrDetectTrans > 0 THEN Begin(s, {a}) ELSE dupAddrDetSuccess(h, Join(s, {a}), a)

-----------------------------------------------------------------------------

\* The host starts and tests its link-local address.
nodeInitialise(h) ==
  /\ ~ crashed /\ ~ up[h]
  /\ up' = [up EXCEPT ![h] = TRUE]
  /\ LET a == linkLocalAddr(h)
         s == [Of(h) EXCEPT !.tentative = @ \cup {a}]
     IN  Becomes(h, Detect(h, s, a), wire)
  /\ UNCHANGED <<crashed, rtrSolicited, router>>

\* A solicitation of a by h has not been sent yet, or an answer is on its way.
AnswerMayCome(h, a) == \E m \in wire : m.target = a /\ (m.type = "NA" \/ m.src = h)

\* Mutant: one solicitation more than dupAddrDetectTrans is sent.
dupAddrDetection_OneMore(h, s, a) ==
  IF s.dad[a] <= dupAddrDetectTrans THEN [s EXCEPT !.dad[a] = @ + 1, !.out = {a}]
  ELSE dupAddrDetSuccess(h, s, a)

\* Mutant: the solicitations are not counted.
dupAddrDetection_NoCount(h, s, a) ==
  IF s.dad[a] < dupAddrDetectTrans THEN [s EXCEPT !.out = {a}] ELSE dupAddrDetSuccess(h, s, a)

\* dupAddrDetection when the timer of a expires: another solicitation, or success.
dupAddrDetection(h, s, a) ==
  IF s.dad[a] < dupAddrDetectTrans THEN [s EXCEPT !.dad[a] = @ + 1, !.out = {a}]
  ELSE dupAddrDetSuccess(h, s, a)

\* The timer of a expires retransTimer after its solicitation was sent, so that the answer
\* to it has come.
DupAddrSolTimeout(h, a) ==
  /\ ~ crashed /\ dad[h][a] > 0
  /\ ~ AnswerMayCome(h, a)
  /\ Becomes(h, dupAddrDetection(h, Of(h), a), wire)
  /\ UNCHANGED <<up, crashed, rtrSolicited, router>>

\* Another router solicitation, or no router has responded.
RtrSolTimeout(h, k) ==
  /\ ~ crashed
  /\ rs' = IF rs[h][k] < MAX_RTR_SOLICITATIONS THEN [rs EXCEPT ![h][k] = @ + 1]
           ELSE [rs EXCEPT ![h] = RemoveAt(@, k)]
  /\ UNCHANGED <<up, crashed, tentative, inet, dad, groups, initStarted, rtrSolicited, router, wire>>

-----------------------------------------------------------------------------

\* Mutant: the group is left once for each of its addresses.
Leave_All(g, k) == [g EXCEPT ![k] = 0]

\* leaveMulticastGroup takes one entry out of the list, if there is one.
Leave(g, k) == [g EXCEPT ![k] = IF @ = 0 THEN 0 ELSE @ - 1]

\* checkDupAddrDetected at the hosts hs, that hear of another user of a: a tentative
\* address is given up.  One that is not being tested yet has no timer to remove.
checkDupAddrDetected(hs, a) ==
  LET found == {g \in hs : a \in tentative[g]}
      dup == {g \in found : dad[g][a] > 0}
  IN
  /\ tentative' = [g \in Host |-> IF g \in dup THEN tentative[g] \ {a} ELSE tentative[g]]
  /\ dad' = [g \in Host |-> IF g \in dup THEN [dad[g] EXCEPT ![a] = 0] ELSE dad[g]]
  /\ groups' = [g \in Host |-> IF g \in found THEN Leave(groups[g], a[2]) ELSE groups[g]]
  /\ crashed' = (found # dup)

Running(m) == {g \in Host \ {m.src} : up[g]}

\* A solicitation of a detection is sent and processed by those in its group; address
\* resolution answers for an assigned address, to all nodes.
HearNgbrSol(m) ==
  LET hs == {g \in Running(m) : groups[g][m.target[2]] > 0}
  IN  /\ ~ crashed /\ m.type = "NS"
      /\ checkDupAddrDetected(hs, m.target)
      /\ wire' = (wire \ {m}) \cup [type : {"NA"}, src : {g \in hs : m.target \in inet[g]},
                                    target : {m.target}]
      /\ UNCHANGED <<up, inet, initStarted, rtrSolicited, rs, router>>

\* processNgbrAd.
HearNgbrAd(m) ==
  /\ ~ crashed /\ m.type = "NA"
  /\ checkDupAddrDetected(Running(m), m.target)
  /\ wire' = wire \ {m}
  /\ UNCHANGED <<up, inet, initStarted, rtrSolicited, rs, router>>

\* prefixAddrConf for the prefix Global: an address that is not there yet is tested,
\* once the link-local address is assigned.
prefixAddrConf(h, s) ==
  IF s.inet = {} \/ (\E a \in s.inet \cup s.tentative : a[1] = Global) THEN s
  ELSE Detect(h, [s EXCEPT !.tentative = @ \cup {<<Global, TokenOf[h]>>}], <<Global, TokenOf[h]>>)

\* What an earlier removal of the router has left.
Stale(r) == (~ r.list /\ r.dest) \/ r.rel = "freed"

\* processRtrAd with a lifetime.  insertRouterEntry expects that a destination entry of
\* the router's address has an entry in the neighbour cache.  Using the expiry list with
\* a pointer to a freed entry is undefined; taken to end the program.
processRtrAd(h) ==
  /\ up[h] /\ ~ crashed
  /\ LET s == Of(h)
         heard == ~ rtrSolicited[h] /\ s.inet # {}
         quiet == IF heard /\ s.rs # <<>> THEN [s EXCEPT !.rs = Tail(@)] ELSE s
     IN  /\ rtrSolicited' = [rtrSolicited EXCEPT ![h] = @ \/ heard]
         /\ \/ /\ Stale(router[h])
               /\ crashed' = TRUE
               /\ Becomes(h, quiet, wire)
               /\ UNCHANGED router
            \/ /\ ~ Stale(router[h])
               /\ router' = [router EXCEPT ![h] = [list |-> TRUE, dest |-> TRUE, rel |-> "yes"]]
               /\ Becomes(h, prefixAddrConf(h, quiet), wire)
               /\ UNCHANGED crashed
  /\ UNCHANGED up

\* processRtrAd with lifetime 0.  The list of expiring entries keeps a known router; of
\* one that is not known there is no neighbour entry either, and its isRouter() is asked
\* for through a null pointer.
RouterWithdraws(h) ==
  /\ up[h] /\ ~ crashed
  /\ IF router[h].list
     THEN router' = [router EXCEPT ![h].list = FALSE, ![h].rel = "freed"] /\ UNCHANGED crashed
     ELSE crashed' = TRUE /\ UNCHANGED router
  /\ LET heard == ~ rtrSolicited[h] /\ inet[h] # {}
     IN  /\ rtrSolicited' = [rtrSolicited EXCEPT ![h] = @ \/ heard]
         /\ rs' = IF heard /\ rs[h] # <<>> THEN [rs EXCEPT ![h] = Tail(@)] ELSE rs
  /\ UNCHANGED <<up, tentative, inet, dad, groups, initStarted, wire>>

\* routerTimeout, called by the list of expiring entries.
RouterTimeout(h) ==
  /\ ~ crashed /\ router[h].rel # "no"
  /\ IF router[h].rel = "freed"
     THEN crashed' = TRUE /\ UNCHANGED router
     ELSE router' = [router EXCEPT ![h].list = FALSE, ![h].rel = "no"] /\ UNCHANGED crashed
  /\ UNCHANGED <<up, tentative, inet, dad, groups, initStarted, rtrSolicited, rs, wire>>

-----------------------------------------------------------------------------

Init ==
  /\ up = [h \in Host |-> FALSE]
  /\ crashed = FALSE
  /\ tentative = Manual
  /\ inet = [h \in Host |-> {}]
  /\ dad = [h \in Host |-> [a \in Addr |-> 0]]
  /\ groups = [h \in Host |-> [k \in Token |-> 0]]
  /\ initStarted = [h \in Host |-> FALSE]
  /\ rtrSolicited = [h \in Host |-> FALSE]
  /\ rs = [h \in Host |-> <<>>]
  /\ router = [h \in Host |-> [list |-> FALSE, dest |-> FALSE, rel |-> "no"]]
  /\ wire = {}

Hear(m) == HearNgbrSol(m) \/ HearNgbrAd(m)

Next ==
  \/ \E h \in Host : nodeInitialise(h) \/ processRtrAd(h) \/ RouterWithdraws(h) \/ RouterTimeout(h)
  \/ \E h \in Host : \/ \E a \in Addr : DupAddrSolTimeout(h, a)
                     \/ \E k \in DOMAIN rs[h] : RtrSolTimeout(h, k)
  \/ \E m \in wire : Hear(m)

Spec == Init /\ [][Next]_vars

\* What is sent is heard and the timers of detections expire: weak fairness of Hear(m)
\* and DupAddrSolTimeout(h, a), each of which ends what enables it.  Routers need not
\* advertise.
FairSpec ==
  /\ Spec
  /\ \A m \in Message : []<>(m \notin wire \/ crashed)
  /\ \A h \in Host, a \in Addr : []<>(dad[h][a] = 0 \/ AnswerMayCome(h, a) \/ crashed)

-----------------------------------------------------------------------------

\* The type of every variable.
TypeOK ==
  /\ up \in [Host -> BOOLEAN] /\ crashed \in BOOLEAN
  /\ tentative \in [Host -> SUBSET Addr]
  /\ inet \in [Host -> SUBSET Addr]
  /\ dad \in [Host -> [Addr -> 0 .. dupAddrDetectTrans]]
  /\ groups \in [Host -> [Token -> Nat]]
  /\ initStarted \in [Host -> BOOLEAN] /\ rtrSolicited \in [Host -> BOOLEAN]
  /\ rs \in [Host -> Seq(1 .. MAX_RTR_SOLICITATIONS)]
  /\ router \in [Host -> Router]
  /\ wire \subseteq Message

\* No two hosts assign the same address, whenever they start, wait and test it
\* (dupAddrDetection, checkDupAddrDetected).
UniqueAddress == \A g, h \in Host : g # h => inet[g] \cap inet[h] = {}

\* A host listens in the solicited-node group of every address that it has or tests, and
\* in no other; addresses with the same token share one, and one of them may be given up.
GroupsMatch ==
  ~ crashed => \A h \in Host, k \in Token :
    groups[h][k] = Cardinality({a \in Addr : a[2] = k /\ (a \in inet[h] \/ dad[h][a] > 0)})

\* A host that has heard a router does not solicit routers any more: processRtrAd removes
\* one timer, and there is no other, in whatever order detections end and advertisements
\* come.
HeardMeansQuiet == \A h \in Host : rtrSolicited[h] => rs[h] = <<>>

\* Every detection ends, with the address assigned or given up.
DetectionEnds == \A h \in Host, a \in Addr : dad[h][a] > 0 ~> (dad[h][a] = 0 \/ crashed)

=============================================================================
