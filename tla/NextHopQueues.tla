----------------------------- MODULE NextHopQueues -----------------------------
(***************************************************************************)
(* What address resolution promises to the network layer.  A channel is a  *)
(* sender and a next hop.  Packets of a channel, numbered as they are      *)
(* handed down, wait, and are then all sent or all given up.  None         *)
(* overtakes another one, and none waits for ever.                         *)
(***************************************************************************)
EXTENDS Naturals, Sequences

CONSTANT Channel

VARIABLES
  handed,   \* how many packets have been handed down
  waiting,  \* those that wait
  sent      \* those that were sent, in this order

qvars == <<handed, waiting, sent>>

Init ==
  /\ handed = [c \in Channel |-> 0]
  /\ waiting = [c \in Channel |-> <<>>]
  /\ sent = [c \in Channel |-> <<>>]

\* A packet has to wait.
Hold(c) ==
  /\ handed' = [handed EXCEPT ![c] = @ + 1]
  /\ waiting' = [waiting EXCEPT ![c] = Append(@, handed[c] + 1)]
  /\ UNCHANGED sent

\* A packet is sent at once, when none is waiting.
PassOn(c) ==
  /\ waiting[c] = <<>>
  /\ handed' = [handed EXCEPT ![c] = @ + 1]
  /\ sent' = [sent EXCEPT ![c] = Append(@, handed[c] + 1)]
  /\ UNCHANGED waiting

Release(c) ==
  /\ waiting[c] # <<>>
  /\ sent' = [sent EXCEPT ![c] = @ \o waiting[c]]
  /\ waiting' = [waiting EXCEPT ![c] = <<>>]
  /\ UNCHANGED handed

GiveUp(c) ==
  /\ waiting[c] # <<>>
  /\ waiting' = [waiting EXCEPT ![c] = <<>>]
  /\ UNCHANGED <<handed, sent>>

Next == \E c \in Channel : Hold(c) \/ PassOn(c) \/ Release(c) \/ GiveUp(c)

Spec == Init /\ [][Next]_qvars

FairSpec == Spec /\ \A c \in Channel : WF_qvars(Release(c) \/ GiveUp(c))

-----------------------------------------------------------------------------

Increasing(s) == \A i, j \in DOMAIN s : i < j => s[i] < s[j]

\* No packet overtakes an earlier one of its channel or is sent twice, and none is
\* sent that was not handed down: those sent and those waiting are in order.
InOrder ==
  \A c \in Channel : /\ Increasing(sent[c] \o waiting[c])
                     /\ \A i \in DOMAIN (sent[c] \o waiting[c]) :
                          (sent[c] \o waiting[c])[i] \in 1 .. handed[c]
=============================================================================
