---- MODULE MCARP ----
\* A host and a router that answers for p, which it reaches on another port, and
\* has no route to x.
EXTENDS ARP

CONSTANTS host, router, ah, ar, p, x

MCAddrOf == [n \in {host, router} |-> IF n = host THEN ah ELSE ar]

MCLocal == [n \in {host, router} |-> IF n = host THEN {ah} ELSE {ar}]

MCMaxPackets == [n \in {host, router} |-> IF n = host THEN 2 ELSE 1]

MCRoute == [n \in {host, router} |->
             [a \in Addr |-> IF n = host \/ a \in {ah, ar} THEN "lan"
                             ELSE IF a = p THEN "other" ELSE "none"]]
====
