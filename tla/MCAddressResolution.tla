---- MODULE MCAddressResolution ----
\* n is covered by a prefix of interface 0, m by none, so it is looked for everywhere.
EXTENDS AddressResolution

CONSTANTS n, m

MCOnLink == [t \in {n, m} |-> IF t = n THEN 0 ELSE NoIface]

MCLinkOf == [t \in {n, m} |-> IF t = n THEN 0 ELSE 1]
====
