------------------------------ MODULE MCEndpoints ------------------------------
EXTENDS Endpoints

CONSTANTS n1, n2, n3

AllNodes == {n1, n2, n3}
DiscoveredNodes == {n1, n2}
PinnedBy == [h \in Handle |-> n3]

================================================================================
