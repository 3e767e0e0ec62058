---------------------------- MODULE MCHostNetwork ----------------------------
\* Small instances of HostNetwork: two documents, two interfaces.
EXTENDS HostNetwork

CONSTANTS lan, wan, eth0, eth1, short, long

Tx(l0, l1) == [f \in {eth0, eth1} |-> IF f = eth0 THEN l0 ELSE l1]

MCConfigs == {NothingDeclared,
              [doc |-> lan, tx |-> Tx(long, short)],
              [doc |-> wan, tx |-> Tx(Unset, long)]}
=============================================================================
