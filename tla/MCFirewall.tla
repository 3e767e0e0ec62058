----------------------------- MODULE MCFirewall -----------------------------
(***************************************************************************)
(* Firewall with two zones, one port, one rich rule, and the ssh service   *)
(* that provides the port.  The lists are an empty one, one that names no  *)
(* zone, one that repeats a rule and names both zones, one that spells the *)
(* port in another way and one with a zone firewalld does not know.        *)
(***************************************************************************)
EXTENDS Firewall, TLC

CONSTANTS public, internal, ssh22, ssh022, fromLan, ssh

MCProvides == ssh :> ssh22
MCCanonical == ssh022 :> ssh22

Line(zone, rule) == [zone |-> zone, rule |-> rule]

MCLists ==
    { <<>>,
      <<Line(NoZone, ssh22)>>,
      <<Line(public, ssh022), Line(internal, fromLan)>>,
      <<Line(public, ssh22), Line(NoZone, ssh22), Line(internal, fromLan)>>,
      <<Line(NoZone, fromLan), Line("unknown", ssh22)>> }

\* Any tables, and a call that may fail.
AnyTables == defaultZone = public /\ faults = 0 /\ meddlings = MaxMeddling

\* As firewalld is installed, ssh open in both tables, with one stray rule; and
\* others who change it.
Stray ==
    /\ defaultZone = public
    /\ permanent = runtime
    /\ runtime = [z \in Zone |-> IF z = internal THEN {ssh, fromLan} ELSE {ssh}]
    /\ faults = MaxFaults /\ meddlings = 0

MCInit == Init /\ (AnyTables \/ Stray)

MCSpec == MCInit /\ [][Next]_vars
=============================================================================
