---------------------------- MODULE DesiredState ----------------------------
(***************************************************************************)
(* What edgecommander promises about a node, without saying how: there is  *)
(* one desired configuration (the content of the active config file) and   *)
(* the node is brought to that configuration and to no other.  Whatever    *)
(* the node was before, while it is being changed, or after a failure, is  *)
(* Drift.                                                                  *)
(***************************************************************************)
CONSTANTS
    Config,     \* the configurations that parse and validate
    BadConfig,  \* a config file that is missing, malformed or invalid
    Drift       \* the node matches no configuration as a whole

VARIABLES
    desired,    \* what the config file says
    actual      \* the configuration the node matches as a whole, or Drift

vars == <<desired, actual>>

Init ==
    /\ desired \in Config \cup {BadConfig}
    /\ actual = Drift

\* A new configuration is saved, or a power loss restores an older one.
Declare ==
    /\ desired' \in Config \cup {BadConfig}
    /\ UNCHANGED actual

\* The node is changed half way, a step fails, the machine goes down.
Diverge ==
    /\ actual' = Drift
    /\ desired' \in Config \cup {BadConfig}

\* The one step that makes the node match a configuration: the desired one.
Converge ==
    /\ desired \in Config
    /\ actual' = desired
    /\ UNCHANGED desired

Next == Declare \/ Diverge \/ Converge

Spec == Init /\ [][Next]_vars

=============================================================================
