--------------------------- MODULE DurableRegister ---------------------------
(***************************************************************************)
(* What the rest of the program relies on when it replaces a file on a     *)
(* host that can lose its power: the file always holds one of the values   *)
(* written to it, whole; a value may be lost to a power failure until it   *)
(* is settled, and what comes back then is an earlier value, whole.        *)
(***************************************************************************)
CONSTANT Value

VARIABLES
    value,      \* what a reader of the file sees
    possible    \* what the file may hold after a power failure

vars == <<value, possible>>

Init ==
    /\ value \in Value
    /\ possible = {value}

Replace ==
    /\ value' \in Value
    /\ possible' = possible \cup {value'}

Settle ==
    /\ possible' = {value}
    /\ UNCHANGED value

PowerLoss ==
    /\ value' \in possible
    /\ possible' = {value'}

Next == Replace \/ Settle \/ PowerLoss

Spec == Init /\ [][Next]_vars
=============================================================================
