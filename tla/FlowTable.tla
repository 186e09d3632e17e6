----------------------------- MODULE FlowTable -----------------------------
(***************************************************************************)
(* What the OpenFlow controller of a tenant LSI promises: the switch has   *)
(* exactly the flows that are asked for, except while it is disconnected   *)
(* and while it is brought up to date.  Each step of that brings one flow  *)
(* that is missing or takes one away that is not asked for: traffic that   *)
(* both the old and the new rules allow is never interrupted.              *)
(***************************************************************************)
CONSTANT Flows

VARIABLES
    asked,      \* the flows that are asked for
    table,      \* those the switch has
    state       \* "down", "syncing" or "ready"

vars == <<asked, table, state>>

Init == asked = {} /\ table = {} /\ state = "down"

\* Once up to date, the switch is ready.
ReadyIfEqual == state' = "syncing" \/ (state' = "ready" /\ table' = asked')

\* Other flows are asked for.
Ask ==
    /\ asked' \in SUBSET Flows
    /\ table' = table
    /\ IF state = "down" THEN state' = "down" ELSE state = "ready" /\ ReadyIfEqual

\* One flow is brought or taken away.
Sync ==
    /\ state = "syncing"
    /\ \/ table' = table
       \/ \E f \in asked \ table : table' = table \cup {f}
       \/ \E f \in table \ asked : table' = table \ {f}
    /\ ReadyIfEqual
    /\ UNCHANGED asked

\* The switch connects and is emptied.
Open ==
    /\ state = "down"
    /\ table' = {}
    /\ ReadyIfEqual
    /\ UNCHANGED asked

\* The connection is lost; a switch that restarts has no flows.
Down ==
    /\ state' = "down"
    /\ table' \in {table, {}}
    /\ UNCHANGED asked

Next == Ask \/ Sync \/ Open \/ Down

Spec == Init /\ [][Next]_vars
=============================================================================
