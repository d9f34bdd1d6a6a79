------------------------------- MODULE Intake -------------------------------
(***************************************************************************)
(* What the receiver promises the loop, and all that Orchestrator assumes  *)
(* of it (Arrive): an event reaches the inbox at most once, whole, and a   *)
(* row never leaves its place.  An event may also be passed over: it says  *)
(* nothing, nobody trusts it, or the process died while handling it.       *)
(***************************************************************************)
EXTENDS Sequences

CONSTANTS
    Events,     \* what may happen on GitHub, each once
    Operator    \* stands for a row the operator asked for

VARIABLES
    queue,  \* where the rows of the inbox came from, oldest first
    seen    \* the events that had their chance

Init == queue = <<>> /\ seen = {}

Accept(b) ==
    /\ b \notin seen
    /\ seen' = seen \cup {b}
    /\ queue' = Append(queue, b)

PassOver(b) ==
    /\ b \notin seen
    /\ seen' = seen \cup {b}
    /\ UNCHANGED queue

\* The operator's own request, which is no event and may be repeated.
Request == queue' = Append(queue, Operator) /\ UNCHANGED seen

Next == Request \/ \E b \in Events : Accept(b) \/ PassOver(b)

vars == <<queue, seen>>

Spec == Init /\ [][Next]_vars
=============================================================================
