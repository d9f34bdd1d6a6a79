-------------------------------- MODULE Call --------------------------------
(***************************************************************************)
(* What a caller of a client may count on, and all that Effects assumes of *)
(* it: a call returns, and then it was applied, or it raises, and then     *)
(* nobody knows; and a request that must not be repeated is applied at     *)
(* most once, whenever it reaches its destination.                         *)
(***************************************************************************)
EXTENDS Naturals

VARIABLES
    state,      \* "idle", "open", "returned" or "raised"
    repeatable, \* the request may be applied more than once
    applied     \* how often it was

Init == state = "idle" /\ repeatable = TRUE /\ applied = 0

Begin ==
    /\ state = "idle"
    /\ state' = "open"
    /\ repeatable' \in BOOLEAN
    /\ applied' = 0

MayApply == repeatable \/ applied = 0

\* Applied now or not, and answered now or not.
Proceed ==
    /\ state = "open"
    /\ applied' = applied \/ (MayApply /\ applied' = applied + 1)
    /\ \/ state' \in {"open", "raised"}
       \/ state' = "returned" /\ applied' > 0
    /\ UNCHANGED repeatable

\* What the caller was told nothing about may still happen.
ArrivesLate ==
    /\ state # "idle" /\ MayApply
    /\ applied' = applied + 1
    /\ UNCHANGED <<state, repeatable>>

End ==
    /\ state \in {"returned", "raised"}
    /\ state' = "idle" /\ repeatable' = TRUE /\ applied' = 0

Next == Begin \/ Proceed \/ ArrivesLate \/ End

vars == <<state, repeatable, applied>>

Spec == Init /\ [][Next]_vars
=============================================================================
