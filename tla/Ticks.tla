-------------------------------- MODULE Ticks --------------------------------
(***************************************************************************)
(* The order of the reconcile loop's work, one tick at a time: what        *)
(* Orchestrator takes for granted and the tick lock is there to give.  A   *)
(* tick goes through its passes in order and may break off; a forced tick  *)
(* takes them all, another one those that are due.                         *)
(***************************************************************************)
EXTENDS Naturals

CONSTANTS
    PrEvery,    \* ticks between two pull request passes
    SlowEvery   \* ticks between two slow passes

VARIABLES
    tick,       \* ticks begun, modulo PrEvery * SlowEvery
    forced,     \* the tick under way is the operator's
    pass        \* the pass it is in; "none" between ticks

Init == tick = 0 /\ forced = FALSE /\ pass = "none"

Due(every) == forced \/ tick % every = 0

After(p) ==
    IF p = "drain" THEN "start"
    ELSE IF p = "start" THEN "track"
    ELSE IF p = "track" /\ Due(PrEvery) THEN "pulls"
    ELSE IF p \in {"track", "pulls"} /\ Due(SlowEvery) THEN "resync"
    ELSE IF p = "resync" THEN "insights"
    ELSE "none"

Begin ==
    /\ pass = "none"
    /\ pass' = "drain"
    /\ tick' = (tick + 1) % (PrEvery * SlowEvery)
    /\ forced' \in BOOLEAN

\* The last pass ends the tick; whose it was is forgotten.
Advance ==
    /\ pass # "none"
    /\ pass' = After(pass)
    /\ forced' = (forced /\ pass' # "none")
    /\ UNCHANGED tick

\* An exception leaves the tick.
BreakOff == pass # "none" /\ pass' = "none" /\ forced' = FALSE /\ UNCHANGED tick

Restart == pass' = "none" /\ forced' = FALSE /\ tick' = 0

Next == Begin \/ Advance \/ BreakOff \/ Restart

vars == <<tick, forced, pass>>

Spec == Init /\ [][Next]_vars
=============================================================================
