------------------------------ MODULE TickLock ------------------------------
(***************************************************************************)
(* Orchestrator.tick under its lock (app/core/orchestrator.py), called by  *)
(* run_forever and, out of turn, by POST /api/admin/reconcile              *)
(* (app/main.py).  Every pass awaits, so without the lock any two ticks    *)
(* interleave.  The lock is asyncio's: a boolean and a queue of waiters; a *)
(* newcomer enters at once only if nobody holds it and nobody waits.       *)
(***************************************************************************)
EXTENDS Naturals, Sequences

CONSTANTS
    Loop,       \* the background task of run_forever
    Admins,     \* requests to the admin endpoint, each of which may be repeated
    PrEvery, SlowEvery

ASSUME TickLockAssumption ==
    /\ Loop \notin Admins
    /\ PrEvery \in Nat \ {0} /\ SlowEvery \in Nat \ {0}

VARIABLES
    locked,     \* self._lock
    waiters,    \* the tasks that wait for it
    at,         \* where each task is: out of tick(), waiting, or in a pass
    tick        \* self._tick, modulo PrEvery * SlowEvery

lockVars == <<locked, waiters, at, tick>>

Tasks == {Loop} \cup Admins
Passes == {"drain", "start", "track", "pulls", "resync", "insights"}

InTick(p) == at[p] \in Passes

LockInit ==
    /\ locked = FALSE /\ waiters = <<>> /\ tick = 0
    /\ at = [p \in Tasks |-> "out"]

-----------------------------------------------------------------------------
(* The lock *)

\* A mutant: there is no lock.
EntersAtOnceAlways == TRUE

\* A mutant: a newcomer may overtake those who wait.
EntersAtOnceBarging == ~locked

EntersAtOnce == ~locked /\ waiters = <<>>

\* async with self._lock, then self._tick += 1.
Enter(p) ==
    /\ locked' = TRUE
    /\ at' = [at EXCEPT ![p] = "drain"]
    /\ tick' = (tick + 1) % (PrEvery * SlowEvery)

Call(p) ==
    /\ at[p] = "out"
    /\ \/ EntersAtOnce /\ Enter(p) /\ UNCHANGED waiters
       \/ /\ ~EntersAtOnce
          /\ at' = [at EXCEPT ![p] = "waiting"]
          /\ waiters' = Append(waiters, p)
          /\ UNCHANGED <<locked, tick>>

Wake(p) ==
    /\ ~locked /\ waiters # <<>> /\ p = Head(waiters)
    /\ Enter(p)
    /\ waiters' = Tail(waiters)

\* The end of the with block, by return or by exception.
Leave(p) ==
    /\ at' = [at EXCEPT ![p] = "out"]
    /\ locked' = FALSE
    /\ UNCHANGED <<waiters, tick>>

-----------------------------------------------------------------------------
(* The passes of a tick *)

\* The admin endpoint passes pr_every = slow_every = 1.
DueFor(p, every) == p # Loop \/ tick % every = 0

PassAfter(p) ==
    IF at[p] = "drain" THEN "start"
    ELSE IF at[p] = "start" THEN "track"
    ELSE IF at[p] = "track" /\ DueFor(p, PrEvery) THEN "pulls"
    ELSE IF at[p] \in {"track", "pulls"} /\ DueFor(p, SlowEvery) THEN "resync"
    ELSE IF at[p] = "resync" THEN "insights"
    ELSE "out"

PassEnds(p) ==
    /\ InTick(p)
    /\ IF PassAfter(p) = "out" THEN Leave(p)
       ELSE /\ at' = [at EXCEPT ![p] = PassAfter(p)]
            /\ UNCHANGED <<locked, waiters, tick>>

\* Whatever a pass did not catch: run_forever logs it and sleeps, the endpoint
\* answers 500.
TickRaises(p) == InTick(p) /\ Leave(p)

\* The process dies, or is shut down and cancels the loop, and comes back.
LockRestarts ==
    /\ locked' = FALSE /\ waiters' = <<>> /\ tick' = 0
    /\ at' = [p \in Tasks |-> "out"]

LockNext ==
    \/ \E p \in Tasks : Call(p) \/ Wake(p) \/ PassEnds(p) \/ TickRaises(p)
    \/ LockRestarts

LockSpec == LockInit /\ [][LockNext]_lockVars

-----------------------------------------------------------------------------
(* "Ticks are serialised" (orchestrator.py:9). *)

\* Two ticks are never under way at once: not the loop's and an operator's, not
\* while one raises or others wait (orchestrator.py:9-12, 110-119).
TicksSerialised ==
    \A p, q \in Tasks : InTick(p) /\ InTick(q) => p = q

TickUnderWay == {p \in Tasks : InTick(p)}
PassUnderWay ==
    IF TickUnderWay = {} THEN "none" ELSE at[CHOOSE p \in Tasks : InTick(p)]

TICKS == INSTANCE Ticks WITH
            pass <- PassUnderWay, forced <- TickUnderWay \cap Admins # {}

\* Seen from outside there is one sequence of ticks, each of which takes its
\* passes in order: what Orchestrator is written on (orchestrator.py:95-119).
TicksSpec == TICKS!Spec
=============================================================================
