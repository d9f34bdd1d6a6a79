--------------------------- MODULE TickLockProofs ---------------------------
(***************************************************************************)
(* The tick lock, for any number of operators: one tick at a time, and so  *)
(* the sequence of ticks Orchestrator is written on.                       *)
(***************************************************************************)
EXTENDS TickLock, TLAPS

\* The lock is held exactly while a tick is under way, and then by one task.
LockInv ==
    /\ at \in [Tasks -> Passes \cup {"out", "waiting"}]
    /\ waiters \in Seq(Tasks)
    /\ locked = (\E p \in Tasks : InTick(p))
    /\ \A p, q \in Tasks : InTick(p) /\ InTick(q) => p = q

\* As the process starts or comes back nobody holds the lock or waits for it.
LEMMA NobodyIn ==
  /\ [p \in Tasks |-> "out"] \in [Tasks -> Passes \cup {"out", "waiting"}]
  /\ <<>> \in Seq(Tasks)
  /\ \A p \in Tasks : [q \in Tasks |-> "out"][p] \notin Passes
  <1>1. <<>> \in Seq(Tasks)
    OBVIOUS
  <1>2. "out" \notin Passes
    BY DEF Passes
  <1> QED
    BY <1>1, <1>2

LEMMA LockInitInv == LockInit => LockInv
  BY NobodyIn DEF LockInit, LockInv, InTick

\* Whoever enters finds nobody in a tick.
LEMMA EnterInv ==
  ASSUME LockInv, NEW p \in Tasks, ~locked, Enter(p), waiters' \in Seq(Tasks)
  PROVE  LockInv'
  BY DEF LockInv, Enter, InTick, Passes

LEMMA LeaveInv ==
  ASSUME LockInv, NEW p \in Tasks, InTick(p), Leave(p)
  PROVE  LockInv'
  BY DEF LockInv, Leave, InTick, Passes

LEMMA CallInv ==
  ASSUME LockInv, NEW p \in Tasks, Call(p)
  PROVE  LockInv'
  <1>1. CASE EntersAtOnce /\ Enter(p) /\ UNCHANGED waiters
    BY <1>1, EnterInv DEF EntersAtOnce, LockInv
  <1>2. CASE /\ at' = [at EXCEPT ![p] = "waiting"]
             /\ waiters' = Append(waiters, p)
             /\ UNCHANGED <<locked, tick>>
    <2>1. at[p] = "out"
      BY DEF Call
    <2>2. \A q \in Tasks : InTick(q)' <=> InTick(q)
      BY <1>2, <2>1 DEF LockInv, InTick, Passes
    <2>3. waiters' \in Seq(Tasks)
      BY <1>2 DEF LockInv
    <2>4. at' \in [Tasks -> Passes \cup {"out", "waiting"}]
      BY <1>2 DEF LockInv
    <2> QED
      BY <1>2, <2>2, <2>3, <2>4 DEF LockInv
  <1> QED
    BY <1>1, <1>2 DEF Call

LEMMA PassEndsInv ==
  ASSUME LockInv, NEW p \in Tasks, PassEnds(p)
  PROVE  LockInv'
  <1>1. InTick(p)
    BY DEF PassEnds
  <1>2. CASE PassAfter(p) = "out"
    BY <1>1, <1>2, LeaveInv DEF PassEnds
  <1>3. CASE PassAfter(p) # "out"
    <2>1. /\ at' = [at EXCEPT ![p] = PassAfter(p)]
          /\ UNCHANGED <<locked, waiters, tick>>
      BY <1>3 DEF PassEnds
    <2>2. PassAfter(p) \in Passes
      BY <1>3 DEF PassAfter, Passes
    <2>3. \A q \in Tasks : InTick(q)' <=> InTick(q)
      BY <1>1, <2>1, <2>2 DEF LockInv, InTick
    <2>4. at' \in [Tasks -> Passes \cup {"out", "waiting"}]
      BY <2>1, <2>2 DEF LockInv
    <2> QED
      BY <2>1, <2>3, <2>4 DEF LockInv
  <1> QED
    BY <1>2, <1>3

LEMMA LockInvHolds == LockSpec => []LockInv
  <1>1. LockInv /\ [LockNext]_lockVars => LockInv'
    <2> SUFFICES ASSUME LockInv, [LockNext]_lockVars PROVE LockInv'
      OBVIOUS
    <2>1. ASSUME NEW p \in Tasks, Call(p) PROVE LockInv'
      BY <2>1, CallInv
    <2>2. ASSUME NEW p \in Tasks, Wake(p) PROVE LockInv'
      <3>1. Tail(waiters) \in Seq(Tasks)
        BY <2>2 DEF LockInv, Wake
      <3> QED
        BY <2>2, <3>1, EnterInv DEF Wake
    <2>3. ASSUME NEW p \in Tasks, PassEnds(p) PROVE LockInv'
      BY <2>3, PassEndsInv
    <2>4. ASSUME NEW p \in Tasks, TickRaises(p) PROVE LockInv'
      BY <2>4, LeaveInv DEF TickRaises
    <2>5. CASE LockRestarts
      BY <2>5, NobodyIn DEF LockRestarts, LockInv, InTick
    <2>6. CASE UNCHANGED lockVars
      BY <2>6 DEF lockVars, LockInv, InTick
    <2> QED
      BY <2>1, <2>2, <2>3, <2>4, <2>5, <2>6 DEF LockNext
  <1> QED
    BY LockInitInv, <1>1, PTL DEF LockSpec

\* Two ticks are never under way at once, for any number of operators.
THEOREM OneTickAtATime == LockSpec => []TicksSerialised
  <1>1. LockInv => TicksSerialised
    BY DEF LockInv, TicksSerialised
  <1> QED
    BY LockInvHolds, <1>1, PTL

-----------------------------------------------------------------------------
(* The refinement: what is seen of the tasks from outside *)

Running(a) == {q \in Tasks : a[q] \in Passes}
PassOf(a) == IF Running(a) = {} THEN "none"
             ELSE a[CHOOSE q \in Tasks : a[q] \in Passes]

LEMMA SeenFromOutside ==
  /\ PassUnderWay = PassOf(at) /\ TickUnderWay = Running(at)
  /\ PassUnderWay' = PassOf(at') /\ TickUnderWay' = Running(at')
  BY DEF PassUnderWay, TickUnderWay, PassOf, Running, InTick

LEMMA RunningAlone ==
  ASSUME NEW a, NEW p \in Tasks, a[p] \in Passes,
         \A q \in Tasks : a[q] \in Passes => q = p
  PROVE  PassOf(a) = a[p] /\ Running(a) = {p}
  <1>1. (CHOOSE q \in Tasks : a[q] \in Passes) = p
    OBVIOUS
  <1>2. Running(a) = {p}
    BY DEF Running
  <1> QED
    BY <1>1, <1>2 DEF PassOf

LEMMA NoneRunning ==
  ASSUME NEW a, \A q \in Tasks : a[q] \notin Passes
  PROVE  PassOf(a) = "none" /\ Running(a) = {}
  BY DEF PassOf, Running

LEMMA EnterBegins ==
  ASSUME LockInv, NEW p \in Tasks, ~locked, Enter(p)
  PROVE  TICKS!Begin
  <1>1. \A q \in Tasks : at[q] \notin Passes
    BY DEF LockInv, InTick
  <1>2. PassOf(at) = "none"
    BY <1>1, NoneRunning
  <1>3. at'[p] = "drain" /\ \A q \in Tasks : at'[q] \in Passes => q = p
    BY <1>1 DEF Enter, LockInv
  <1>4. PassOf(at') = "drain"
    BY <1>3, RunningAlone DEF Passes
  <1> QED
    BY <1>2, <1>4, SeenFromOutside DEF TICKS!Begin, Enter

LEMMA LeaveEnds ==
  ASSUME LockInv, NEW p \in Tasks, InTick(p), Leave(p)
  PROVE  /\ PassOf(at) = at[p] /\ Running(at) = {p}
         /\ PassOf(at') = "none" /\ Running(at') = {}
         /\ tick' = tick
  <1>1. PassOf(at) = at[p] /\ Running(at) = {p}
    BY RunningAlone DEF LockInv, InTick
  <1>2. \A q \in Tasks : at'[q] \notin Passes
    BY DEF Leave, LockInv, InTick, Passes
  <1>3. PassOf(at') = "none" /\ Running(at') = {}
    BY <1>2, NoneRunning
  <1> QED
    BY <1>1, <1>3 DEF Leave

LEMMA RaiseBreaksOff ==
  ASSUME LockInv, NEW p \in Tasks, InTick(p), Leave(p)
  PROVE  TICKS!BreakOff
  <1>1. at[p] # "none"
    BY DEF InTick, Passes
  <1> QED
    BY <1>1, LeaveEnds, SeenFromOutside DEF TICKS!BreakOff

LEMMA PassEndAdvances ==
  ASSUME LockInv, NEW p \in Tasks, PassEnds(p)
  PROVE  TICKS!Advance
  <1>1. InTick(p)
    BY DEF PassEnds
  <1>2. PassOf(at) = at[p] /\ Running(at) = {p} /\ at[p] # "none"
    BY <1>1, RunningAlone DEF LockInv, InTick, Passes
  <1>3. (TickUnderWay \cap Admins # {}) = (p # Loop)
    <2>1. p \in Admins <=> p # Loop
      BY TickLockAssumption DEF Tasks
    <2> QED
      BY <1>2, <2>1, SeenFromOutside
  <1>4. \A every : TICKS!Due(every) <=> DueFor(p, every)
    BY <1>3 DEF TICKS!Due, DueFor
  <1>5. TICKS!After(PassUnderWay) =
            IF PassAfter(p) = "out" THEN "none" ELSE PassAfter(p)
    BY <1>2, <1>4, SeenFromOutside DEF TICKS!After, PassAfter
  <1>6. CASE PassAfter(p) = "out"
    <2>1. Leave(p)
      BY <1>6 DEF PassEnds
    <2>2. PassOf(at') = "none" /\ Running(at') = {} /\ tick' = tick
      BY <1>1, <2>1, LeaveEnds
    <2> QED
      BY <1>2, <1>5, <1>6, <2>2, SeenFromOutside DEF TICKS!Advance
  <1>7. CASE PassAfter(p) # "out"
    <2>1. /\ at' = [at EXCEPT ![p] = PassAfter(p)]
          /\ tick' = tick
      BY <1>7 DEF PassEnds
    <2>2. PassAfter(p) \in Passes
      BY <1>7 DEF PassAfter, Passes
    <2>3. at'[p] = PassAfter(p) /\ \A q \in Tasks : at'[q] \in Passes => q = p
      BY <1>1, <2>1, <2>2 DEF LockInv, InTick
    <2>4. PassOf(at') = PassAfter(p) /\ Running(at') = {p}
      BY <2>2, <2>3, RunningAlone
    <2>5. PassAfter(p) # "none"
      BY <2>2 DEF Passes
    <2>6. PassUnderWay # "none" /\ PassUnderWay' = TICKS!After(PassUnderWay)
      BY <1>2, <1>5, <1>7, <2>4, SeenFromOutside
    <2>7. TickUnderWay' = TickUnderWay /\ PassUnderWay' # "none"
      BY <1>2, <2>4, <2>5, SeenFromOutside
    <2> QED
      BY <2>1, <2>6, <2>7 DEF TICKS!Advance
  <1> QED
    BY <1>6, <1>7

LEMMA WaitIsNotSeen ==
  ASSUME LockInv, NEW p \in Tasks, at[p] = "out",
         at' = [at EXCEPT ![p] = "waiting"], tick' = tick
  PROVE  UNCHANGED TICKS!vars
  <1>1. \A q \in Tasks : q # p => at'[q] = at[q]
    BY DEF LockInv
  <1>2. at'[p] \notin Passes /\ at[p] \notin Passes
    BY DEF LockInv, Passes
  <1>3. \A q \in Tasks : at'[q] \in Passes <=> at[q] \in Passes
    BY <1>1, <1>2
  <1>4. Running(at') = Running(at)
    BY <1>3 DEF Running
  <1>5. PassOf(at') = PassOf(at)
    <2>1. CASE Running(at) = {}
      BY <1>4, <2>1 DEF PassOf
    <2>2. CASE Running(at) # {}
      <3>1. PICK q \in Tasks : at[q] \in Passes
        BY <2>2 DEF Running
      <3>2. PassOf(at) = at[q]
        BY <3>1, RunningAlone DEF LockInv, InTick
      <3>3. PassOf(at') = at'[q]
        BY <1>3, <3>1, RunningAlone DEF LockInv, InTick
      <3> QED
        BY <1>1, <1>2, <3>1, <3>2, <3>3
    <2> QED
      BY <2>1, <2>2
  <1> QED
    BY <1>4, <1>5, SeenFromOutside DEF TICKS!vars

\* Seen from outside, the tasks that share the lock run one sequence of ticks.
THEOREM TicksImplemented == LockSpec => TicksSpec
  <1>1. LockInit => TICKS!Init
    <2> SUFFICES ASSUME LockInit PROVE TICKS!Init
      OBVIOUS
    <2>1. \A q \in Tasks : at[q] \notin Passes
      BY DEF LockInit, Passes
    <2>2. PassOf(at) = "none" /\ Running(at) = {}
      BY <2>1, NoneRunning
    <2> QED
      BY <2>2, SeenFromOutside DEF TICKS!Init, LockInit
  <1>2. LockInv /\ [LockNext]_lockVars => [TICKS!Next]_TICKS!vars
    <2> SUFFICES ASSUME LockInv, [LockNext]_lockVars PROVE [TICKS!Next]_TICKS!vars
      OBVIOUS
    <2>1. ASSUME NEW p \in Tasks, Call(p) PROVE [TICKS!Next]_TICKS!vars
      <3>1. CASE EntersAtOnce /\ Enter(p)
        BY <3>1, EnterBegins DEF EntersAtOnce, TICKS!Next
      <3>2. CASE at' = [at EXCEPT ![p] = "waiting"] /\ tick' = tick
        BY <2>1, <3>2, WaitIsNotSeen DEF Call
      <3> QED
        BY <2>1, <3>1, <3>2 DEF Call
    <2>2. ASSUME NEW p \in Tasks, Wake(p) PROVE [TICKS!Next]_TICKS!vars
      BY <2>2, EnterBegins DEF Wake, TICKS!Next
    <2>3. ASSUME NEW p \in Tasks, PassEnds(p) PROVE [TICKS!Next]_TICKS!vars
      BY <2>3, PassEndAdvances DEF TICKS!Next
    <2>4. ASSUME NEW p \in Tasks, TickRaises(p) PROVE [TICKS!Next]_TICKS!vars
      BY <2>4, RaiseBreaksOff DEF TickRaises, TICKS!Next
    <2>5. CASE LockRestarts
      <3>1. \A q \in Tasks : at'[q] \notin Passes
        BY <2>5 DEF LockRestarts, Passes
      <3>2. PassOf(at') = "none" /\ Running(at') = {}
        BY <3>1, NoneRunning
      <3> QED
        BY <2>5, <3>2, SeenFromOutside DEF TICKS!Restart, TICKS!Next, LockRestarts
    <2>6. CASE UNCHANGED lockVars
      BY <2>6, SeenFromOutside DEF lockVars, TICKS!vars
    <2> QED
      BY <2>1, <2>2, <2>3, <2>4, <2>5, <2>6 DEF LockNext
  <1> QED
    BY LockInvHolds, <1>1, <1>2, PTL DEF LockSpec, TicksSpec, TICKS!Spec
=============================================================================
