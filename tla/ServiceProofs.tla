---------------------------- MODULE ServiceProofs ----------------------------
(***************************************************************************)
(* The whole process, for any events, requests and operators: what is      *)
(* proved of the tick lock and of the receiver apart holds of the two      *)
(* together, and a row of the inbox is served once.                        *)
(***************************************************************************)
EXTENDS Service, TickLockProofs, ReceiverProofs

(* The lock: every step of the process is a step of it, or none. *)

LEMMA TickStepIsLockStep ==
  ASSUME NEW p \in Tasks, TickBegins(p) \/ TickSteps(p)
  PROVE  [LockNext]_lockVars
  <1>1. CASE TickBegins(p)
    BY <1>1 DEF TickBegins, LockNext
  <1>2. CASE \E i \in todo[p] : Handle(p, i) \/ Dispatched(p, i) \/ DispatchFailed(p, i)
    BY <1>2 DEF Handle, Dispatched, DispatchFailed
  <1>3. CASE Resync(p) \/ PassDone(p)
    BY <1>3 DEF Resync, PassDone, LockNext
  <1>4. CASE TickBreaksOff(p)
    BY <1>4 DEF TickBreaksOff, LockNext
  <1> QED
    BY <1>1, <1>2, <1>3, <1>4 DEF TickSteps

LEMMA StepIsLockStep == [Next]_serviceVars => [LockNext]_lockVars
  <1> SUFFICES ASSUME [Next]_serviceVars PROVE [LockNext]_lockVars
    OBVIOUS
  <1>1. ASSUME NEW n \in LabelNumbers, LabelApplied(n) PROVE UNCHANGED lockVars
    BY <1>1 DEF LabelApplied
  <1>2. CASE Delivery
    BY <1>2 DEF Delivery
  <1>3. CASE Crash
    BY <1>3 DEF Crash, LockNext
  <1>4. CASE UNCHANGED serviceVars
    BY <1>4 DEF serviceVars
  <1> QED
    BY <1>1, <1>2, <1>3, <1>4, TickStepIsLockStep DEF Next

LEMMA ServiceHasLock == Spec => LockSpec
  <1>1. Init => LockInit
    BY DEF Init
  <1> QED
    BY <1>1, StepIsLockStep, PTL DEF Spec, LockSpec

\* In the whole process, crashes and all, two ticks are never under way at once.
THEOREM ServiceTicksSerialised == Spec => []TicksSerialised
  BY ServiceHasLock, OneTickAtATime, PTL

\* The process runs one sequence of ticks, the operator's among them.
THEOREM ServiceTicksInOrder == Spec => TicksSpec
  BY ServiceHasLock, TicksImplemented, PTL

-----------------------------------------------------------------------------
(* The receiver: the loop changes nothing of its state but a row's outcome *)

LEMMA OutcomeOnly ==
  ASSUME ReceiverInv, NEW i \in DOMAIN inbox, NEW row \in InboxRow,
         row.from = inbox[i].from, inbox' = [inbox EXCEPT ![i] = row],
         UNCHANGED <<own, deliveries, receiving>>
  PROVE  ReceiverInv' /\ UNCHANGED INTAKE!vars
  <1>1. inbox \in Seq(InboxRow)
    BY DEF ReceiverInv
  <1>2. inbox' \in Seq(InboxRow) /\ DOMAIN inbox' = DOMAIN inbox
    BY <1>1
  <1>3. Recorded' = Recorded
    BY DEF Recorded
  <1>4. Sources' = Sources
    <2>1. \A j \in DOMAIN inbox : inbox'[j].from = inbox[j].from
      BY <1>1
    <2> QED
      BY <1>2, <2>1 DEF Sources
  <1> QED
    BY <1>2, <1>3, <1>4 DEF ReceiverInv, INTAKE!vars

LEMMA DispatchedKeeps ==
  ASSUME ReceiverInv, todo \in [Tasks -> SUBSET DOMAIN inbox],
         NEW p \in Tasks, NEW i \in todo[p], Dispatched(p, i)
  PROVE  ReceiverInv' /\ UNCHANGED INTAKE!vars
  <1> DEFINE row == [inbox[i] EXCEPT !.dispatched = TRUE]
  <1>1. i \in DOMAIN inbox /\ inbox[i] \in InboxRow
    BY DEF ReceiverInv
  <1>2. row \in InboxRow /\ row.from = inbox[i].from
    BY <1>1 DEF InboxRow
  <1>3. inbox' = [inbox EXCEPT ![i] = row]
    BY <1>1 DEF Dispatched, ReceiverInv
  <1> HIDE DEF row
  <1> QED
    BY <1>1, <1>2, <1>3, OutcomeOnly DEF Dispatched

LEMMA FailedRow ==
  ASSUME NEW row \in InboxRow
  PROVE  GivenBack(row) \in InboxRow /\ GivenBack(row).from = row.from
  <1> DEFINE tried == [row EXCEPT !.attempts = row.attempts + 1]
             given == tried.attempts >= MaxInboxAttempts
  <1>1. tried \in InboxRow /\ tried.from = row.from
    BY DEF InboxRow
  <1>2. given \in BOOLEAN
    OBVIOUS
  <1>3. GivenBack(row) = [tried EXCEPT !.dispatched = given]
    BY DEF GivenBack
  <1> HIDE DEF tried, given
  <1> QED
    BY <1>1, <1>2, <1>3 DEF InboxRow

LEMMA DispatchFailedKeeps ==
  ASSUME ReceiverInv, todo \in [Tasks -> SUBSET DOMAIN inbox],
         NEW p \in Tasks, NEW i \in todo[p], DispatchFailed(p, i)
  PROVE  ReceiverInv' /\ UNCHANGED INTAKE!vars
  <1>1. i \in DOMAIN inbox /\ inbox[i] \in InboxRow
    BY DEF ReceiverInv
  <1>2. GivenBack(inbox[i]) \in InboxRow /\ GivenBack(inbox[i]).from = inbox[i].from
    BY <1>1, FailedRow
  <1>3. inbox' = [inbox EXCEPT ![i] = GivenBack(inbox[i])]
    BY DEF DispatchFailed
  <1> QED
    BY <1>1, <1>2, <1>3, OutcomeOnly DEF DispatchFailed

(* The drain *)

Done(i) == i \in DOMAIN inbox /\ inbox[i].dispatched

\* Only the tick in its drain has rows in hand; they are not done with, and a
\* row whose handler returned is one of them until it is marked.  A handler that
\* returned more than once cost a mishap each further time.
DrainInv ==
    /\ mishaps \in Nat
    /\ served \in [RowIds -> Nat]
    /\ todo \in [Tasks -> SUBSET DOMAIN inbox]
    /\ \A p \in Tasks : todo[p] # {} => at[p] = "drain"
    /\ \A p \in Tasks : \A i \in todo[p] : ~Done(i)
    /\ \A i \in handled : \E p \in Tasks : i \in todo[p]
    /\ \A i \in RowIds : \/ served[i] <= mishaps
                         \/ (Done(i) \/ i \in handled) /\ served[i] <= mishaps + 1

ServiceInv == LockInv /\ ReceiverInv /\ DrainInv

LEMMA ServiceInitInv == Init => ServiceInv
  <1> SUFFICES ASSUME Init PROVE ServiceInv
    OBVIOUS
  <1>1. LockInv /\ ReceiverInv
    BY LockInitInv, ReceiverInitInv DEF Init
  <1>2. DrainInv
    BY DEF Init, DrainInv, ReceiverInit
  <1> QED
    BY <1>1, <1>2 DEF ServiceInv

\* Rows are added at the end of the inbox; those in it stay as they are.
LEMMA ReceiveKeepsRows ==
  ASSUME ReceiverInv, Receive
  PROVE  /\ DOMAIN inbox \subseteq DOMAIN inbox'
         /\ \A i \in DOMAIN inbox : inbox'[i] = inbox[i]
  <1>1. inbox \in Seq(InboxRow)
    BY DEF ReceiverInv
  <1>2. CASE UNCHANGED inbox
    BY <1>2
  <1>3. ASSUME NEW row, inbox' = Append(inbox, row)
        PROVE  /\ DOMAIN inbox \subseteq DOMAIN inbox'
               /\ \A i \in DOMAIN inbox : inbox'[i] = inbox[i]
    BY <1>1, <1>3
  <1> QED
    BY <1>2, <1>3 DEF Receive, Record, PassOver, EnqueueIntent, ForceRegister

LEMMA DeliveryKeepsDrain ==
  ASSUME ServiceInv, Delivery
  PROVE  DrainInv'
  <1>1. /\ UNCHANGED <<mishaps, served, todo, at, handled>>
        /\ DOMAIN inbox \subseteq DOMAIN inbox'
        /\ \A i \in DOMAIN inbox : inbox'[i] = inbox[i]
    BY ReceiveKeepsRows DEF Delivery, lockVars, ServiceInv
  <1>2. \A i : Done(i) => Done(i)'
    BY <1>1 DEF Done
  <1>3. \A i \in DOMAIN inbox : Done(i)' <=> Done(i)
    BY <1>1 DEF Done
  <1> QED
    BY <1>1, <1>2, <1>3 DEF ServiceInv, DrainInv

\* What was read is pending, and nobody else has rows in hand.
LEMMA TickBeginsKeepsDrain ==
  ASSUME ServiceInv, NEW p \in Tasks, TickBegins(p)
  PROVE  DrainInv'
  <1>1. todo[p] = {} /\ at[p] # "drain" /\ at \in [Tasks -> Passes \cup {"out", "waiting"}]
    <2>1. at[p] # "drain"
      <3>1. CASE Call(p)
        BY <3>1 DEF Call
      <3>2. CASE Wake(p)
        BY <3>2 DEF Wake, ServiceInv, LockInv, InTick, Passes
      <3> QED
        BY <3>1, <3>2 DEF TickBegins
    <2> QED
      BY <2>1 DEF ServiceInv, DrainInv, LockInv
  <1>2. \A q \in Tasks : q # p => at'[q] = at[q]
    BY <1>1 DEF TickBegins, Call, Wake, Enter
  <1>3. UNCHANGED <<mishaps, served, handled, inbox>>
    BY DEF TickBegins, receiverVars
  <1>4. \A i : Done(i)' <=> Done(i)
    BY <1>3 DEF Done
  <1>5. PendingInbox \subseteq DOMAIN inbox /\ \A i \in PendingInbox : ~Done(i)
    BY DEF PendingInbox, Pending, Done
  <1>6. CASE at'[p] = "drain"
    <2>1. todo' = [todo EXCEPT ![p] = PendingInbox]
      BY <1>6 DEF TickBegins
    <2>2. /\ todo' \in [Tasks -> SUBSET DOMAIN inbox] /\ todo'[p] = PendingInbox
          /\ \A q \in Tasks : q # p => todo'[q] = todo[q]
      BY <1>5, <2>1 DEF ServiceInv, DrainInv
    <2>3. \A i \in handled : \E q \in Tasks : i \in todo'[q]
      BY <1>1, <2>2 DEF ServiceInv, DrainInv
    <2> QED
      BY <1>2, <1>3, <1>4, <1>5, <1>6, <2>2, <2>3 DEF ServiceInv, DrainInv
  <1>7. CASE at'[p] # "drain"
    <2>1. todo' = todo
      BY <1>7 DEF TickBegins
    <2> QED
      BY <1>1, <1>2, <1>3, <1>4, <2>1 DEF ServiceInv, DrainInv
  <1> QED
    BY <1>6, <1>7

LEMMA HandleKeepsDrain ==
  ASSUME ServiceInv, NEW p \in Tasks, NEW i \in todo[p], Handle(p, i)
  PROVE  DrainInv'
  <1>1. /\ UNCHANGED <<mishaps, todo, at, inbox>>
        /\ handled' = handled \cup {i} /\ i \notin handled
        /\ served' = [served EXCEPT ![i] = @ + 1]
    BY DEF Handle, receiverVars, lockVars
  <1>2. \A j : Done(j)' <=> Done(j)
    BY <1>1 DEF Done
  <1>3. ~Done(i)
    BY DEF ServiceInv, DrainInv
  <1>4. served' \in [RowIds -> Nat]
    <2>1. served \in [RowIds -> Nat]
      BY DEF ServiceInv, DrainInv
    <2>2. i \in RowIds => served[i] + 1 \in Nat
      BY <2>1
    <2> QED
      BY <1>1, <2>1, <2>2
  <1>5. ASSUME NEW j \in RowIds
        PROVE  \/ served'[j] <= mishaps
               \/ (Done(j) \/ j \in handled') /\ served'[j] <= mishaps + 1
    <2>1. mishaps \in Nat /\ served[j] \in Nat
      BY DEF ServiceInv, DrainInv
    <2>2. CASE j = i
      <3>1. served[i] <= mishaps
        BY <1>1, <1>3, <1>5, <2>2 DEF ServiceInv, DrainInv
      <3>2. served'[i] = served[i] + 1
        BY <1>1, <1>5, <2>2 DEF ServiceInv, DrainInv
      <3> QED
        BY <1>1, <2>1, <2>2, <3>1, <3>2
    <2>3. CASE j # i
      BY <1>1, <2>3 DEF ServiceInv, DrainInv
    <2> QED
      BY <2>2, <2>3
  <1>6. \A j \in handled' : \E q \in Tasks : j \in todo[q]
    BY <1>1 DEF ServiceInv, DrainInv
  <1> QED
    BY <1>1, <1>2, <1>4, <1>5, <1>6 DEF ServiceInv, DrainInv

\* The row in hand of one tick is in the hand of no other.
LEMMA RowIsHeldAlone ==
  ASSUME ServiceInv, NEW p \in Tasks, NEW i \in todo[p]
  PROVE  /\ at[p] = "drain" /\ i \in DOMAIN inbox
         /\ \A q \in Tasks : todo[q] # {} => q = p
  BY DEF ServiceInv, LockInv, DrainInv, InTick, Passes

LEMMA DispatchedKeepsDrain ==
  ASSUME ServiceInv, NEW p \in Tasks, NEW i \in todo[p], Dispatched(p, i)
  PROVE  DrainInv'
  <1>1. /\ UNCHANGED <<mishaps, served, at>>
        /\ handled' = handled \ {i}
        /\ inbox' = [inbox EXCEPT ![i].dispatched = TRUE]
        /\ todo' = [todo EXCEPT ![p] = @ \ {i}]
    BY DEF Dispatched, lockVars
  <1>2. inbox \in Seq(InboxRow) /\ todo \in [Tasks -> SUBSET DOMAIN inbox]
    BY DEF ServiceInv, ReceiverInv, DrainInv
  <1>3. i \in DOMAIN inbox /\ inbox[i] \in InboxRow
    BY <1>2
  <1>4. DOMAIN inbox' = DOMAIN inbox /\ \A j \in DOMAIN inbox : j # i => inbox'[j] = inbox[j]
    BY <1>1, <1>2
  <1>5. inbox'[i].dispatched
    <2>1. inbox'[i] = [inbox[i] EXCEPT !.dispatched = TRUE]
      BY <1>1, <1>2, <1>3
    <2> QED
      BY <1>3, <2>1 DEF InboxRow
  <1>6. Done(i)' /\ \A j : j # i => (Done(j)' <=> Done(j))
    BY <1>3, <1>4, <1>5 DEF Done
  <1>7. /\ todo' \in [Tasks -> SUBSET DOMAIN inbox] /\ todo'[p] = todo[p] \ {i}
        /\ \A q \in Tasks : q # p => todo'[q] = todo[q]
    BY <1>1, <1>2
  <1>8. \A q \in Tasks : i \notin todo'[q] /\ todo'[q] \subseteq todo[q]
    BY <1>7, RowIsHeldAlone
  <1>9. \A j \in handled' : \E q \in Tasks : j \in todo'[q]
    BY <1>1, <1>7 DEF ServiceInv, DrainInv
  <1>10. ASSUME NEW j \in RowIds
         PROVE  \/ served[j] <= mishaps
                \/ (Done(j)' \/ j \in handled') /\ served[j] <= mishaps + 1
    BY <1>1, <1>6 DEF ServiceInv, DrainInv
  <1>11. /\ \A q \in Tasks : todo'[q] # {} => at'[q] = "drain"
         /\ \A q \in Tasks : \A j \in todo'[q] : ~Done(j)'
    BY <1>1, <1>6, <1>8 DEF ServiceInv, DrainInv
  <1> QED
    BY <1>1, <1>4, <1>7, <1>9, <1>10, <1>11 DEF ServiceInv, DrainInv

\* A mishap allows every row another go.
LEMMA MishapAllows ==
  ASSUME ServiceInv, mishaps' = mishaps + 1, served' = served
  PROVE  /\ mishaps' \in Nat
         /\ \A j \in RowIds : served'[j] <= mishaps'
  <1>1. mishaps \in Nat /\ \A j \in RowIds : served[j] \in Nat
    BY DEF ServiceInv, DrainInv
  <1>2. \A j \in RowIds : served[j] <= mishaps + 1
    BY <1>1 DEF ServiceInv, DrainInv
  <1> QED
    BY <1>1, <1>2

LEMMA DispatchFailedKeepsDrain ==
  ASSUME ServiceInv, NEW p \in Tasks, NEW i \in todo[p], DispatchFailed(p, i)
  PROVE  DrainInv'
  <1>1. /\ UNCHANGED <<served, at, handled>> /\ i \notin handled
        /\ mishaps' = mishaps + 1
        /\ inbox' = [inbox EXCEPT ![i] = GivenBack(@)]
        /\ todo' = [todo EXCEPT ![p] = @ \ {i}]
    BY DEF DispatchFailed, lockVars
  <1>2. inbox \in Seq(InboxRow) /\ todo \in [Tasks -> SUBSET DOMAIN inbox]
    BY DEF ServiceInv, ReceiverInv, DrainInv
  <1>3. DOMAIN inbox' = DOMAIN inbox /\ \A j \in DOMAIN inbox : j # i => inbox'[j] = inbox[j]
    BY <1>1, <1>2
  <1>4. \A j : j # i => (Done(j)' <=> Done(j))
    BY <1>3 DEF Done
  <1>5. /\ todo' \in [Tasks -> SUBSET DOMAIN inbox] /\ todo'[p] = todo[p] \ {i}
        /\ \A q \in Tasks : q # p => todo'[q] = todo[q]
    BY <1>1, <1>2
  <1>6. \A q \in Tasks : i \notin todo'[q] /\ todo'[q] \subseteq todo[q]
    BY <1>5, RowIsHeldAlone
  <1>7. \A j \in handled' : \E q \in Tasks : j \in todo'[q]
    BY <1>1, <1>5 DEF ServiceInv, DrainInv
  <1>8. /\ \A q \in Tasks : todo'[q] # {} => at'[q] = "drain"
        /\ \A q \in Tasks : \A j \in todo'[q] : ~Done(j)'
    BY <1>1, <1>4, <1>6 DEF ServiceInv, DrainInv
  <1> QED
    BY <1>1, <1>3, <1>5, <1>7, <1>8, MishapAllows DEF ServiceInv, DrainInv

\* A pass that ends has no rows in hand, and takes none.
LEMMA PassKeepsDrain ==
  ASSUME ServiceInv, NEW p \in Tasks, Resync(p) \/ PassDone(p)
  PROVE  DrainInv'
  <1>1. UNCHANGED <<served, todo, handled, inbox>> /\ PassEnds(p) /\ todo[p] = {}
    BY DEF Resync, PassDone, receiverVars, ServiceInv, DrainInv
  <1>2. \A q \in Tasks : todo[q] # {} => at'[q] = at[q]
    BY <1>1 DEF PassEnds, Leave, ServiceInv, LockInv
  <1>3. \A i : Done(i)' <=> Done(i)
    BY <1>1 DEF Done
  <1>4. mishaps' \in Nat /\ mishaps <= mishaps'
    BY DEF Resync, PassDone, ServiceInv, DrainInv
  <1>5. \A j \in RowIds : \/ served[j] <= mishaps'
                          \/ (Done(j)' \/ j \in handled') /\ served[j] <= mishaps' + 1
    <2>1. mishaps \in Nat /\ \A j \in RowIds : served[j] \in Nat
      BY DEF ServiceInv, DrainInv
    <2> QED
      BY <1>1, <1>3, <1>4, <2>1 DEF ServiceInv, DrainInv
  <1> QED
    BY <1>1, <1>2, <1>3, <1>4, <1>5 DEF ServiceInv, DrainInv

LEMMA TickBreaksOffKeepsDrain ==
  ASSUME ServiceInv, NEW p \in Tasks, TickBreaksOff(p)
  PROVE  DrainInv'
  <1>1. /\ UNCHANGED <<served, inbox>> /\ mishaps' = mishaps + 1
        /\ InTick(p) /\ Leave(p)
        /\ todo' = [todo EXCEPT ![p] = {}] /\ handled' = handled \ todo[p]
    BY DEF TickBreaksOff, TickRaises, receiverVars
  <1>2. \A q \in Tasks : todo[q] # {} => q = p
    BY <1>1 DEF ServiceInv, DrainInv, LockInv, InTick, Passes
  <1>3. todo' \in [Tasks -> SUBSET DOMAIN inbox] /\ \A q \in Tasks : todo'[q] = {}
    BY <1>1, <1>2 DEF ServiceInv, DrainInv
  <1>4. handled' = {}
    BY <1>1, <1>2 DEF ServiceInv, DrainInv
  <1> QED
    BY <1>1, <1>3, <1>4, MishapAllows DEF ServiceInv, DrainInv

LEMMA CrashKeepsDrain ==
  ASSUME ServiceInv, Crash
  PROVE  DrainInv'
  <1>1. UNCHANGED <<served, inbox>> /\ mishaps' = mishaps + 1
    BY DEF Crash, ReceiverRestarts
  <1>2. todo' \in [Tasks -> SUBSET DOMAIN inbox] /\ \A q \in Tasks : todo'[q] = {}
    BY DEF Crash
  <1>3. handled' = {}
    BY DEF Crash
  <1> QED
    BY <1>1, <1>2, <1>3, MishapAllows DEF ServiceInv, DrainInv

LEMMA IdleKeepsDrain ==
  ASSUME ServiceInv, UNCHANGED <<mishaps, served, todo, handled, at, inbox>>
  PROVE  DrainInv'
  BY DEF ServiceInv, DrainInv, Done

(* All together *)

LEMMA ServiceKeepsIntake ==
  ASSUME ServiceInv, [Next]_serviceVars
  PROVE  ReceiverInv' /\ [INTAKE!Next]_INTAKE!vars
  <1>1. ReceiverInv /\ todo \in [Tasks -> SUBSET DOMAIN inbox]
    BY DEF ServiceInv, DrainInv
  <1>2. CASE [ReceiverNext]_receiverVars
    BY <1>1, <1>2, ReceiverInvKept, IntakeGoesOn
  <1>3. ASSUME NEW p \in Tasks, NEW i \in todo[p], Dispatched(p, i) \/ DispatchFailed(p, i)
        PROVE  ReceiverInv' /\ UNCHANGED INTAKE!vars
    BY <1>1, <1>3, DispatchedKeeps, DispatchFailedKeeps
  <1>4. ASSUME NEW p \in Tasks, TickBegins(p) \/ TickSteps(p)
        PROVE  \/ UNCHANGED receiverVars
               \/ \E i \in todo[p] : Dispatched(p, i) \/ DispatchFailed(p, i)
    BY <1>4 DEF TickBegins, TickSteps, Handle, Resync, PassDone, TickBreaksOff
  <1>5. ASSUME NEW n \in LabelNumbers, LabelApplied(n) PROVE UNCHANGED receiverVars
    BY <1>5 DEF LabelApplied
  <1>6. CASE Delivery
    BY <1>2, <1>6 DEF Delivery, ReceiverNext
  <1>7. CASE Crash
    BY <1>2, <1>7 DEF Crash, ReceiverNext
  <1>8. CASE UNCHANGED serviceVars
    BY <1>2, <1>8 DEF serviceVars
  <1> QED
    BY <1>2, <1>3, <1>4, <1>5, <1>6, <1>7, <1>8 DEF Next

LEMMA ServiceKeepsDrain ==
  ASSUME ServiceInv, [Next]_serviceVars
  PROVE  DrainInv'
  <1>1. ASSUME NEW n \in LabelNumbers, LabelApplied(n) PROVE DrainInv'
    BY <1>1, IdleKeepsDrain DEF LabelApplied, receiverVars, lockVars
  <1>2. CASE Delivery
    BY <1>2, DeliveryKeepsDrain
  <1>3. ASSUME NEW p \in Tasks, TickBegins(p) PROVE DrainInv'
    BY <1>3, TickBeginsKeepsDrain
  <1>4. ASSUME NEW p \in Tasks, TickSteps(p) PROVE DrainInv'
    BY <1>4, HandleKeepsDrain, DispatchedKeepsDrain, DispatchFailedKeepsDrain,
       PassKeepsDrain, TickBreaksOffKeepsDrain DEF TickSteps
  <1>5. CASE Crash
    BY <1>5, CrashKeepsDrain
  <1>6. CASE UNCHANGED serviceVars
    BY <1>6, IdleKeepsDrain DEF serviceVars, receiverVars, lockVars
  <1> QED
    BY <1>1, <1>2, <1>3, <1>4, <1>5, <1>6 DEF Next

LEMMA ServiceInvHolds == Spec => []ServiceInv
  <1>1. ServiceInv /\ LockInv' /\ [Next]_serviceVars => ServiceInv'
    BY ServiceKeepsIntake, ServiceKeepsDrain DEF ServiceInv
  <1> QED
    BY ServiceInitInv, ServiceHasLock, LockInvHolds, <1>1, PTL DEF Spec

\* In the whole process an event is enqueued at most once, whole, and a row is
\* never lost or moved, whatever ticks and crashes come in between.
THEOREM ServiceIntake == Spec => IntakeSpec
  <1>1. Init => INTAKE!Init
    BY IntakeBegins DEF Init
  <1>2. ServiceInv /\ [Next]_serviceVars => [INTAKE!Next]_INTAKE!vars
    BY ServiceKeepsIntake
  <1> QED
    BY ServiceInvHolds, <1>1, <1>2, PTL DEF Spec, IntakeSpec, INTAKE!Spec

\* The service's own comments stay out of the inbox of the whole process.
THEOREM ServiceKeepsOwnTextOut == Spec => []OwnTextStaysOut
  <1>1. ServiceInv => OwnTextStaysOut
    BY NoOwnText DEF ServiceInv
  <1> QED
    BY ServiceInvHolds, <1>1, PTL

\* The handler of a row runs to its end once, and once more for each mishap at
\* most: no two ticks ever serve the same row.
THEOREM RowsServedOnce == Spec => []RowServedOnce
  <1>1. ServiceInv => RowServedOnce
    <2> SUFFICES ASSUME ServiceInv, NEW i \in RowIds PROVE served[i] <= 1 + mishaps
      BY DEF RowServedOnce
    <2>1. mishaps \in Nat /\ served[i] \in Nat
      BY DEF ServiceInv, DrainInv
    <2>2. served[i] <= mishaps \/ served[i] <= mishaps + 1
      BY DEF ServiceInv, DrainInv
    <2> QED
      BY <2>1, <2>2
  <1> QED
    BY ServiceInvHolds, <1>1, PTL
=============================================================================
