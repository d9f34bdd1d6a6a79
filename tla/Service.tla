------------------------------- MODULE Service -------------------------------
(***************************************************************************)
(* The process of app/main.py: the webhook receiver and the reconcile loop *)
(* share an event loop and a database, and the operator's endpoint runs    *)
(* ticks of its own.  Composes Receiver and TickLock over the inbox, and   *)
(* follows what becomes of an event: the drain reads the pending rows as   *)
(* its pass begins and takes them one by one, awaiting in between; resync  *)
(* registers the labelled issues nobody heard of.  What the handlers do is *)
(* in Orchestrator; here they only succeed or raise.                       *)
(***************************************************************************)
EXTENDS Receiver, TickLock

CONSTANTS
    InboxLimit,     \* the limit of pending_inbox
    MaxMishaps      \* bound: crashes, and handlers, listings and ticks that raise

ASSUME ServiceAssumption ==
    InboxLimit \in Nat \ {0} /\ MaxMishaps \in Nat

VARIABLES
    labelled,   \* GitHub: the open issues that carry the trigger label
    known,      \* the issues table
    todo,       \* the rows each drain read and has not finished with
    handled,    \* the rows whose handler returned and which are not marked yet
    served,     \* history: how often the handler of a row returned
    mishaps     \* how much went wrong so far

serviceVars == <<receiverVars, lockVars, labelled, known, todo, handled, served,
                 mishaps>>

Labels(p) == ToIntent(p, Self).kind = "issue_labeled"
LabelNumbers == {p.number : p \in {q \in Payloads : Labels(q)}} \cup Numbers
RowIds == 1..(Cardinality(Payloads) + MaxForced)

Init ==
    /\ ReceiverInit /\ LockInit
    /\ labelled = {} /\ known = {}
    /\ todo = [p \in Tasks |-> {}] /\ handled = {}
    /\ served = [i \in RowIds |-> 0]
    /\ mishaps = 0

-----------------------------------------------------------------------------
(* GitHub and the receiver.  The event loop runs one step at a time, so the *)
(* loop does not move while a delivery is between its two commits.          *)

LabelApplied(n) ==
    /\ n \notin labelled
    /\ labelled' = labelled \cup {n}
    /\ UNCHANGED <<receiverVars, lockVars, known, todo, handled, served, mishaps>>

\* An event is delivered after it happened; GitHub may never deliver it.
Delivery ==
    /\ Receive
    /\ \A p \in receiving' : Labels(p) => p.number \in labelled
    /\ UNCHANGED <<lockVars, labelled, known, todo, handled, served, mishaps>>

LoopMayRun == receiving = {}

-----------------------------------------------------------------------------
(* The drain *)

\* A mutant: a row that failed is not read again.
PendingFresh == {i \in DOMAIN inbox : ~inbox[i].dispatched /\ inbox[i].attempts = 0}

Pending == {i \in DOMAIN inbox : ~inbox[i].dispatched}

\* pending_inbox: the oldest rows.
PendingInbox ==
    {i \in Pending : Cardinality({j \in Pending : j < i}) < InboxLimit}

\* The tick enters the lock and reads the inbox with no await in between.
TickBegins(p) ==
    /\ LoopMayRun
    /\ Call(p) \/ Wake(p)
    /\ todo' = IF at'[p] = "drain" THEN [todo EXCEPT ![p] = PendingInbox] ELSE todo
    /\ UNCHANGED <<receiverVars, labelled, known, handled, served, mishaps>>

\* The drain is at this row: the oldest of those it read and has not done.
IsAt(p, i) ==
    /\ LoopMayRun
    /\ at[p] = "drain"
    /\ i \in todo[p] /\ \A j \in todo[p] : i <= j

\* The handler returns; get_issue confirmed the label of an issue_labeled row.
Handle(p, i) ==
    /\ IsAt(p, i) /\ i \notin handled
    /\ handled' = handled \cup {i}
    /\ served' = [served EXCEPT ![i] = @ + 1]
    /\ known' = IF inbox[i].intent.kind = "issue_labeled"
                THEN known \cup ({inbox[i].intent.number} \cap labelled)
                ELSE known
    /\ UNCHANGED <<receiverVars, lockVars, labelled, todo, mishaps>>

\* mark_dispatched.
Dispatched(p, i) ==
    /\ IsAt(p, i) /\ i \in handled
    /\ inbox' = [inbox EXCEPT ![i].dispatched = TRUE]
    /\ todo' = [todo EXCEPT ![p] = @ \ {i}]
    /\ handled' = handled \ {i}
    /\ UNCHANGED <<own, deliveries, receiving, lockVars, labelled, known, served,
                   mishaps>>

MaxInboxAttempts == 3

\* record_inbox_failure: the third failure gives the row up, aloud.
GivenBack(row) ==
    LET tried == [row EXCEPT !.attempts = @ + 1]
    IN  [tried EXCEPT !.dispatched = tried.attempts >= MaxInboxAttempts]

DispatchFailed(p, i) ==
    /\ IsAt(p, i) /\ i \notin handled
    /\ mishaps < MaxMishaps /\ mishaps' = mishaps + 1
    /\ inbox' = [inbox EXCEPT ![i] = GivenBack(@)]
    /\ todo' = [todo EXCEPT ![p] = @ \ {i}]
    /\ UNCHANGED <<own, deliveries, receiving, lockVars, labelled, known, handled,
                   served>>

-----------------------------------------------------------------------------
(* The other passes *)

\* A mutant: an issue whose event was delivered is not looked at again.
MissedUndelivered ==
    {n \in labelled \ known : \A d \in deliveries : d.body.number # n}

\* resync: labelled, and not in the issues table.
Missed == labelled \ known

\* The listing or a fetch may raise; what was not registered stays missed.
Resync(p) ==
    /\ LoopMayRun /\ at[p] = "resync"
    /\ PassEnds(p)
    /\ \/ known' = known \cup Missed /\ UNCHANGED mishaps
       \/ /\ mishaps < MaxMishaps /\ mishaps' = mishaps + 1
          /\ \E found \in SUBSET Missed : known' = known \cup found
    /\ UNCHANGED <<receiverVars, labelled, todo, handled, served>>

PassDone(p) ==
    /\ LoopMayRun /\ at[p] # "resync"
    /\ at[p] = "drain" => todo[p] = {}
    /\ PassEnds(p)
    /\ UNCHANGED <<receiverVars, labelled, known, todo, handled, served, mishaps>>

TickBreaksOff(p) ==
    /\ LoopMayRun /\ mishaps < MaxMishaps
    /\ TickRaises(p)
    /\ mishaps' = mishaps + 1
    /\ todo' = [todo EXCEPT ![p] = {}]
    /\ handled' = handled \ todo[p]
    /\ UNCHANGED <<receiverVars, labelled, known, served>>

\* The process dies anywhere; the tables are what comes back.
Crash ==
    /\ mishaps < MaxMishaps
    /\ mishaps' = mishaps + 1
    /\ ReceiverRestarts /\ LockRestarts
    /\ todo' = [p \in Tasks |-> {}] /\ handled' = {}
    /\ UNCHANGED <<labelled, known, served>>

-----------------------------------------------------------------------------
TickSteps(p) ==
    \/ \E i \in todo[p] : Handle(p, i) \/ Dispatched(p, i) \/ DispatchFailed(p, i)
    \/ Resync(p) \/ PassDone(p) \/ TickBreaksOff(p)

Next ==
    \/ \E n \in LabelNumbers : LabelApplied(n)
    \/ Delivery
    \/ \E p \in Tasks : TickBegins(p) \/ TickSteps(p)
    \/ Crash

\* A delivery under way is finished; the loop sleeps and ticks again; a task that
\* is woken runs; a pass ends, as every call of it has a time limit.  Nothing is
\* assumed of GitHub or of the operator, who may call without end.
Fairness ==
    /\ WF_serviceVars(Delivery /\ receiving' = {})
    /\ WF_serviceVars(TickBegins(Loop))
    /\ \A p \in Tasks :
          /\ WF_serviceVars(Wake(p) /\ TickBegins(p))
          /\ WF_serviceVars(TickSteps(p))

Spec == Init /\ [][Next]_serviceVars /\ Fairness

-----------------------------------------------------------------------------
(* Properties *)

\* The handler of a row runs to its end once, or once more for a crash between
\* its return and the mark, or a mark that raises: two ticks never work on the
\* same row (orchestrator.py:146-158).
RowServedOnce == \A i \in RowIds : served[i] <= 1 + mishaps

\* A row of the inbox is done with in the end, by whichever tick reads it
\* (orchestrator.py:146-158).
RowIsSettled ==
    \A i \in RowIds :
        (i \in DOMAIN inbox) ~> (i \in DOMAIN inbox /\ inbox[i].dispatched)

\* "picks up anything that never arrived" (README.md:58), for an issue that is
\* not in the table: GitHub's event may be lost on the way, in a crash between
\* the two commits, or given up on; the issue is registered all the same.
LabelIsRecovered ==
    \A n \in LabelNumbers : (n \in labelled) ~> (n \in known)

\* The operator cannot starve the loop: those who wait for the lock get it in
\* their turn, so the loop's own ticks go on for ever.
LoopTicksAgain == []<>(at[Loop] = "drain")
=============================================================================
