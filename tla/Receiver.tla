------------------------------ MODULE Receiver ------------------------------
(***************************************************************************)
(* app/webhooks/router.py and the part of app/main.py that feeds the       *)
(* inbox: a delivery is verified, recorded, translated and enqueued.       *)
(* There is no await between the record and the enqueueing, so nothing of  *)
(* the service runs in between, but they are two commits: the process may  *)
(* die there.                                                              *)
(*                                                                         *)
(* A payload, besides what Handlers reads of it, says whether its body     *)
(* fits (MAX_BODY_BYTES), is JSON, and whose repository it is about.       *)
(* Equal payloads are equal bodies, hence equal hashes.  A refused request *)
(* leaves nothing but a counter of the dashboard, and is left out.         *)
(***************************************************************************)
EXTENDS Handlers

CONSTANTS
    Payloads,       \* the events GitHub may deliver
    Requests,       \* the requests that may reach the endpoint, again and again
    Self,           \* the login the service writes as
    IdentityMayFail,\* whoami may raise as the process starts
    Numbers,        \* issues the operator may register by hand
    MaxForced       \* bound: how often they do

\* The source of a row the operator asked for.
NoPayload == [event |-> None, action |-> None, label |-> None, number |-> 0,
              author |-> [login |-> None, type |-> None, association |-> None],
              text |-> FALSE, comment |-> 0, conclusion |-> None, sha |-> None,
              pulls |-> <<>>, fits |-> TRUE, json |-> TRUE, repo |-> None]

ASSUME ReceiverAssumption ==
    /\ NoPayload \notin Payloads
    /\ \A r \in Requests : r.body \in Payloads /\ r.signed \in BOOLEAN
    /\ Self # None
    /\ MaxForced \in Nat

VARIABLES
    own,        \* app.state.own_login
    deliveries, \* the deliveries table
    receiving,  \* the payload recorded but not enqueued yet, in a set, if any
    inbox       \* the inbox table, in the order of its ids

receiverVars == <<own, deliveries, receiving, inbox>>

\* SELF_LOGIN or whoami; None when neither answered.
Identities == IF IdentityMayFail THEN {Self, None} ELSE {Self}

ReceiverInit ==
    /\ own \in Identities
    /\ deliveries = {} /\ receiving = {} /\ inbox = <<>>

-----------------------------------------------------------------------------
\* The guards before the record, in whatever order they refuse.
Admitted(r) ==
    /\ r.body.fits
    /\ r.signed
    /\ r.guid # None
    /\ r.body.event # "ping"
    /\ r.body.json

\* A mutant: only the GUID is compared.
IsNewByGuid(r) == \A d \in deliveries : d.guid # r.guid

\* record_delivery: new by the GUID and by the body.
IsNew(r) == \A d \in deliveries : d.guid # r.guid /\ d.body # r.body

Record(r) ==
    /\ receiving = {}
    /\ Admitted(r) /\ IsNew(r)
    /\ deliveries' = deliveries \cup {[guid |-> r.guid, body |-> r.body]}
    /\ receiving' = {r.body}
    /\ UNCHANGED <<own, inbox>>

\* An event of another repository is ignored; one that names none is not.
IsWanted(p) == p.repo \in {"ours", None} /\ ToIntent(p, own).kind # None

\* from is history: where the row came from.
Row(intent, from) ==
    [intent |-> intent, from |-> from, attempts |-> 0, dispatched |-> FALSE]

PassOver(p) ==
    /\ p \in receiving /\ ~IsWanted(p)
    /\ receiving' = {}
    /\ UNCHANGED <<own, deliveries, inbox>>

EnqueueIntent(p) ==
    /\ p \in receiving /\ IsWanted(p)
    /\ inbox' = Append(inbox, Row(ToIntent(p, own), p))
    /\ receiving' = {}
    /\ UNCHANGED <<own, deliveries>>

\* POST /api/admin/issues/{number}, for an operator with the token.
ForcedRows == {i \in DOMAIN inbox : inbox[i].from = NoPayload}

ForceRegister(n) ==
    /\ receiving = {}
    /\ Cardinality(ForcedRows) < MaxForced
    /\ inbox' = Append(inbox, Row(Intent("issue_labeled", n), NoPayload))
    /\ UNCHANGED <<own, deliveries, receiving>>

\* The process dies, in the middle of a delivery or not, and comes back.
ReceiverRestarts ==
    /\ receiving' = {}
    /\ own' \in Identities
    /\ UNCHANGED <<deliveries, inbox>>

Receive ==
    \/ \E r \in Requests : Record(r)
    \/ \E p \in Payloads : PassOver(p) \/ EnqueueIntent(p)
    \/ \E n \in Numbers : ForceRegister(n)

ReceiverNext == Receive \/ ReceiverRestarts

ReceiverSpec == ReceiverInit /\ [][ReceiverNext]_receiverVars

-----------------------------------------------------------------------------
\* The service's own comments never come back as a person's answer, although it
\* may come up without knowing its login (handlers.py:32-50, main.py:89-103).
OwnTextStaysOut ==
    \A i \in DOMAIN inbox : inbox[i].intent.author # Self

(* The receiver implements the intake. *)

Recorded == {d.body : d \in deliveries}
Sources == [i \in DOMAIN inbox |-> inbox[i].from]

INTAKE == INSTANCE Intake WITH
            Events <- Payloads, Operator <- NoPayload,
            queue <- Sources, seen <- Recorded \ receiving

\* Whatever is redelivered, repeated under another GUID or interrupted by a
\* restart, an event is enqueued at most once and no row is lost or moved: what
\* Orchestrator's Arrive takes for granted (router.py:75-103, repo.py:114-133).
IntakeSpec == INTAKE!Spec
=============================================================================
