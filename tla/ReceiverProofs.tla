--------------------------- MODULE ReceiverProofs ---------------------------
(***************************************************************************)
(* The webhook receiver, for any events and any requests: it implements    *)
(* the intake, and the service's own comments stay out of the inbox.       *)
(***************************************************************************)
EXTENDS Receiver, TLAPS

Logins == {Self, None}
Intents == {ToIntent(p, o) : p \in Payloads, o \in Logins}
               \cup {Intent("issue_labeled", n) : n \in Numbers}
InboxRow == [intent : Intents, from : Payloads \cup {NoPayload},
             attempts : Nat, dispatched : BOOLEAN]

\* What is between its two commits is recorded, and there is one at most.
ReceiverInv ==
    /\ own \in Logins
    /\ Recorded \subseteq Payloads
    /\ receiving \subseteq Recorded
    /\ \A p, q \in receiving : p = q
    /\ inbox \in Seq(InboxRow)

LEMMA RowTyped ==
  ASSUME NEW intent \in Intents, NEW p \in Payloads \cup {NoPayload}
  PROVE  Row(intent, p) \in InboxRow /\ Row(intent, p).from = p
  BY DEF Row, InboxRow

LEMMA AppendedSource ==
  ASSUME inbox \in Seq(InboxRow), NEW row \in InboxRow, inbox' = Append(inbox, row)
  PROVE  inbox' \in Seq(InboxRow) /\ Sources' = Append(Sources, row.from)
  <1>1. inbox' \in Seq(InboxRow) /\ Len(inbox') = Len(inbox) + 1
    OBVIOUS
  <1>2. Len(inbox) \in Nat /\ DOMAIN inbox = 1..Len(inbox)
    OBVIOUS
  <1>3. DOMAIN inbox' = 1..(Len(inbox) + 1)
    BY <1>1
  <1>4. \A i \in 1..(Len(inbox) + 1) :
            inbox'[i] = IF i <= Len(inbox) THEN inbox[i] ELSE row
    OBVIOUS
  <1>5. Sources' = [i \in 1..(Len(inbox) + 1) |->
                      IF i <= Len(inbox) THEN inbox[i].from ELSE row.from]
    BY <1>3, <1>4 DEF Sources
  <1>6. Sources \in Seq({inbox[i].from : i \in DOMAIN inbox}) /\ Len(Sources) = Len(inbox)
    BY <1>2 DEF Sources
  <1>7. Append(Sources, row.from) = [i \in 1..(Len(inbox) + 1) |->
                      IF i <= Len(inbox) THEN Sources[i] ELSE row.from]
    BY <1>6
  <1>8. \A i \in 1..(Len(inbox) + 1) : i <= Len(inbox) => Sources[i] = inbox[i].from
    BY <1>2 DEF Sources
  <1> QED
    BY <1>1, <1>5, <1>7, <1>8

LEMMA RecordedGrows ==
  ASSUME NEW r, deliveries' = deliveries \cup {[guid |-> r.guid, body |-> r.body]}
  PROVE  Recorded' = Recorded \cup {r.body}
  <1> DEFINE new == [guid |-> r.guid, body |-> r.body]
  <1>1. new.body = r.body
    OBVIOUS
  <1>2. deliveries' = deliveries \cup {new}
    OBVIOUS
  <1> HIDE DEF new
  <1> QED
    BY <1>1, <1>2 DEF Recorded

LEMMA IdentityKnown == Identities \subseteq Logins
  BY DEF Identities, Logins

LEMMA ReceiverInitInv == ReceiverInit => ReceiverInv
  <1> SUFFICES ASSUME ReceiverInit PROVE ReceiverInv
    OBVIOUS
  <1>1. Recorded = {}
    BY DEF ReceiverInit, Recorded
  <1>2. inbox \in Seq(InboxRow)
    BY DEF ReceiverInit
  <1> QED
    BY <1>1, <1>2, IdentityKnown DEF ReceiverInit, ReceiverInv

LEMMA ReceiverInvKept == ReceiverInv /\ [ReceiverNext]_receiverVars => ReceiverInv'
  <1> SUFFICES ASSUME ReceiverInv, [ReceiverNext]_receiverVars PROVE ReceiverInv'
    OBVIOUS
  <1>1. ASSUME NEW r \in Requests, Record(r) PROVE ReceiverInv'
    <2>1. Recorded' = Recorded \cup {r.body}
      BY <1>1, RecordedGrows DEF Record
    <2>2. r.body \in Payloads
      BY ReceiverAssumption
    <2> QED
      BY <1>1, <2>1, <2>2 DEF Record, ReceiverInv
  <1>2. ASSUME NEW p \in Payloads, PassOver(p) PROVE ReceiverInv'
    BY <1>2 DEF PassOver, ReceiverInv, Recorded
  <1>3. ASSUME NEW p \in Payloads, EnqueueIntent(p) PROVE ReceiverInv'
    <2>1. ToIntent(p, own) \in Intents
      BY DEF Intents, ReceiverInv
    <2>2. inbox' \in Seq(InboxRow)
      BY <1>3, <2>1, RowTyped, AppendedSource DEF EnqueueIntent, ReceiverInv
    <2> QED
      BY <1>3, <2>2 DEF EnqueueIntent, ReceiverInv, Recorded
  <1>4. ASSUME NEW n \in Numbers, ForceRegister(n) PROVE ReceiverInv'
    <2>1. Intent("issue_labeled", n) \in Intents
      BY DEF Intents
    <2>2. inbox' \in Seq(InboxRow)
      BY <1>4, <2>1, RowTyped, AppendedSource DEF ForceRegister, ReceiverInv
    <2> QED
      BY <1>4, <2>2 DEF ForceRegister, ReceiverInv, Recorded
  <1>5. CASE ReceiverRestarts
    BY <1>5, IdentityKnown DEF ReceiverRestarts, ReceiverInv, Recorded
  <1>6. CASE UNCHANGED receiverVars
    BY <1>6 DEF receiverVars, ReceiverInv, Recorded
  <1> QED
    BY <1>1, <1>2, <1>3, <1>4, <1>5, <1>6 DEF ReceiverNext, Receive

LEMMA ReceiverInvHolds == ReceiverSpec => []ReceiverInv
  BY ReceiverInitInv, ReceiverInvKept, PTL DEF ReceiverSpec

-----------------------------------------------------------------------------
(* The refinement *)

LEMMA OnlyOneReceived ==
  ASSUME ReceiverInv, NEW p \in receiving, receiving' = {}, deliveries' = deliveries
  PROVE  /\ p \in Payloads /\ p \notin Recorded \ receiving
         /\ (Recorded \ receiving)' = (Recorded \ receiving) \cup {p}
  BY DEF ReceiverInv, Recorded

LEMMA IntakeBegins == ReceiverInit => INTAKE!Init
  BY DEF ReceiverInit, INTAKE!Init, Sources, Recorded

LEMMA IntakeGoesOn ==
  ReceiverInv /\ [ReceiverNext]_receiverVars => [INTAKE!Next]_INTAKE!vars
  <1> SUFFICES ASSUME ReceiverInv, [ReceiverNext]_receiverVars
               PROVE  [INTAKE!Next]_INTAKE!vars
    OBVIOUS
  <1>1. ASSUME NEW r \in Requests, Record(r) PROVE UNCHANGED INTAKE!vars
    <2>1. Recorded' = Recorded \cup {r.body}
      BY <1>1, RecordedGrows DEF Record
    <2>2. r.body \notin Recorded
      BY <1>1 DEF Record, IsNew, Recorded
    <2>3. (Recorded \ receiving)' = Recorded \ receiving
      BY <1>1, <2>1, <2>2 DEF Record
    <2>4. Sources' = Sources
      BY <1>1 DEF Record, Sources
    <2> QED
      BY <2>3, <2>4 DEF INTAKE!vars
  <1>2. ASSUME NEW p \in Payloads, PassOver(p) PROVE INTAKE!Next
    <2>1. Sources' = Sources
      BY <1>2 DEF PassOver, Sources
    <2> QED
      BY <1>2, <2>1, OnlyOneReceived DEF PassOver, INTAKE!PassOver, INTAKE!Next
  <1>3. ASSUME NEW p \in Payloads, EnqueueIntent(p) PROVE INTAKE!Next
    <2>1. ToIntent(p, own) \in Intents
      BY DEF Intents, ReceiverInv
    <2>2. Sources' = Append(Sources, p)
      BY <1>3, <2>1, RowTyped, AppendedSource DEF EnqueueIntent, ReceiverInv
    <2> QED
      BY <1>3, <2>2, OnlyOneReceived DEF EnqueueIntent, INTAKE!Accept, INTAKE!Next
  <1>4. ASSUME NEW n \in Numbers, ForceRegister(n) PROVE INTAKE!Next
    <2>1. Intent("issue_labeled", n) \in Intents
      BY DEF Intents
    <2>2. Sources' = Append(Sources, NoPayload)
      BY <1>4, <2>1, RowTyped, AppendedSource DEF ForceRegister, ReceiverInv
    <2>3. (Recorded \ receiving)' = Recorded \ receiving
      BY <1>4 DEF ForceRegister, Recorded
    <2> QED
      BY <2>2, <2>3 DEF INTAKE!Request, INTAKE!Next
  <1>5. ASSUME ReceiverRestarts PROVE [INTAKE!Next]_INTAKE!vars
    <2>1. Sources' = Sources
      BY <1>5 DEF ReceiverRestarts, Sources
    <2>2. CASE receiving = {}
      <3>1. (Recorded \ receiving)' = Recorded \ receiving
        BY <1>5, <2>2 DEF ReceiverRestarts, Recorded
      <3> QED
        BY <2>1, <3>1 DEF INTAKE!vars
    <2>3. ASSUME NEW p \in receiving PROVE INTAKE!Next
      BY <1>5, <2>1, <2>3, OnlyOneReceived
         DEF ReceiverRestarts, INTAKE!PassOver, INTAKE!Next
    <2> QED
      BY <2>2, <2>3
  <1>6. CASE UNCHANGED receiverVars
    BY <1>6 DEF receiverVars, INTAKE!vars, Sources, Recorded
  <1> QED
    BY <1>1, <1>2, <1>3, <1>4, <1>5, <1>6 DEF ReceiverNext, Receive

\* An event is enqueued at most once, whole, and no row is lost or moved.
THEOREM IntakeImplemented == ReceiverSpec => IntakeSpec
  BY ReceiverInvHolds, IntakeBegins, IntakeGoesOn, PTL
     DEF ReceiverSpec, IntakeSpec, INTAKE!Spec

-----------------------------------------------------------------------------
(* The trust gate *)

\* Of a comment, and nothing else, the author is kept; and then it is somebody
\* the service knows not to be itself.
LEMMA AuthorIsTrusted ==
  ASSUME NEW p, NEW o \in Logins
  PROVE  ToIntent(p, o).author # Self
  <1>1. \A k, n : Intent(k, n).author = None /\ NoIntent.author = None
    BY DEF Intent, NoIntent
  <1>2. None # Self
    BY ReceiverAssumption
  <1>3. \A k : CommentIntent(k, p, o).author # Self
    <2> SUFFICES ASSUME NEW k PROVE CommentIntent(k, p, o).author # Self
      OBVIOUS
    <2>1. CASE CommentIntent(k, p, o) = NoIntent
      BY <1>1, <1>2, <2>1
    <2>2. CASE CommentIntent(k, p, o) # NoIntent
      <3>1. MayReachTheAgent(p.author, o)
        BY <2>2 DEF CommentIntent
      <3>2. p.author.login # Self
        BY <3>1 DEF MayReachTheAgent, Logins
      <3>3. CommentIntent(k, p, o) =
              [Intent(k, p.number) EXCEPT !.author = p.author.login, !.comment = p.comment]
        BY <2>2 DEF CommentIntent
      <3>4. CommentIntent(k, p, o).author = p.author.login
        BY <3>3 DEF Intent, NoIntent
      <3> QED
        BY <3>2, <3>4
    <2> QED
      BY <2>1, <2>2
  <1>4. IssuesIntent(p).author # Self
    BY <1>1, <1>2 DEF IssuesIntent
  <1>5. WorkflowRunIntent(p).author # Self
    <2>1. WorkflowRunIntent(p) = NoIntent
          \/ WorkflowRunIntent(p) = [Intent("ci_failed", Head(p.pulls)) EXCEPT !.sha = p.sha]
      BY DEF WorkflowRunIntent
    <2>2. [Intent("ci_failed", Head(p.pulls)) EXCEPT !.sha = p.sha].author = None
      BY DEF Intent, NoIntent
    <2> QED
      BY <1>1, <1>2, <2>1, <2>2
  <1>6. PullRequestIntent(p).author # Self
    BY <1>1, <1>2 DEF PullRequestIntent
  <1> QED
    BY <1>1, <1>2, <1>3, <1>4, <1>5, <1>6 DEF ToIntent

LEMMA NoOwnText == ReceiverInv => OwnTextStaysOut
  <1>1. \A intent \in Intents : intent.author # Self
    <2>1. \A n : Intent("issue_labeled", n).author = None
      BY DEF Intent, NoIntent
    <2>2. None # Self
      BY ReceiverAssumption
    <2> QED
      BY <2>1, <2>2, AuthorIsTrusted DEF Intents
  <1> SUFFICES ASSUME ReceiverInv, NEW i \in DOMAIN inbox
               PROVE  inbox[i].intent.author # Self
    BY DEF OwnTextStaysOut
  <1>2. inbox[i] \in InboxRow
    BY DEF ReceiverInv
  <1> QED
    BY <1>1, <1>2 DEF InboxRow

\* The service never takes its own comment for an answer, whether or not it
\* learnt its own login, and however often it restarts.
THEOREM OwnTextKeptOut == ReceiverSpec => []OwnTextStaysOut
  BY ReceiverInvHolds, NoOwnText, PTL
=============================================================================
