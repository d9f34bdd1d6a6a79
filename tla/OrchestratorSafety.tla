-------------------------- MODULE OrchestratorSafety --------------------------
(***************************************************************************)
(* The safety properties of the reconcile loop that TLAPS proves, for      *)
(* every value of the constants.  Each has a strengthening of its own,     *)
(* built on the type invariant of OrchestratorTypes.                       *)
(***************************************************************************)
EXTENDS OrchestratorTypes

-----------------------------------------------------------------------------
(* One session for one attempt                                             *)

\* The strengthening: no session was billed for an attempt that is not reserved
\* yet, and the attempt a call is about to be made for has no session.
BilledOnce ==
    /\ NoAttemptBilledTwice
    /\ \A s \in SessionIds :
          billed[s] # Unbilled => billed[s][2] <= issue[billed[s][1]].attempts
    /\ pc = "create" =>
          \A s \in SessionIds :
              billed[s] # <<frame.issue, issue[frame.issue].attempts>>

\* The steps between the reservation of an attempt and the session's row.
Calling == {"create", "record"}

USE DEF Calling

\* What every step leaves alone but the reservation of an attempt and the call
\* that follows it.
StartsNothing ==
    /\ billed' = billed
    /\ \A n \in Issues : issue'[n].attempts = issue[n].attempts
    /\ pc' \notin Calling

\* No handler returns into the start of a session.
LEMMA GoesElsewhere ==
    /\ Finish \/ Raise => pc' \notin Calling
    /\ \A n, r : CallFlag(n, r) \/ AfterComment(n, r) => pc' \notin Calling
    /\ \A n, key, r : CallComment(n, key, r) => pc' \notin Calling
    /\ \A s, n, key : CallSend(s, n, key) => pc' \notin Calling
  BY DEF Finish, Raise, CallFlag, AfterComment, CallComment, CallSend

\* The other columns of an issue's row can be set without touching its attempts.
LEMMA FlagKeepsAttempts ==
    ASSUME issue \in [Issues -> IssueRow], NEW n, NEW r, FlagForHuman(n, r)
    PROVE  \A m \in Issues : issue'[m].attempts = issue[m].attempts
<1>1. CASE UNCHANGED issue
  BY <1>1
<1>2. ASSUME NEW k, issue' = [issue EXCEPT ![n].episode = k, ![n].reason = r]
      PROVE  \A m \in Issues : issue'[m].attempts = issue[m].attempts
  BY <1>2 DEF IssueRow
<1> QED
  BY <1>1, <1>2 DEF FlagForHuman

LEMMA RegisteringKeepsAttempts ==
    ASSUME issue \in [Issues -> IssueRow], NEW n, RegisterIssue(n) \/ RequestRetry(n)
    PROVE  \A m \in Issues : issue'[m].attempts = issue[m].attempts
<1>1. CASE RegisterIssue(n)
  BY <1>1 DEF RegisterIssue, IssueRow
<1>2. CASE RequestRetry(n)
  BY <1>2 DEF RequestRetry, IssueRow
<1> QED
  BY <1>1, <1>2

LEMMA EffectsStartNothing ==
    ASSUME TypeOK, EffectSteps, ~CreateSession PROVE StartsNothing
<1>1. issue \in [Issues -> IssueRow]
  BY DEF TypeOK, StoreTypeOK
<1>2. CASE Flag
  <2>1. pc' \notin Calling /\ billed' = billed
    BY <1>2, GoesElsewhere DEF Flag
  <2>2. FlagForHuman(frame.issue, frame.reason)
    BY <1>2 DEF Flag
  <2> QED
    BY <1>1, <2>1, <2>2, FlagKeepsAttempts DEF StartsNothing
<1>3. CASE Comment \/ CommentRecorded
  BY <1>3, GoesElsewhere DEF Comment, CommentRecorded, storeVars, StartsNothing
<1>4. CASE ClearFlag
  BY <1>1, <1>4, GoesElsewhere
     DEF ClearFlag, TakeFlagDown, ClearHumanFlag, StartsNothing
<1>5. CASE SendMessage \/ MessageRecorded \/ MessageStamped
  BY <1>5, GoesElsewhere DEF SendMessage, MessageRecorded, MessageStamped, storeVars,
                             StartsNothing
<1>6. CASE NudgeCounted \/ CiRoundCounted \/ BudgetsReset
  BY <1>6, GoesElsewhere DEF NudgeCounted, CiRoundCounted, BudgetsReset, StartsNothing
<1>7. CASE SessionRecorded
  BY <1>7, GoesElsewhere DEF SessionRecorded, StartsNothing
<1> QED
  BY <1>2, <1>3, <1>4, <1>5, <1>6, <1>7 DEF EffectSteps

LEMMA InboxStartsNothing ==
    ASSUME TypeOK, DrainInbox \/ \E n \in Issues : RecoverIssue(n)
    PROVE  StartsNothing
<1>1. issue \in [Issues -> IssueRow]
  BY DEF TypeOK, StoreTypeOK
<1>2. ASSUME NEW n \in Issues, RegisterIssueVerified(n)
      PROVE  /\ \A m \in Issues : issue'[m].attempts = issue[m].attempts
             /\ pc' \notin Calling
  <2>1. issue' = issue \/ RegisterIssue(n) \/ RequestRetry(n)
    BY <1>2 DEF RegisterIssueVerified
  <2>2. pc' \notin Calling
    BY <1>2, GoesElsewhere DEF RegisterIssueVerified
  <2> QED
    BY <1>1, <2>1, <2>2, RegisteringKeepsAttempts
<1>3. ASSUME NEW e \in Events, HandleLabeled(e) PROVE StartsNothing
  BY <1>2, <1>3, EventType DEF HandleLabeled, history, StartsNothing
<1>4. ASSUME NEW n \in Issues, RecoverIssue(n) PROVE StartsNothing
  BY <1>2, <1>4 DEF RecoverIssue, history, StartsNothing
<1>5. \A p, sha : FeedCiFailure(p, sha) => pc' \notin Calling
  BY GoesElsewhere DEF FeedCiFailure, CallMessage
<1>6. ASSUME NEW e \in Events, HandleCiFailed(e) PROVE StartsNothing
  BY <1>5, <1>6, GoesElsewhere DEF HandleCiFailed, storeVars, history, StartsNothing
<1>7. ASSUME NEW e \in Events, HandleReview(e) \/ HandleReply(e) PROVE StartsNothing
  BY <1>7, GoesElsewhere DEF HandleReview, HandleReply, CallMessage, storeVars, history,
                             StartsNothing
<1>8. \A p : AdvancePull(p) => pc' \notin Calling
  BY <1>5, GoesElsewhere DEF AdvancePull, SettleMerged, SettleClosed, WatchPull,
                             FeedMergeConflict, CallMessage
<1>9. ASSUME NEW e \in Events, HandlePullClosed(e) PROVE StartsNothing
  BY <1>8, <1>9, GoesElsewhere DEF HandlePullClosed, history, StartsNothing
<1>10. CASE RetryClearsFlag
  BY <1>1, <1>10 DEF RetryClearsFlag, TakeFlagDown, ClearHumanFlag, StartsNothing
<1>11. CASE SupersedeOpenSessions \/ Dispatched \/ DispatchFailed
  BY <1>11, GoesElsewhere DEF SupersedeOpenSessions, Dispatched, DispatchFailed, history,
                              StartsNothing
<1> QED
  BY <1>3, <1>4, <1>6, <1>7, <1>9, <1>10, <1>11 DEF DrainInbox

LEMMA TrackingStartsNothing ==
    ASSUME TypeOK, TrackSessions \/ \E p \in Pulls : TrackPull(p)
    PROVE  StartsNothing
<1>1. \A p : AdvancePull(p) => pc' \notin Calling
  BY GoesElsewhere DEF AdvancePull, SettleMerged, SettleClosed, WatchPull,
                       FeedMergeConflict, FeedCiFailure, CallMessage
<1>2. \A s, n, o : ActOn(s, n, o) => pc' \notin Calling
  BY GoesElsewhere DEF ActOn, ReportCompletion, HandleBlocked, FlagEnd, CallMessage
<1>3. ASSUME NEW s \in SessionIds, TimeOut(s) \/ PollFails(s) PROVE StartsNothing
  BY <1>3, GoesElsewhere DEF TimeOut, PollFails, storeVars, history, StartsNothing
<1>4. ASSUME NEW s \in SessionIds, NEW o \in Observations, Poll(s, o)
      PROVE  StartsNothing
  BY <1>4 DEF Poll, history, StartsNothing
<1>5. CASE ActOnPoll
  BY <1>2, <1>5 DEF ActOnPoll, history, StartsNothing
<1>6. ASSUME NEW p \in Pulls, TrackPull(p) PROVE StartsNothing
  BY <1>1, <1>6 DEF TrackPull, history, StartsNothing
<1> QED
  BY <1>3, <1>4, <1>5, <1>6 DEF TrackSessions

\* Passes, deadlines, arrivals, crashes and the two ways a start is refused.
LEMMA RestStartsNothing ==
    ASSUME TypeOK,
           \/ TickBegins \/ PassEnds \/ RefreshInsights \/ StartDeferred
           \/ StartOverBudget \/ World \/ Crash
    PROVE  StartsNothing
<1>1. CASE TickBegins \/ PassEnds \/ RefreshInsights
  BY <1>1 DEF TickBegins, PassEnds, RefreshInsights, BeginPass, storeVars, history,
              StartsNothing
<1>2. CASE StartDeferred \/ StartOverBudget
  BY <1>2, GoesElsewhere DEF StartDeferred, StartOverBudget, FirstQueued, storeVars,
                             history, StartsNothing
<1>3. CASE Crash
  BY <1>3 DEF Crash, storeVars, history, StartsNothing
<1>4. CASE World
  BY <1>4 DEF World, Arrive, GraceElapses, SessionAges, PullGoesStale, BetweenHandlers,
              history, StartsNothing
<1> QED
  BY <1>1, <1>2, <1>3, <1>4

LEMMA StartsNothingElsewhere ==
    ASSUME TypeOK, Next, ~CreateSession, \A n \in Issues : ~ReserveAttempt(n)
    PROVE  StartsNothing
  BY EffectsStartNothing, InboxStartsNothing, TrackingStartsNothing, RestStartsNothing
     DEF Next, Loop, StartSessions

LEMMA BilledOnceKept ==
    ASSUME TypeOK, BilledOnce, [Next]_vars PROVE BilledOnce'
<1>1. /\ billed \in [SessionIds -> (Issues \X Nat) \cup {Unbilled}]
      /\ issue \in [Issues -> IssueRow]
      /\ \A n \in Issues : issue[n].attempts \in Nat
  BY DEF TypeOK, StoreTypeOK, IssueRow
<1>2. CASE StartsNothing
  <2>1. ASSUME NEW s \in SessionIds, billed'[s] # Unbilled
        PROVE  billed'[s][2] <= issue'[billed'[s][1]].attempts
    BY <1>1, <1>2, <2>1 DEF StartsNothing, BilledOnce
  <2> QED
    BY <1>2, <2>1 DEF StartsNothing, BilledOnce, NoAttemptBilledTwice
<1>3. ASSUME NEW n \in Issues, ReserveAttempt(n) PROVE BilledOnce'
  <2>1. /\ billed' = billed /\ frame'.issue = n
        /\ issue'[n].attempts = issue[n].attempts + 1
        /\ \A m \in Issues : m # n => issue'[m] = issue[m]
    BY <1>1, <1>3 DEF ReserveAttempt, BeginAttempt, history, NoFrame
  <2>2. ASSUME NEW s \in SessionIds, billed[s] # Unbilled
        PROVE  /\ billed[s] \in Issues \X Nat
               /\ billed[s][2] <= issue'[billed[s][1]].attempts
               /\ billed[s] # <<n, issue'[n].attempts>>
    <3>1. billed[s] \in Issues \X Nat /\ billed[s][2] <= issue[billed[s][1]].attempts
      BY <1>1, <2>2 DEF BilledOnce
    <3>2. CASE billed[s][1] = n
      BY <1>1, <2>1, <3>1, <3>2
    <3>3. CASE billed[s][1] # n
      BY <1>1, <2>1, <3>1, <3>3
    <3> QED
      BY <3>1, <3>2, <3>3
  <2>3. <<n, issue'[n].attempts>> # Unbilled
    BY StoreAssumption DEF Unbilled
  <2>4. NoAttemptBilledTwice'
    BY <2>1 DEF BilledOnce, NoAttemptBilledTwice
  <2> QED
    BY <2>1, <2>2, <2>3, <2>4 DEF BilledOnce
<1>4. CASE CreateSession
  <2>1. /\ frame.issue \in Issues /\ issue' = issue /\ pc' # "create"
        /\ \A s \in SessionIds :
              billed[s] # <<frame.issue, issue[frame.issue].attempts>>
    <3>1. pc' # "create"
      BY <1>4, GoesElsewhere DEF CreateSession
    <3> QED
      BY <1>4, <3>1 DEF CreateSession, storeVars, BilledOnce, TypeOK, HandlerTypeOK,
                        InHandler, Steps
  <2>2. ASSUME NEW s \in SessionIds, Bill(s) PROVE BilledOnce'
    <3> DEFINE attempt == <<frame.issue, issue[frame.issue].attempts>>
    <3>1. billed' = [billed EXCEPT ![s] = attempt]
      BY <2>2 DEF Bill
    <3>2. NoAttemptBilledTwice'
      BY <1>1, <2>1, <3>1 DEF BilledOnce, NoAttemptBilledTwice
    <3>3. ASSUME NEW t \in SessionIds, billed'[t] # Unbilled
          PROVE  billed'[t][2] <= issue'[billed'[t][1]].attempts
      <4>1. CASE t = s
        <5>1. billed'[t] = attempt
          BY <1>1, <3>1, <4>1
        <5> QED
          BY <1>1, <2>1, <5>1
      <4>2. CASE t # s
        <5>1. billed'[t] = billed[t]
          BY <1>1, <3>1, <4>2
        <5> QED
          BY <2>1, <3>3, <5>1 DEF BilledOnce
      <4> QED
        BY <4>1, <4>2
    <3> QED
      BY <2>1, <3>2, <3>3 DEF BilledOnce
  <2>3. CASE UNCHANGED billed
    BY <2>1, <2>3 DEF BilledOnce, NoAttemptBilledTwice
  <2> QED
    BY <1>4, <2>2, <2>3 DEF CreateSession, UnusedSessions
<1>5. CASE UNCHANGED vars
  BY <1>5 DEF vars, storeVars, BilledOnce, NoAttemptBilledTwice
<1> QED
  BY <1>2, <1>3, <1>4, <1>5, StartsNothingElsewhere

\* "It does not spend twice for one attempt": whatever fails, is retried or
\* crashes, two sessions Devin created were created for two attempts.
THEOREM NoDoubleSpend == Spec => []NoAttemptBilledTwice
<1>1. Init => BilledOnce
  BY DEF Init, EffectsInit, BilledOnce, NoAttemptBilledTwice
<1>2. TypeOK /\ BilledOnce /\ [Next]_vars => BilledOnce'
  BY BilledOnceKept
<1>3. BilledOnce => NoAttemptBilledTwice
  BY DEF BilledOnce
<1> QED
  BY <1>1, <1>2, <1>3, TypeCorrect, PTL DEF Spec

-----------------------------------------------------------------------------
(* Nothing is started on a stale verdict                                   *)

\* What BillsOnlyQueued asks of the issue a session is billed for.
Startable(n) ==
    /\ issue[n].known /\ issue[n].reason = None
    /\ \A p \in PullsOf(n) : pull[p].closed /\ ~pull[p].merged

\* The steps of the handlers start_sessions runs.
StartSteps == {"next", "create", "record", "flag", "comment", "commented"}

\* The strengthening: the rows of the pass not taken yet are still startable, no
\* handler of the pass works on one of them, and the issue a call is about to be
\* made for is startable.
StartsFresh ==
    /\ pass = "start" =>
          /\ pc \in StartSteps
          /\ \A n \in todo : Startable(n)
          /\ pc # "next" => frame.issue \notin todo
    /\ pc = "create" => Startable(frame.issue)

\* What the verdict on an issue is read from.
PullsStand ==
    \A p \in Pulls : /\ pull'[p].issue = pull[p].issue
                     /\ pull'[p].closed = pull[p].closed
                     /\ pull'[p].merged = pull[p].merged

LEMMA VerdictStands ==
    ASSUME NEW n, Startable(n), PullsStand,
           issue'[n].known = issue[n].known, issue'[n].reason = issue[n].reason
    PROVE  Startable(n)'
  BY Zenon DEF Startable, PullsOf, PullsStand

\* The verdict start_sessions reads as the pass begins.
LEMMA QueuedIsStartable ==
    ASSUME NEW n \in Issues, issue[n].known, StatusOf(n) = "queued"
    PROVE  Startable(n)
<1>1. \A p \in PullsOf(n) : pull[p] \in {pull[q] : q \in PullsOf(n)}
  OBVIOUS
<1> QED
  BY <1>1 DEF StatusOf, IssueStatus, NeedsHuman, Startable

\* The start pass is entered when the drain ends, and nothing but its own
\* handlers and deadlines happens in it.
LEMMA StartPassActions ==
    ASSUME StartsFresh, Next, pass' = "start"
    PROVE  \/ PassEnds
           \/ pass = "start" /\ World
           \/ pass = "start" /\ StartSessions
           \/ /\ pass = "start" /\ UNCHANGED loopVars
              /\ Flag \/ Comment \/ CommentRecorded \/ CreateSession \/ SessionRecorded
<1>1. ~TickBegins /\ ~RefreshInsights /\ ~Crash
  <2>1. \A p : BeginPass(p) => pass' = p
    BY DEF BeginPass
  <2> QED
    BY <2>1 DEF TickBegins, RefreshInsights, Crash
<1>2. ~DrainInbox
  <2>1. ASSUME NEW e, TakesEvent(e), pass' = pass PROVE FALSE
    BY <2>1 DEF TakesEvent, Takes
  <2>2. ASSUME NEW e \in Events,
               \/ HandleLabeled(e) \/ HandleCiFailed(e) \/ HandleReview(e)
               \/ HandleReply(e) \/ HandlePullClosed(e)
        PROVE  TakesEvent(e) /\ pass' = pass
    BY <2>2 DEF HandleLabeled, HandleCiFailed, HandleReview, HandleReply,
                HandlePullClosed
  <2>3. ~RetryClearsFlag /\ ~SupersedeOpenSessions /\ ~Dispatched /\ ~DispatchFailed
    BY DEF RetryClearsFlag, SupersedeOpenSessions, Dispatched, DispatchFailed,
           StartsFresh, StartSteps
  <2> QED
    BY <2>1, <2>2, <2>3 DEF DrainInbox
<1>3. ~TrackSessions
  BY DEF TrackSessions, TimeOut, PollFails, Poll, ActOnPoll, TakesSession, Takes,
         StartsFresh, StartSteps
<1>4. /\ \A p \in Pulls : ~TrackPull(p)
      /\ \A n \in Issues : ~RecoverIssue(n)
  BY DEF TrackPull, RecoverIssue, TakesPull, TakesUnknownIssue, Takes
<1>5. StartSessions \/ World => pass = "start"
  BY DEF StartSessions, StartDeferred, StartOverBudget, ReserveAttempt, FirstQueued,
         World, Arrive, GraceElapses, SessionAges, PullGoesStale
<1>6. EffectSteps => /\ pass = "start"
                     /\ \/ Flag \/ Comment \/ CommentRecorded \/ CreateSession
                        \/ SessionRecorded
  <2>1. EffectSteps => pass' = pass
    BY DEF EffectSteps, Flag, Comment, CommentRecorded, ClearFlag, SendMessage,
           MessageRecorded, MessageStamped, NudgeCounted, CiRoundCounted, BudgetsReset,
           CreateSession, SessionRecorded
  <2>2. pass = "start" => /\ ~ClearFlag /\ ~SendMessage /\ ~MessageRecorded
                          /\ ~MessageStamped /\ ~NudgeCounted /\ ~CiRoundCounted
                          /\ ~BudgetsReset
    BY DEF ClearFlag, SendMessage, MessageRecorded, MessageStamped, NudgeCounted,
           CiRoundCounted, BudgetsReset, StartsFresh, StartSteps
  <2> QED
    BY <2>1, <2>2 DEF EffectSteps
<1> QED
  BY <1>1, <1>2, <1>3, <1>4, <1>5, <1>6 DEF Next, Loop

\* A handler of start_sessions stays with its issue until it returns.
LEMMA StaysWithIssue ==
    ASSUME pass = "start",
           Flag \/ Comment \/ CommentRecorded \/ CreateSession \/ SessionRecorded
    PROVE  pc' \in StartSteps /\ (pc' # "next" => frame'.issue = frame.issue)
<1> DEFINE Stays(n) == pc' \in StartSteps /\ (pc' # "next" => frame'.issue = n)
<1>1. \A n : Finish => Stays(n)
  BY DEF Finish, StartSteps
<1>2. \A n, r : CallFlag(n, r) => Stays(n)
  BY DEF CallFlag, NoFrame, StartSteps
<1>3. \A n, r : AfterComment(n, r) => Stays(n)
  BY <1>1, <1>2 DEF AfterComment
<1>4. \A n, key, r : CallComment(n, key, r) => Stays(n)
  BY <1>3 DEF CallComment, NoFrame, StartSteps
<1>5. CASE Flag
  BY <1>1, <1>4, <1>5 DEF Flag
<1>6. CASE Comment
  <2>1. CASE pc' = "commented" /\ UNCHANGED frame
    BY <2>1 DEF StartSteps
  <2> QED
    BY <1>3, <1>6, <2>1 DEF Comment
<1>7. CASE CommentRecorded
  BY <1>3, <1>7 DEF CommentRecorded
<1>8. CASE CreateSession
  <2>1. ASSUME NEW s, pc' = "record", frame' = [frame EXCEPT !.session = s]
        PROVE  Stays(frame.issue)
    BY <2>1 DEF StartSteps
  <2> QED
    BY <1>2, <1>8, <2>1 DEF CreateSession
<1>9. CASE SessionRecorded
  BY <1>4, <1>9 DEF SessionRecorded
<1> QED
  BY <1>5, <1>6, <1>7, <1>8, <1>9

LEMMA FlagKeepsOthers ==
    ASSUME issue \in [Issues -> IssueRow], NEW n, NEW r, FlagForHuman(n, r)
    PROVE  \A m \in Issues \ {n} : issue'[m] = issue[m]
<1>1. CASE UNCHANGED issue
  BY <1>1
<1>2. ASSUME NEW k, issue' = [issue EXCEPT ![n].episode = k, ![n].reason = r]
      PROVE  \A m \in Issues \ {n} : issue'[m] = issue[m]
  BY <1>2
<1> QED
  BY <1>1, <1>2 DEF FlagForHuman

LEMMA StartEffectsKeepFresh ==
    ASSUME TypeOK, StartsFresh, pass = "start", UNCHANGED loopVars,
           Flag \/ Comment \/ CommentRecorded \/ CreateSession \/ SessionRecorded
    PROVE  /\ \A n \in todo' : Startable(n)'
           /\ pc' # "next" => frame'.issue \notin todo'
<1>1. todo' = todo /\ frame.issue \notin todo
  BY DEF loopVars, StartsFresh, Flag, Comment, CommentRecorded, CreateSession,
         SessionRecorded
<1>2. PullsStand
  BY DEF Flag, Comment, CommentRecorded, CreateSession, SessionRecorded, storeVars,
         PullsStand
<1>3. ASSUME NEW n \in todo PROVE issue'[n] = issue[n]
  <2>1. CASE Flag
    <3>1. issue \in [Issues -> IssueRow] /\ n \in Issues \ {frame.issue}
      BY <1>1 DEF TypeOK, StoreTypeOK, TodoTypeOK
    <3> QED
      BY <2>1, <3>1, FlagKeepsOthers DEF Flag
  <2> QED
    BY <2>1 DEF Comment, CommentRecorded, CreateSession, SessionRecorded, storeVars
<1>4. \A n \in todo : Startable(n)'
  BY <1>2, <1>3, VerdictStands DEF StartsFresh
<1> QED
  BY <1>1, <1>4, StaysWithIssue

LEMMA StartSessionsKeepFresh ==
    ASSUME TypeOK, StartsFresh, pass = "start", StartSessions
    PROVE  /\ pc' \in StartSteps
           /\ \A n \in todo' : Startable(n)'
           /\ pc' # "next" => frame'.issue \notin todo'
<1>1. CASE StartDeferred
  BY <1>1 DEF StartDeferred, FirstQueued, StartSteps
<1>2. CASE StartOverBudget
  BY <1>2 DEF StartOverBudget, CallFlag, StartSteps
<1>3. ASSUME NEW n \in Issues, ReserveAttempt(n)
      PROVE  /\ pc' = "create" /\ frame'.issue = n /\ todo' = todo \ {n}
             /\ n \in todo /\ PullsStand
             /\ \A m \in todo : /\ issue'[m].known = issue[m].known
                                /\ issue'[m].reason = issue[m].reason
  <2>1. issue \in [Issues -> IssueRow] /\ todo \subseteq Issues
    BY <1>3 DEF TypeOK, StoreTypeOK, TodoTypeOK, ReserveAttempt, FirstQueued
  <2>2. /\ pc' = "create" /\ frame'.issue = n /\ todo' = todo \ {n} /\ n \in todo
        /\ pull' = pull
    BY <1>3 DEF ReserveAttempt, FirstQueued, NoFrame
  <2>3. \A m \in Issues : /\ issue'[m].known = issue[m].known
                          /\ issue'[m].reason = issue[m].reason
    BY <1>3, <2>1 DEF ReserveAttempt, BeginAttempt, IssueRow
  <2> QED
    BY <2>1, <2>2, <2>3 DEF PullsStand
<1>4. ASSUME NEW n \in Issues, ReserveAttempt(n)
      PROVE  \A m \in todo : Startable(m)'
  BY <1>3, <1>4, VerdictStands DEF StartsFresh
<1>5. CASE \E n \in Issues : ReserveAttempt(n)
  BY <1>3, <1>4, <1>5 DEF StartSteps
<1> QED
  BY <1>1, <1>2, <1>5 DEF StartSessions

LEMMA WorldKeepsFresh ==
    ASSUME TypeOK, StartsFresh, pass = "start", World
    PROVE  /\ pc' \in StartSteps
           /\ \A n \in todo' : Startable(n)'
           /\ pc' # "next" => frame'.issue \notin todo'
<1>1. /\ pc' = pc /\ frame' = frame /\ issue' = issue /\ todo' = todo
  BY DEF World, Arrive, GraceElapses, SessionAges, PullGoesStale, loopVars
<1>2. PullsStand
  <2>1. pull \in [Pulls -> PullRow]
    BY DEF TypeOK, StoreTypeOK
  <2>2. ASSUME NEW p \in Pulls, pull' = [pull EXCEPT ![p].stale = TRUE]
        PROVE  PullsStand
    BY <2>1, <2>2 DEF PullsStand, PullRow
  <2>3. CASE pull' = pull
    BY <2>3 DEF PullsStand
  <2> QED
    BY <2>2, <2>3 DEF World, Arrive, GraceElapses, SessionAges, PullGoesStale
<1>3. \A n \in todo : Startable(n)'
  BY <1>1, <1>2, VerdictStands DEF StartsFresh
<1> QED
  BY <1>1, <1>3 DEF StartsFresh

LEMMA PassEndsFresh ==
    ASSUME PassEnds, pass' = "start"
    PROVE  pc' = "next" /\ \A n \in todo' : Startable(n)'
<1>1. /\ pc' = "next" /\ issue' = issue /\ pull' = pull
      /\ todo' = {n \in Issues : issue[n].known /\ StatusOf(n) = "queued"}
  BY DEF PassEnds, BeginPass, Work, storeVars
<1>2. PullsStand
  BY <1>1 DEF PullsStand
<1> QED
  BY <1>1, <1>2, QueuedIsStartable, VerdictStands

LEMMA StartsFreshKept ==
    ASSUME TypeOK, StartsFresh, [Next]_vars PROVE StartsFresh'
<1>1. CASE UNCHANGED vars
  BY <1>1 DEF vars, storeVars, loopVars, StartsFresh, Startable, PullsOf
<1>2. ASSUME Next, pass' = "start"
      PROVE  /\ pc' \in StartSteps
             /\ \A n \in todo' : Startable(n)'
             /\ pc' # "next" => frame'.issue \notin todo'
  BY <1>2, StartPassActions, StartSessionsKeepFresh, StartEffectsKeepFresh,
     StaysWithIssue, WorldKeepsFresh, PassEndsFresh DEF StartSteps
<1>3. ASSUME Next, pc' = "create" PROVE Startable(frame.issue)'
  <2>1. ~CreateSession
    BY <1>3, GoesElsewhere DEF CreateSession
  <2>2. PICK n \in Issues : ReserveAttempt(n)
    BY <1>3, <2>1, StartsNothingElsewhere DEF StartsNothing
  <2>3. /\ pass = "start" /\ n \in todo /\ frame'.issue = n /\ pull' = pull
    BY <2>2 DEF ReserveAttempt, FirstQueued, NoFrame
  <2>4. issue'[n].known = issue[n].known /\ issue'[n].reason = issue[n].reason
    BY <2>2 DEF ReserveAttempt, BeginAttempt, TypeOK, StoreTypeOK, IssueRow
  <2>5. PullsStand /\ Startable(n)
    BY <2>3 DEF PullsStand, StartsFresh
  <2>6. Startable(n)'
    BY <2>4, <2>5, VerdictStands
  <2> QED
    BY <2>3, <2>6 DEF Startable, PullsOf
<1> QED
  BY <1>1, <1>2, <1>3 DEF StartsFresh

\* start_sessions acts on verdicts read as its pass began (orchestrator.py:264-298):
\* whatever fails or crashes in between, a session is billed only for an issue that
\* is known, not flagged and without an open or merged pull request at that moment.
THEOREM NoStaleStart == Spec => BillsOnlyQueued
<1>1. Init => StartsFresh
  BY DEF Init, EffectsInit, StartsFresh
<1>2. TypeOK /\ StartsFresh /\ [Next]_vars => StartsFresh'
  BY StartsFreshKept
<1> DEFINE Fresh ==
      \A s \in SessionIds :
          billed'[s] # billed[s]
          => LET n == billed'[s][1]
             IN  /\ issue[n].known /\ issue[n].reason = None
                 /\ \A p \in PullsOf(n) : pull[p].closed /\ ~pull[p].merged
<1>3. TypeOK /\ StartsFresh /\ [Next]_vars => Fresh
  <2> SUFFICES ASSUME TypeOK, StartsFresh, Next, NEW s \in SessionIds,
                      billed'[s] # billed[s]
               PROVE  Startable(billed'[s][1])
    BY DEF vars, Startable
  <2>1. CreateSession
    <3>1. \A n \in Issues : ReserveAttempt(n) => billed' = billed
      BY DEF ReserveAttempt, history
    <3> QED
      BY <3>1, StartsNothingElsewhere DEF StartsNothing
  <2>2. Startable(frame.issue)
    BY <2>1 DEF CreateSession, StartsFresh
  <2>3. billed'[s][1] = frame.issue
    <3>1. billed \in [SessionIds -> (Issues \X Nat) \cup {Unbilled}]
      BY DEF TypeOK
    <3>2. \E t \in SessionIds : Bill(t)
      BY <2>1 DEF CreateSession, UnusedSessions
    <3> QED
      BY <3>1, <3>2 DEF Bill
  <2> QED
    BY <2>2, <2>3
<1> QED
  BY <1>1, <1>2, <1>3, TypeCorrect, PTL DEF Spec, BillsOnlyQueued

-----------------------------------------------------------------------------
(* The cap.  start_sessions counts the slots in use once, when its pass    *)
(* begins, and then counts on its own while other steps change the tables. *)
(* Its count is right as the pass begins because an open row is one whose  *)
(* last poll can be revived (OpenRowsRevivable), and it bounds the slots   *)
(* from then on because only the row of a session just paid for adds one.  *)

\* closed_reason is set by the very poll that makes a session unrevivable, so
\* liveness and the stored reason agree.
OpenRowsRevivable ==
    \A s \in SessionIds :
        session[s].closed = None
        => ClosingReason(session[s].status, session[s].detail) = None

InUse == Cardinality(Slots)

\* The strengthening: the count of the running pass covers the slots in use and
\* the one its handler is paying for.
CapKept ==
    /\ CapRespected
    /\ OpenRowsRevivable
    /\ pc \in Calling => InUse < MaxConcurrent
    /\ pass = "start" => /\ InUse <= active /\ active <= MaxConcurrent
                         /\ pc \in Calling => InUse < active

-----------------------------------------------------------------------------
(* What a step may do to the rows of the sessions                          *)

\* A row stays with its issue and is never opened again; if it stays open, a new
\* poll of it can be revived.
StaysOrCloses(row, new) ==
    /\ new.issue = row.issue
    /\ new.closed = None =>
          /\ row.closed = None
          /\ \/ new.status = row.status /\ new.detail = row.detail
             \/ ClosingReason(new.status, new.detail) = None

NoneOpened == \A s \in SessionIds : StaysOrCloses(session[s], session'[s])

LEMMA OneRowStays ==
    ASSUME TypeOK, NEW s \in SessionIds, NEW r, session' = [session EXCEPT ![s] = r],
           StaysOrCloses(session[s], r)
    PROVE  NoneOpened
<1>1. session \in [SessionIds -> SessionRow]
  BY DEF TypeOK, StoreTypeOK
<1>2. session'[s] = r
  BY <1>1
<1>3. \A t \in SessionIds \ {s} : session'[t] = session[t]
  BY <1>1
<1> QED
  BY <1>2, <1>3 DEF NoneOpened, StaysOrCloses

\* The columns the cap does not read.
LEMMA OtherColumnsStay ==
    ASSUME NEW r \in SessionRow, NEW v
    PROVE  /\ StaysOrCloses(r, [r EXCEPT !.grace = v])
           /\ StaysOrCloses(r, [r EXCEPT !.aged = v])
           /\ StaysOrCloses(r, [r EXCEPT !.nudges = v])
           /\ StaysOrCloses(r, [r EXCEPT !.nudge_base = v])
           /\ StaysOrCloses(r, [r EXCEPT !.acus = v])
  BY DEF StaysOrCloses, SessionRow

LEMMA PollStaysOrCloses ==
    ASSUME NEW r \in SessionRow, NEW o, NEW acus, NEW produced, NEW closed,
           closed = IF r.closed = None THEN ClosingReason(o.status, o.detail)
                    ELSE r.closed
    PROVE  StaysOrCloses(r, [r EXCEPT !.status = o.status, !.detail = o.detail,
                                      !.acus = acus, !.produced = produced,
                                      !.closed = closed])
<1> DEFINE new == [r EXCEPT !.status = o.status, !.detail = o.detail, !.acus = acus,
                            !.produced = produced, !.closed = closed]
<1>1. /\ new.issue = r.issue /\ new.closed = closed
      /\ new.status = o.status /\ new.detail = o.detail
  BY DEF SessionRow
<1> HIDE DEF new
<1> QED
  BY <1>1 DEF StaysOrCloses

LEMMA EffectsOpenNone ==
    ASSUME TypeOK, EffectSteps, ~SessionRecorded PROVE NoneOpened
<1>1. ASSUME session' = session PROVE NoneOpened
  BY <1>1 DEF NoneOpened, StaysOrCloses
<1>2. CASE \/ Flag \/ Comment \/ CommentRecorded \/ ClearFlag \/ SendMessage
           \/ MessageRecorded \/ CiRoundCounted \/ CreateSession
  BY <1>1, <1>2 DEF Flag, Comment, CommentRecorded, ClearFlag, SendMessage,
                    MessageRecorded, CiRoundCounted, CreateSession, storeVars
<1>3. CASE MessageStamped \/ NudgeCounted \/ BudgetsReset
  <2> DEFINE s == frame.session
  <2>1. s \in SessionIds /\ session[s] \in SessionRow
    BY <1>3 DEF MessageStamped, NudgeCounted, BudgetsReset, TypeOK, StoreTypeOK,
                HandlerTypeOK
  <2>2. \/ session' = [session EXCEPT ![s] = [session[s] EXCEPT !.grace = TRUE]]
        \/ session' = [session EXCEPT ![s] = [session[s] EXCEPT !.nudges =
                                                    session[s].nudges + 1]]
        \/ session' = [session EXCEPT ![s] = [session[s] EXCEPT !.nudge_base =
                                                    session[s].nudges]]
    BY <1>3 DEF MessageStamped, MarkMessageSent, NudgeCounted, BumpNudges,
                BudgetsReset, ResetBudgets
  <2>3. /\ StaysOrCloses(session[s], [session[s] EXCEPT !.grace = TRUE])
        /\ StaysOrCloses(session[s], [session[s] EXCEPT !.nudges =
                                                    session[s].nudges + 1])
        /\ StaysOrCloses(session[s], [session[s] EXCEPT !.nudge_base =
                                                    session[s].nudges])
    BY <2>1, OtherColumnsStay
  <2> HIDE DEF s
  <2> QED
    BY <2>1, <2>2, <2>3, OneRowStays
<1> QED
  BY <1>2, <1>3 DEF EffectSteps

LEMMA TrackingOpensNone ==
    ASSUME TypeOK, TrackSessions PROVE NoneOpened
<1>1. ASSUME NEW s \in SessionIds, TakesSession(s)
      PROVE  session[s] \in SessionRow
  BY DEF TypeOK, StoreTypeOK
<1>2. ASSUME NEW s \in SessionIds, TimeOut(s) PROVE NoneOpened
  <2> DEFINE r == [session[s] EXCEPT !.closed = IF @ = None THEN "timeout" ELSE @]
  <2>1. session' = [session EXCEPT ![s] = r] /\ session[s] \in SessionRow
    BY <1>1, <1>2 DEF TimeOut, CloseSession
  <2>2. StaysOrCloses(session[s], r)
    BY <2>1 DEF StaysOrCloses, SessionRow, None
  <2> HIDE DEF r
  <2> QED
    BY <2>1, <2>2, OneRowStays
<1>3. ASSUME NEW s \in SessionIds, NEW o \in Observations, Poll(s, o)
      PROVE  NoneOpened
  <2> DEFINE row == session[s]
             acus == IF o.acus > row.acus THEN o.acus ELSE row.acus
             produced == row.produced
                         \/ HasProduced([row EXCEPT !.status = o.status,
                                                    !.detail = o.detail],
                                        o.final, HasPull(o))
             closed == IF row.closed = None THEN ClosingReason(o.status, o.detail)
                       ELSE row.closed
             r == [row EXCEPT !.status = o.status, !.detail = o.detail, !.acus = acus,
                              !.produced = produced, !.closed = closed]
  <2>1. session' = [session EXCEPT ![s] = r] /\ row \in SessionRow
    BY <1>1, <1>3 DEF Poll, RecordPoll
  <2>2. StaysOrCloses(row, r)
    <3>1. closed = IF row.closed = None THEN ClosingReason(o.status, o.detail)
                   ELSE row.closed
      OBVIOUS
    <3> HIDE DEF acus, produced, closed, row
    <3> QED
      BY <2>1, <3>1, PollStaysOrCloses
  <2> HIDE DEF r
  <2> QED
    BY <2>1, <2>2, OneRowStays
<1>4. ASSUME NEW s \in SessionIds, PollFails(s) PROVE NoneOpened
  BY <1>4 DEF PollFails, storeVars, NoneOpened, StaysOrCloses
<1>5. CASE ActOnPoll
  BY <1>5 DEF ActOnPoll, NoneOpened, StaysOrCloses
<1> QED
  BY <1>2, <1>3, <1>4, <1>5 DEF TrackSessions

\* The inbox, the pull requests, resync and the start of sessions.
LEMMA RestOpensNone ==
    ASSUME TypeOK,
           \/ DrainInbox \/ StartSessions \/ TickBegins \/ PassEnds \/ Crash
           \/ \E p \in Pulls : TrackPull(p)
           \/ \E n \in Issues : RecoverIssue(n)
    PROVE  NoneOpened
<1>1. ASSUME session' = session PROVE NoneOpened
  BY <1>1 DEF NoneOpened, StaysOrCloses
<1>2. ASSUME SupersedeOpenSessions, NEW s \in SessionIds
      PROVE  StaysOrCloses(session[s], session'[s])
  <2>1. session[s] \in SessionRow
    BY DEF TypeOK, StoreTypeOK
  <2>2. session'[s] \in {session[s], [session[s] EXCEPT !.closed = "superseded"]}
    BY <1>2 DEF SupersedeOpenSessions
  <2> QED
    BY <2>1, <2>2 DEF StaysOrCloses, SessionRow, None
<1>3. DrainInbox => session' = session \/ SupersedeOpenSessions
  BY DEF DrainInbox, HandleLabeled, HandleCiFailed, HandleReview, HandleReply,
         HandlePullClosed, RetryClearsFlag, Dispatched, DispatchFailed, storeVars
<1>4. StartSessions \/ TickBegins \/ PassEnds \/ Crash => session' = session
  BY DEF StartSessions, StartDeferred, StartOverBudget, ReserveAttempt, TickBegins,
         PassEnds, Crash, storeVars
<1>5. /\ \A p \in Pulls : TrackPull(p) => session' = session
      /\ \A n \in Issues : RecoverIssue(n) => session' = session
  BY DEF TrackPull, RecoverIssue
<1> QED
  BY <1>1, <1>2, <1>3, <1>4, <1>5 DEF NoneOpened

LEMMA WorldOpensNone ==
    ASSUME TypeOK, World \/ RefreshInsights PROVE NoneOpened
<1>1. \A s \in SessionIds : session[s] \in SessionRow
  BY DEF TypeOK, StoreTypeOK
<1>2. ASSUME NEW s \in SessionIds, GraceElapses(s) \/ SessionAges(s)
      PROVE  NoneOpened
  <2>1. \/ session' = [session EXCEPT ![s] = [session[s] EXCEPT !.grace = FALSE]]
        \/ session' = [session EXCEPT ![s] = [session[s] EXCEPT !.aged = TRUE]]
    BY <1>2 DEF GraceElapses, SessionAges
  <2> QED
    BY <1>1, <2>1, OtherColumnsStay, OneRowStays
<1>3. ASSUME session' = session PROVE NoneOpened
  BY <1>3 DEF NoneOpened, StaysOrCloses
<1>4. ASSUME NEW f, ApplyInsights(f), NEW s \in SessionIds
      PROVE  StaysOrCloses(session[s], session'[s])
  <2> DEFINE acus == IF f[s] > session[s].acus THEN f[s] ELSE session[s].acus
  <2>1. session'[s] = session[s] \/ session'[s] = [session[s] EXCEPT !.acus = acus]
    BY <1>4 DEF ApplyInsights
  <2>2. StaysOrCloses(session[s], [session[s] EXCEPT !.acus = acus])
    BY <1>1, OtherColumnsStay
  <2> HIDE DEF acus
  <2> QED
    BY <2>1, <2>2 DEF StaysOrCloses
<1>5. CASE RefreshInsights
  BY <1>3, <1>4, <1>5 DEF RefreshInsights, NoneOpened
<1>6. CASE World
  BY <1>2, <1>3, <1>6 DEF World, Arrive, PullGoesStale
<1> QED
  BY <1>5, <1>6

LEMMA NextOpensNone ==
    ASSUME TypeOK, Next, ~SessionRecorded PROVE NoneOpened
  BY EffectsOpenNone, TrackingOpensNone, RestOpensNone, WorldOpensNone DEF Next, Loop

-----------------------------------------------------------------------------
(* What a step may do to the rows of the pull requests                     *)

\* A row stays with its issue, and a merge is never taken back.
MergesStand ==
    \A p \in Pulls :
        pull[p].issue # 0 => /\ pull'[p].issue = pull[p].issue
                             /\ pull[p].merged => pull'[p].merged

LEMMA OnePullStands ==
    ASSUME TypeOK, NEW p \in Pulls, NEW v,
           \/ pull' = pull
           \/ pull' = [pull EXCEPT ![p].merged = TRUE]
           \/ pull' = [pull EXCEPT ![p].closed = TRUE]
           \/ pull' = [pull EXCEPT ![p].stale = TRUE]
           \/ pull' = [pull EXCEPT ![p].rounds = @ + 1, ![p].last_sha = v]
    PROVE  MergesStand
<1>1. pull \in [Pulls -> PullRow] /\ pull[p] \in PullRow
  BY DEF TypeOK, StoreTypeOK
<1>2. ASSUME NEW r, pull' = [pull EXCEPT ![p] = r], r.issue = pull[p].issue,
             r.merged = pull[p].merged \/ r.merged = TRUE
      PROVE  MergesStand
  <2>1. pull'[p] = r /\ \A q \in Pulls \ {p} : pull'[q] = pull[q]
    BY <1>1, <1>2
  <2> QED
    BY <1>2, <2>1 DEF MergesStand
<1>3. CASE pull' = pull
  BY <1>3 DEF MergesStand
<1>4. CASE pull' = [pull EXCEPT ![p].merged = TRUE]
  BY <1>1, <1>2, <1>4 DEF PullRow
<1>5. CASE pull' = [pull EXCEPT ![p].closed = TRUE]
  BY <1>1, <1>2, <1>5 DEF PullRow
<1>6. CASE pull' = [pull EXCEPT ![p].stale = TRUE]
  BY <1>1, <1>2, <1>6 DEF PullRow
<1>7. CASE pull' = [pull EXCEPT ![p].rounds = @ + 1, ![p].last_sha = v]
  <2> DEFINE r == [pull[p] EXCEPT !.rounds = pull[p].rounds + 1, !.last_sha = v]
  <2>1. pull' = [pull EXCEPT ![p] = r]
    BY <1>7
  <2>2. r.issue = pull[p].issue /\ r.merged = pull[p].merged
    BY <1>1 DEF PullRow
  <2> HIDE DEF r
  <2> QED
    BY <1>2, <2>1, <2>2
<1> QED
  BY <1>3, <1>4, <1>5, <1>6, <1>7

LEMMA EffectsKeepMerges ==
    ASSUME TypeOK, EffectSteps PROVE MergesStand
<1>1. pull \in [Pulls -> PullRow]
  BY DEF TypeOK, StoreTypeOK
<1>2. CASE CiRoundCounted
  <2>1. frame.key \in Keys /\ frame.key[1] = "ci"
    BY <1>2 DEF CiRoundCounted, TypeOK, HandlerTypeOK
  <2>2. frame.key[2] \in Pulls
    BY <2>1, KeyParts
  <2>3. pull' = [pull EXCEPT ![frame.key[2]].rounds = @ + 1,
                             ![frame.key[2]].last_sha = frame.key[3]]
    BY <1>2 DEF CiRoundCounted, CountCiRound
  <2> QED
    BY <2>2, <2>3, OnePullStands
<1>3. ASSUME BudgetsReset, NEW p \in Pulls
      PROVE  pull'[p].issue = pull[p].issue /\ pull'[p].merged = pull[p].merged
  <2>1. \/ pull'[p] = pull[p]
        \/ pull'[p] = [pull[p] EXCEPT !.rounds_base = pull[p].rounds,
                                      !.last_sha = None]
    BY <1>3 DEF BudgetsReset, ResetBudgets
  <2> QED
    BY <1>1, <2>1 DEF PullRow
<1>4. CASE BudgetsReset
  BY <1>3, <1>4 DEF MergesStand
<1>5. EffectSteps => pull' = pull \/ CiRoundCounted \/ BudgetsReset
  BY DEF EffectSteps, Flag, Comment, CommentRecorded, ClearFlag, SendMessage,
         MessageRecorded, MessageStamped, NudgeCounted, CreateSession, SessionRecorded,
         storeVars
<1> QED
  BY <1>2, <1>4, <1>5 DEF MergesStand

LEMMA NextKeepsMerges ==
    ASSUME TypeOK, Next PROVE MergesStand
<1>1. pull' = pull => MergesStand
  BY DEF MergesStand
<1>2. ASSUME NEW p \in Pulls, AdvancePull(p) PROVE MergesStand
  BY <1>2, OnePullStands DEF AdvancePull, SettleMerged, SettleClosed, MarkMerged,
                             MarkClosed
<1>3. CASE ActOnPoll
  <2>1. UpsertPulls(frame.poll.pulls, frame.session)
    BY <1>3 DEF ActOnPoll
  <2>2. ASSUME NEW p \in Pulls, pull[p].issue # 0 PROVE pull'[p] = pull[p]
    BY <2>1, <2>2 DEF UpsertPulls, KnownPull
  <2> QED
    BY <2>2 DEF MergesStand
<1>4. CASE DrainInbox
  <2>1. ASSUME NEW e \in Events, HandlePullClosed(e) PROVE MergesStand
    BY <1>1, <1>2, <2>1 DEF HandlePullClosed, KnownPull
  <2>2. DrainInbox => pull' = pull \/ \E e \in Events : HandlePullClosed(e)
    BY DEF DrainInbox, HandleLabeled, HandleCiFailed, HandleReview, HandleReply,
           RetryClearsFlag, SupersedeOpenSessions, Dispatched, DispatchFailed, storeVars
  <2> QED
    BY <1>1, <1>4, <2>1, <2>2
<1>5. ASSUME NEW p \in Pulls, TrackPull(p) PROVE MergesStand
  BY <1>2, <1>5 DEF TrackPull
<1>6. CASE TrackSessions
  BY <1>1, <1>3, <1>6 DEF TrackSessions, TimeOut, PollFails, Poll, storeVars
<1>7. CASE World
  <2>1. ASSUME NEW p \in Pulls, PullGoesStale(p) PROVE MergesStand
    BY <2>1, OnePullStands DEF PullGoesStale
  <2> QED
    BY <1>1, <1>7, <2>1 DEF World, Arrive, GraceElapses, SessionAges
<1>8. CASE \/ StartSessions \/ TickBegins \/ PassEnds \/ Crash \/ RefreshInsights
           \/ \E n \in Issues : RecoverIssue(n)
  BY <1>1, <1>8 DEF StartSessions, StartDeferred, StartOverBudget, ReserveAttempt,
                    TickBegins, PassEnds, Crash, RefreshInsights, RecoverIssue, storeVars
<1> QED
  BY <1>4, <1>5, <1>6, <1>7, <1>8, EffectsKeepMerges DEF Next, Loop

-----------------------------------------------------------------------------
(* Counting slots                                                          *)

LEMMA SlotsFinite ==
    /\ IsFiniteSet(Slots) /\ InUse \in Nat
    /\ \A S \in SUBSET Slots : Cardinality(S) <= InUse
<1>1. IsFiniteSet(Slots)
  BY SessionIdsFinite, FS_Subset DEF Slots
<1> QED
  BY <1>1, FS_Subset, FS_CardinalityType DEF InUse

\* Every step but the recording of a new session's row leaves the slots in use as
\* they are or frees some.
LEMMA NoNewSlot ==
    ASSUME TypeOK, NoneOpened, MergesStand
    PROVE  Slots' \subseteq Slots /\ InUse' \in Nat /\ InUse' <= InUse
<1>1. ASSUME NEW s \in Slots' PROVE s \in Slots
  <2>1. /\ s \in SessionIds /\ session'[s].issue # 0 /\ session'[s].closed = None
        /\ \A p \in Pulls : pull'[p].issue = session'[s].issue => ~pull'[p].merged
    BY <1>1 DEF Slots
  <2>2. session[s].issue = session'[s].issue /\ session[s].closed = None
    BY <2>1 DEF NoneOpened, StaysOrCloses
  <2>3. ASSUME NEW p \in Pulls, pull[p].issue = session[s].issue
        PROVE  ~pull[p].merged
    BY <2>1, <2>2, <2>3 DEF MergesStand
  <2> QED
    BY <2>1, <2>2, <2>3 DEF Slots
<1>2. Slots' \in SUBSET Slots
  BY <1>1
<1>3. Cardinality(Slots') <= InUse /\ Cardinality(Slots') \in Nat
  BY <1>2, SlotsFinite, FS_Subset, FS_CardinalityType
<1> QED
  BY <1>2, <1>3 DEF InUse

LEMMA OpenStaysRevivable ==
    ASSUME OpenRowsRevivable, NoneOpened PROVE OpenRowsRevivable'
  BY DEF OpenRowsRevivable, NoneOpened, StaysOrCloses

\* SessionRecorded adds one slot, for a session that is yet to be polled.
LEMMA OneNewSlot ==
    ASSUME TypeOK, SessionRecorded
    PROVE  /\ OpenRowsRevivable => OpenRowsRevivable'
           /\ InUse' \in Nat /\ InUse' <= InUse + 1
<1> DEFINE s == frame.session
           r == [NoSession EXCEPT !.issue = frame.issue,
                                  !.attempt = issue[frame.issue].attempts]
<1>1. /\ session \in [SessionIds -> SessionRow] /\ s \in SessionIds
      /\ session' = [session EXCEPT ![s] = r] /\ pull' = pull
  BY DEF SessionRecorded, CreateSessionRow, TypeOK, StoreTypeOK, HandlerTypeOK
<1>2. r.status = None /\ r.detail = None
  BY DEF NoSession
<1> HIDE DEF r, s
<1>3. session'[s] = r /\ \A t \in SessionIds \ {s} : session'[t] = session[t]
  BY <1>1
<1>4. OpenRowsRevivable => OpenRowsRevivable'
  BY <1>2, <1>3 DEF OpenRowsRevivable, ClosingReason, None
<1>5. Slots' \in SUBSET (Slots \cup {s})
  BY <1>1, <1>3 DEF Slots
<1>6. /\ IsFiniteSet(Slots \cup {s})
      /\ Cardinality(Slots \cup {s}) \in Nat
      /\ Cardinality(Slots \cup {s}) <= InUse + 1
  <2>1. IsFiniteSet(Slots) /\ InUse \in Nat
    BY SlotsFinite
  <2>2. /\ IsFiniteSet(Slots \cup {s})
        /\ Cardinality(Slots \cup {s}) = IF s \in Slots THEN InUse ELSE InUse + 1
    BY <2>1, FS_AddElement, Zenon DEF InUse
  <2> QED
    BY <2>1, <2>2
<1>7. Cardinality(Slots') \in Nat /\ Cardinality(Slots') <= Cardinality(Slots \cup {s})
  BY <1>5, <1>6, FS_Subset, FS_CardinalityType
<1>8. Cardinality(Slots') <= InUse + 1
  BY <1>6, <1>7, SlotsFinite
<1> QED
  BY <1>4, <1>7, <1>8 DEF InUse

\* The sessions start_sessions counts are the slots in use.
LEMMA CountIsRight ==
    ASSUME OpenRowsRevivable PROVE Occupying = Slots
<1>1. ASSUME NEW s \in SessionIds
      PROVE  IsClosed(session[s]) <=> session[s].closed # None
  <2>1. session[s].closed = None =>
            ClosingReason(session[s].status, session[s].detail) = None
    BY DEF OpenRowsRevivable
  <2> QED
    BY <2>1 DEF IsClosed, Liveness, ClosingReason, None
<1>2. ASSUME NEW n
      PROVE  Terminal(n) <=> \E p \in Pulls : pull[p].issue = n /\ pull[p].merged
  <2>1. Terminal(n) <=> \E row \in {pull[p] : p \in PullsOf(n)} : row.merged
    BY DEF Terminal, StatusOf, IssueStatus
  <2> QED
    BY <2>1 DEF PullsOf
<1> QED
  BY <1>1, <1>2 DEF Occupying, OccupiesSlot, Slots

-----------------------------------------------------------------------------
(* The cap                                                                 *)

\* The count a start pass begins with.
LEMMA PassBeginsCounted ==
    ASSUME TypeOK, CapKept, PassEnds, pass' = "start"
    PROVE  active' = InUse /\ InUse \in Nat /\ InUse <= MaxConcurrent
<1>1. active' = Cardinality(Occupying)
  BY DEF PassEnds, BeginPass
<1> QED
  BY <1>1, CountIsRight, SlotsFinite DEF CapKept, CapRespected, InUse

\* The count goes on covering what its pass starts.
LEMMA CountCovers ==
    ASSUME TypeOK, StartsFresh, CapKept, Next, ~SessionRecorded, pass' = "start",
           InUse' \in Nat, InUse' <= InUse, InUse \in Nat
    PROVE  /\ InUse' <= active' /\ active' <= MaxConcurrent
           /\ pc' \in Calling => InUse' < active'
<1>0. active \in Nat /\ MaxConcurrent \in Nat
  BY OrchestratorAssumption DEF TypeOK
<1>1. pass = "start" => /\ InUse <= active /\ active <= MaxConcurrent
                        /\ pc \in Calling => InUse < active
  BY DEF CapKept
<1>2. CASE PassEnds
  <2>1. pc' \notin Calling
    BY <1>2 DEF PassEnds, BeginPass
  <2> QED
    BY <1>0, <1>2, <2>1, PassBeginsCounted
<1>3. CASE pass = "start" /\ World
  <2>1. active' = active /\ pc' = pc
    BY <1>3 DEF World, Arrive, GraceElapses, SessionAges, PullGoesStale, loopVars
  <2>2. InUse' <= active /\ (pc \in Calling => InUse' < active)
    BY <1>0, <1>1, <1>3
  <2> QED
    BY <1>1, <1>3, <2>1, <2>2
<1>4. CASE pass = "start" /\ (StartDeferred \/ StartOverBudget)
  <2>1. active' = active /\ pc' \notin Calling
    BY <1>4 DEF StartDeferred, StartOverBudget, FirstQueued, CallFlag
  <2> QED
    BY <1>0, <1>1, <1>4, <2>1
<1>5. CASE pass = "start" /\ \E n \in Issues : ReserveAttempt(n)
  <2>1. active < MaxConcurrent /\ active' = active + 1
    BY <1>5 DEF ReserveAttempt, MayStart
  <2> QED
    BY <1>0, <1>1, <1>5, <2>1
<1>6. CASE pass = "start" /\ UNCHANGED loopVars /\ CreateSession
  <2>1. active' = active /\ pc \in Calling
    BY <1>6 DEF loopVars, CreateSession
  <2> QED
    BY <1>0, <1>1, <1>6, <2>1
<1>7. CASE pass = "start" /\ UNCHANGED loopVars /\ (Flag \/ Comment \/ CommentRecorded)
  <2>1. active' = active /\ pc' \notin Calling
    BY <1>7, GoesElsewhere DEF loopVars, Flag, Comment, CommentRecorded
  <2> QED
    BY <1>0, <1>1, <1>7, <2>1
<1> QED
  BY <1>2, <1>3, <1>4, <1>5, <1>6, <1>7, StartPassActions DEF StartSessions

\* The row of a session is recorded by the handler that paid for it, and the count
\* stays.
LEMMA RecordingKeepsCount ==
    ASSUME SessionRecorded, Next PROVE active' = active /\ pass' = pass
<1>1. pc = "record" /\ pass' = pass
  BY DEF SessionRecorded
<1>2. pc' # "idle"
  BY DEF SessionRecorded, CallComment, AfterComment, CallFlag, Finish, None
<1>3. ~DrainInbox
  BY <1>1 DEF DrainInbox, HandleLabeled, HandleCiFailed, HandleReview, HandleReply,
              HandlePullClosed, TakesEvent, Takes, RetryClearsFlag,
              SupersedeOpenSessions, Dispatched, DispatchFailed
<1>4. ~StartSessions /\ ~TickBegins /\ ~PassEnds /\ ~RefreshInsights
  BY <1>1 DEF StartSessions, StartDeferred, StartOverBudget, ReserveAttempt,
              FirstQueued, TickBegins, PassEnds, RefreshInsights
<1>5. ~TrackSessions
  BY <1>1 DEF TrackSessions, TimeOut, PollFails, Poll, TakesSession, Takes, ActOnPoll
<1>6. /\ \A p \in Pulls : ~TrackPull(p)
      /\ \A n \in Issues : ~RecoverIssue(n)
  BY <1>1 DEF TrackPull, TakesPull, RecoverIssue, TakesUnknownIssue, Takes
<1>7. ~World /\ ~Crash
  BY <1>1, <1>2 DEF World, Arrive, GraceElapses, SessionAges, PullGoesStale,
                    BetweenHandlers, Crash
<1> QED
  BY <1>1, <1>3, <1>4, <1>5, <1>6, <1>7 DEF Next, Loop, loopVars

LEMMA CapKeptNext ==
    ASSUME TypeOK, StartsFresh, CapKept, Next PROVE CapKept'
<1>0. active \in Nat /\ MaxConcurrent \in Nat /\ InUse \in Nat
  BY SlotsFinite, OrchestratorAssumption DEF TypeOK
<1>1. CapRespected <=> InUse <= MaxConcurrent
  BY DEF CapRespected, InUse
<1>2. CapRespected' <=> InUse' <= MaxConcurrent
  BY DEF CapRespected, InUse
<1>3. CASE SessionRecorded
  <2>1. pc \in Calling /\ pc' \notin Calling
    BY <1>3, GoesElsewhere DEF SessionRecorded
  <2>2. active' = active /\ pass' = pass
    BY <1>3, RecordingKeepsCount
  <2>3. InUse' \in Nat /\ InUse' <= InUse + 1 /\ OpenRowsRevivable'
    BY <1>3, OneNewSlot DEF CapKept
  <2>4. /\ InUse < MaxConcurrent
        /\ pass = "start" => InUse < active /\ active <= MaxConcurrent
    BY <2>1 DEF CapKept
  <2>5. InUse' <= MaxConcurrent
    BY <1>0, <2>3, <2>4
  <2>6. pass' = "start" => InUse' <= active' /\ active' <= MaxConcurrent
    BY <1>0, <2>2, <2>3, <2>4
  <2> QED
    BY <1>2, <2>1, <2>3, <2>5, <2>6 DEF CapKept
<1>4. CASE ~SessionRecorded
  <2>1. InUse' \in Nat /\ InUse' <= InUse /\ OpenRowsRevivable'
    BY <1>4, NextOpensNone, NextKeepsMerges, NoNewSlot, OpenStaysRevivable DEF CapKept
  <2>2. InUse <= MaxConcurrent
    BY <1>1 DEF CapKept
  <2>3. InUse' <= MaxConcurrent
    BY <1>0, <2>1, <2>2
  <2>4. pc' \in Calling => InUse' < MaxConcurrent
    <3>1. CASE \E n \in Issues : ReserveAttempt(n)
      <4>1. active < MaxConcurrent /\ InUse <= active
        BY <3>1 DEF ReserveAttempt, MayStart, FirstQueued, CapKept
      <4> QED
        BY <1>0, <2>1, <4>1
    <3>2. CASE CreateSession
      <4>1. InUse < MaxConcurrent
        BY <3>2 DEF CreateSession, CapKept
      <4> QED
        BY <1>0, <2>1, <4>1
    <3>3. CASE StartsNothing
      BY <3>3 DEF StartsNothing
    <3> QED
      BY <3>1, <3>2, <3>3, StartsNothingElsewhere
  <2>5. pass' = "start" => /\ InUse' <= active' /\ active' <= MaxConcurrent
                           /\ pc' \in Calling => InUse' < active'
    BY <1>0, <1>4, <2>1, CountCovers
  <2> QED
    BY <1>2, <2>1, <2>3, <2>4, <2>5 DEF CapKept
<1> QED
  BY <1>3, <1>4

LEMMA CapKeptInit == ASSUME Init PROVE CapKept
<1>1. Slots = {}
  BY DEF Init, StoreInit, NoSession, Slots
<1>2. InUse = 0 /\ MaxConcurrent \in Nat
  BY <1>1, FS_EmptySet, OrchestratorAssumption DEF InUse
<1>3. OpenRowsRevivable
  BY DEF Init, StoreInit, NoSession, OpenRowsRevivable, ClosingReason, None
<1>4. pc = "idle" /\ pass = "none"
  BY DEF Init, EffectsInit
<1> QED
  BY <1>2, <1>3, <1>4 DEF CapKept, CapRespected, InUse

\* MAX_CONCURRENT_SESSIONS (orchestrator.py:263-298): through every pass, retry,
\* failed start, crash and restart the sessions that may spend are within the cap.
THEOREM CapNeverPassed == Spec => []CapRespected
<1>1. Init => CapKept
  BY CapKeptInit
<1>2. TypeOK /\ StartsFresh /\ CapKept /\ [Next]_vars => CapKept'
  <2>1. CASE UNCHANGED vars
    BY <2>1 DEF vars, storeVars, loopVars, CapKept, CapRespected, OpenRowsRevivable,
                InUse, Slots
  <2> QED
    BY <2>1, CapKeptNext
<1>3. CapKept => CapRespected
  BY DEF CapKept
<1>4. Init => StartsFresh
  BY DEF Init, EffectsInit, StartsFresh
<1>5. TypeOK /\ StartsFresh /\ [Next]_vars => StartsFresh'
  BY StartsFreshKept
<1> QED
  BY <1>1, <1>2, <1>3, <1>4, <1>5, TypeCorrect, PTL DEF Spec
=============================================================================
