--------------------------- MODULE OrchestratorLife ---------------------------
(***************************************************************************)
(* What happens over several ticks: the reconcile loop implements the      *)
(* abstract order of a tick's passes (Ticks) and the abstract life of an   *)
(* issue (Remediation); a session that is closed stays as it was closed;   *)
(* and, while the process stays up, an issue has one session at work.      *)
(***************************************************************************)
EXTENDS OrchestratorSafety

USE DEF Calling

-----------------------------------------------------------------------------
(* The passes of a tick *)

LEMMA QuietStep ==
    ASSUME Next, ~TickBegins, ~PassEnds, ~RefreshInsights, ~Crash
    PROVE  UNCHANGED <<tick, forced, pass>>
<1>1. CASE DrainInbox
  BY <1>1 DEF DrainInbox, HandleLabeled, HandleCiFailed, HandleReview, HandleReply,
              HandlePullClosed, RetryClearsFlag, SupersedeOpenSessions, Dispatched,
              DispatchFailed, loopVars
<1>2. CASE StartSessions
  BY <1>2 DEF StartSessions, StartDeferred, StartOverBudget, ReserveAttempt
<1>3. CASE TrackSessions
  BY <1>3 DEF TrackSessions, TimeOut, PollFails, Poll, ActOnPoll, loopVars
<1>4. CASE \/ \E p \in Pulls : TrackPull(p)
           \/ \E n \in Issues : RecoverIssue(n)
  BY <1>4 DEF TrackPull, RecoverIssue
<1>5. CASE EffectSteps /\ UNCHANGED loopVars
  BY <1>5 DEF EffectSteps, Flag, Comment, CommentRecorded, ClearFlag, SendMessage,
              MessageRecorded, MessageStamped, NudgeCounted, CiRoundCounted,
              BudgetsReset, CreateSession, SessionRecorded, loopVars
<1>6. CASE World
  BY <1>6 DEF World, Arrive, GraceElapses, SessionAges, PullGoesStale, loopVars
<1> QED
  BY <1>1, <1>2, <1>3, <1>4, <1>5, <1>6 DEF Next, Loop

LEMMA TickGoesOn ==
    ASSUME TypeOK, [Next]_vars PROVE [TICKS!Next]_TICKS!vars
<1>1. forced \in BOOLEAN /\ (pc = "idle" => pass = "none")
  BY DEF TypeOK, HandlerTypeOK
<1>2. CASE TickBegins
  <2>1. /\ pass = "none" /\ pass' = "drain"
        /\ tick' = (tick + 1) % (PrEvery * SlowEvery)
    BY <1>1, <1>2 DEF TickBegins, BeginPass
  <2>2. (forced /\ pass # "none")' \in BOOLEAN
    OBVIOUS
  <2> QED
    BY <2>1, <2>2 DEF TICKS!Next, TICKS!Begin
<1>3. CASE PassEnds
  <2>1. UNCHANGED <<tick, forced>> /\ pass' = PassAfter(pass)
    BY <1>3 DEF PassEnds, BeginPass
  <2>2. CASE pass = "none"
    <3>1. pass' = "none"
      BY <2>1, <2>2 DEF PassAfter
    <3> QED
      BY <2>1, <2>2, <3>1 DEF TICKS!vars
  <2>3. CASE pass # "none"
    <3>1. PassAfter(pass) = TICKS!After(pass)
      BY <2>3 DEF PassAfter, PullsDue, SlowDue, TICKS!After, TICKS!Due
    <3>2. (forced /\ pass # "none")' = ((forced /\ pass # "none") /\ pass' # "none")
      BY <2>1, <2>3
    <3> QED
      BY <2>1, <2>3, <3>1, <3>2 DEF TICKS!Next, TICKS!Advance
  <2> QED
    BY <2>2, <2>3
<1>4. CASE RefreshInsights
  <2>1. pass = "insights" /\ pass' = "none" /\ UNCHANGED <<tick, forced>>
    BY <1>4 DEF RefreshInsights, BeginPass
  <2>2. (forced /\ pass # "none")' = FALSE
    BY <2>1
  <2> QED
    BY <2>1, <2>2 DEF TICKS!Next, TICKS!BreakOff
<1>5. CASE Crash
  <2>1. pass' = "none" /\ tick' = 0
    BY <1>5 DEF Crash
  <2>2. (forced /\ pass # "none")' = FALSE
    BY <2>1
  <2> QED
    BY <2>1, <2>2 DEF TICKS!Next, TICKS!Restart
<1>6. CASE UNCHANGED <<tick, forced, pass>>
  BY <1>6 DEF TICKS!vars
<1> QED
  BY <1>2, <1>3, <1>4, <1>5, <1>6, QuietStep DEF vars, loopVars

\* The passes follow one another in the order of tick(), and what is not due is
\* left out, whatever the handlers do (orchestrator.py:110-119).
THEOREM PassesInOrder == Spec => TickOrder
<1>1. Init => TICKS!Init
  <2> SUFFICES ASSUME Init PROVE TICKS!Init
    OBVIOUS
  <2>1. tick = 0 /\ forced = FALSE /\ pass = "none"
    BY DEF Init, EffectsInit
  <2> QED
    BY <2>1 DEF TICKS!Init
<1> QED
  BY <1>1, TickGoesOn, TypeCorrect, PTL DEF Spec, TickOrder, TICKS!Spec

-----------------------------------------------------------------------------
(* What was closed stays closed                                            *)

\* The steps at which a handler is about to write to the row of a session it
\* messages, and those of a retry.
Messaging == {"send", "mark", "stamp", "follow"}
Retrying == {"retry", "supersede"}

\* The strengthening: a session that was not paid for has no row, nor has the one
\* whose row comes next; a message goes to an open row; the rows left in a pass over
\* the sessions are open; and that pass never supersedes.
UnpaidBlank ==
    \A s \in SessionIds :
        billed[s] = Unbilled => session[s].issue = 0 /\ session[s].closed = None
RecordsBlank ==
    pc = "record" => /\ billed[frame.session] # Unbilled
                     /\ session[frame.session].issue = 0
                     /\ session[frame.session].closed = None
MessagesOpen == pc \in Messaging => session[frame.session].closed = None
TracksOpen == pass = "track" => \A s \in todo : session[s].closed = None
RetriesElsewhere == pc \in Retrying => pass # "track"

FinalInv ==
    UnpaidBlank /\ RecordsBlank /\ MessagesOpen /\ TracksOpen /\ RetriesElsewhere

\* What a message may be, and what was asked before it is sent: a nudge within the
\* limit, a red commit or a conflict within its rounds, a comment of the inbox.
Asks(s, key) ==
    \/ /\ key = NudgeKey(s) /\ NudgeAllowed(s)
       /\ pc = "act" /\ s = frame.session
    \/ \E p, sha :
          /\ key = <<"ci", p, sha>> /\ KnownPull(p) /\ s = pull[p].session
          /\ ~CiExhausted(p)
    \/ \E p, sha : key = <<"conflict", p, sha>> /\ ~ConflictExhausted(p)
    \/ \E e \in Events : key = <<"review", e.id>>
    \/ \E e \in Events :
          /\ e.kind = "issue_comment" /\ key = <<"reply", e.id>>
          /\ s = LatestSession(e.issue) /\ s # 0

\* A handler that turns to a message has asked that, whether its row is open and
\* whether it was sent before.
Sends ==
    pc' \in Messaging =>
        /\ pc' = "send"
        /\ session[frame'.session].closed = None
        /\ frame'.key \notin done
        /\ Asks(frame'.session, frame'.key)

LEMMA OpenWhenAsked ==
    ASSUME NEW s, ~IsClosed(session[s]) PROVE session[s].closed = None
  BY DEF IsClosed, Liveness

LEMMA SendsToOpen ==
    /\ Finish => Sends
    /\ Raise => Sends
    /\ \A n, r : CallFlag(n, r) \/ AfterComment(n, r) => Sends
    /\ \A n, key, r : CallComment(n, key, r) => Sends
    /\ \A s, n, key, g :
          Asks(s, key) /\ CallMessage(s, n, key, g, Finish) => Sends
    /\ \A s, n, key, g, m, r :
          Asks(s, key) /\ CallMessage(s, n, key, g, CallFlag(m, r)) => Sends
    /\ \A s, n, key, g, m, k, r :
          Asks(s, key) /\ CallMessage(s, n, key, g, CallComment(m, k, r)) => Sends
<1>1. /\ Finish => Sends
      /\ Raise => Sends
      /\ \A n, r : CallFlag(n, r) => Sends
  BY DEF Finish, Raise, CallFlag, Sends, Messaging
<1>2. \A n, r : AfterComment(n, r) => Sends
  BY <1>1 DEF AfterComment
<1>3. \A n, key, r : CallComment(n, key, r) => Sends
  BY <1>2 DEF CallComment, Sends, Messaging
<1>4. ASSUME NEW s, NEW n, NEW key, NEW g, Asks(s, key), MayMessage(s, key, g),
             CallSend(s, n, key)
      PROVE  Sends
  <2>1. /\ pc' = "send" /\ frame'.session = s /\ frame'.key = key
        /\ session[s].closed = None /\ key \notin done
    BY <1>4, OpenWhenAsked DEF CallSend, NoFrame, MayMessage
  <2> QED
    BY <1>4, <2>1 DEF Sends
<1> QED
  BY <1>1, <1>2, <1>3, <1>4 DEF CallMessage

\* Where the handlers of the inbox, of a session and of a pull request go.
LEMMA HandlersSend ==
    /\ \A p, sha : SessionOfPull(p) # 0 /\ FeedCiFailure(p, sha) => Sends
    /\ \A p : AdvancePull(p) => Sends
    /\ \A n, o : pc = "act" /\ ActOn(frame.session, n, o) => Sends
    /\ \A n : RegisterIssueVerified(n) => Sends
<1>1. ASSUME NEW p, NEW sha, SessionOfPull(p) # 0, FeedCiFailure(p, sha) PROVE Sends
  <2>1. KnownPull(p) /\ p \in Pulls
    BY <1>1 DEF SessionOfPull, KnownPull
  <2>2. ~CiExhausted(p) => Asks(pull[p].session, <<"ci", p, sha>>)
    BY <2>1 DEF Asks
  <2> QED
    BY <1>1, <2>2, SendsToOpen DEF FeedCiFailure
<1>2. \A p : AdvancePull(p) => Sends
  <2>1. \A p : SettleMerged(p) => Sends
    BY SendsToOpen DEF SettleMerged, Sends, Messaging
  <2>2. \A p : SettleClosed(p) \/ WatchPull(p) => Sends
    BY SendsToOpen DEF SettleClosed, WatchPull
  <2>3. ASSUME NEW p, NEW sha, FeedMergeConflict(p, sha) PROVE Sends
    <3>1. ~ConflictExhausted(p) => Asks(SessionOfPull(p), <<"conflict", p, sha>>)
      BY DEF Asks
    <3> QED
      BY <2>3, <3>1, SendsToOpen DEF FeedMergeConflict
  <2> QED
    BY <1>1, <2>1, <2>2, <2>3, SendsToOpen DEF AdvancePull
<1>3. ASSUME NEW n, NEW o, pc = "act", ActOn(frame.session, n, o) PROVE Sends
  <2> DEFINE s == frame.session
  <2>1. NudgeAllowed(s) => Asks(s, NudgeKey(s))
    BY <1>3 DEF Asks
  <2>2. HandleBlocked(s, n) => Sends
    BY <2>1, SendsToOpen DEF HandleBlocked
  <2> QED
    BY <1>3, <2>2, SendsToOpen DEF ActOn, ReportCompletion, FlagEnd
<1>4. \A n : RegisterIssueVerified(n) => Sends
  BY SendsToOpen DEF RegisterIssueVerified, Sends, Messaging
<1> QED
  BY <1>1, <1>2, <1>3, <1>4

\* Every way into a message, and every step of one.
LEMMA MessagingSteps ==
    ASSUME Next
    PROVE  \/ Sends /\ UNCHANGED <<session, done>>
           \/ pc' \notin Messaging
           \/ /\ pc \in Messaging /\ frame' = frame
              /\ SendMessage \/ MessageRecorded \/ MessageStamped
<1>1. CASE EffectSteps
  <2>1. CASE Flag \/ Comment
    BY <2>1, SendsToOpen DEF Flag, Comment, storeVars, Sends, Messaging
  <2>2. CASE ClearFlag \/ NudgeCounted \/ CiRoundCounted \/ BudgetsReset
    BY <2>2 DEF ClearFlag, NudgeCounted, CiRoundCounted, BudgetsReset, Finish, Messaging
  <2>3. CASE SendMessage
    BY <2>3 DEF SendMessage, Raise, Messaging
  <2>4. CASE MessageRecorded \/ MessageStamped
    BY <2>4 DEF MessageRecorded, MessageStamped, Finish, Messaging
  <2>5. CASE CommentRecorded \/ CreateSession \/ SessionRecorded
    BY <2>5 DEF CommentRecorded, CreateSession, SessionRecorded, CallComment, AfterComment,
                CallFlag, Finish, Messaging
  <2> QED
    BY <1>1, <2>1, <2>2, <2>3, <2>4, <2>5 DEF EffectSteps
<1>2. CASE DrainInbox
  <2>1. ASSUME NEW e \in Events, HandleLabeled(e) \/ HandlePullClosed(e)
        PROVE  Sends /\ UNCHANGED <<session, done>>
    BY <2>1, HandlersSend, SendsToOpen DEF HandleLabeled, HandlePullClosed
  <2>2. ASSUME NEW e \in Events, HandleCiFailed(e)
        PROVE  Sends /\ UNCHANGED <<session, done>>
    BY <2>2, HandlersSend, SendsToOpen DEF HandleCiFailed, storeVars
  <2>3. ASSUME NEW e \in Events, HandleReview(e) \/ HandleReply(e)
        PROVE  Sends /\ UNCHANGED <<session, done>>
    <3>1. Asks(SessionOfPull(e.pull), <<"review", e.id>>)
      BY DEF Asks
    <3>2. e.kind = "issue_comment" /\ LatestSession(e.issue) # 0
          => Asks(LatestSession(e.issue), <<"reply", e.id>>)
      BY DEF Asks
    <3> QED
      BY <2>3, <3>1, <3>2, SendsToOpen DEF HandleReview, HandleReply, storeVars
  <2>4. CASE RetryClearsFlag \/ SupersedeOpenSessions \/ Dispatched \/ DispatchFailed
    BY <2>4 DEF RetryClearsFlag, SupersedeOpenSessions, Dispatched, DispatchFailed, Finish,
                CallFlag, Messaging
  <2> QED
    BY <1>2, <2>1, <2>2, <2>3, <2>4 DEF DrainInbox
<1>3. CASE StartSessions
  BY <1>3 DEF StartSessions, StartDeferred, StartOverBudget, ReserveAttempt, CallFlag,
              FirstQueued, Messaging
<1>4. CASE TrackSessions
  <2>1. CASE ActOnPoll
    BY <2>1, HandlersSend DEF ActOnPoll
  <2> QED
    BY <1>4, <2>1 DEF TrackSessions, TimeOut, PollFails, Poll, CallFlag, Raise, Messaging
<1>5. CASE \/ \E p \in Pulls : TrackPull(p)
           \/ \E n \in Issues : RecoverIssue(n)
  BY <1>5, HandlersSend DEF TrackPull, RecoverIssue
<1>6. CASE TickBegins \/ PassEnds \/ RefreshInsights \/ Crash
  BY <1>6 DEF TickBegins, PassEnds, RefreshInsights, Crash, BeginPass, Messaging
<1>7. CASE World
  BY <1>7 DEF World, Arrive, GraceElapses, SessionAges, PullGoesStale, BetweenHandlers,
              Messaging
<1> QED
  BY <1>1, <1>2, <1>3, <1>4, <1>5, <1>6, <1>7 DEF Next, Loop

\* A retry begins as an issue is registered, and its steps follow one another.
LEMMA RetryingSteps ==
    ASSUME Next, pc' \in Retrying
    PROVE  /\ pass' = pass
           /\ pass \in {"drain", "resync"} \/ pc \in Retrying
           /\ \/ pc \in Retrying
              \/ \E e \in Events : HandleLabeled(e)
              \/ \E n \in Issues : RecoverIssue(n)
<1>1. /\ Finish \/ Raise => pc' \notin Retrying
      /\ \A n, r : CallFlag(n, r) \/ AfterComment(n, r) => pc' \notin Retrying
      /\ \A n, key, r : CallComment(n, key, r) => pc' \notin Retrying
      /\ \A s, n, key : CallSend(s, n, key) => pc' \notin Retrying
  BY DEF Finish, Raise, CallFlag, AfterComment, CallComment, CallSend, Retrying
<1>2. ~EffectSteps
  BY <1>1 DEF EffectSteps, Flag, Comment, CommentRecorded, ClearFlag, SendMessage,
              MessageRecorded, MessageStamped, NudgeCounted, CiRoundCounted, BudgetsReset,
              CreateSession, SessionRecorded, Retrying
<1>3. \A p, sha : FeedCiFailure(p, sha) => pc' \notin Retrying
  BY <1>1 DEF FeedCiFailure, CallMessage
<1>4. \A p : AdvancePull(p) => pc' \notin Retrying
  BY <1>1, <1>3 DEF AdvancePull, SettleMerged, SettleClosed, WatchPull, FeedMergeConflict,
                    CallMessage, Retrying
<1>5. ASSUME NEW e \in Events,
             HandleCiFailed(e) \/ HandleReview(e) \/ HandleReply(e) \/ HandlePullClosed(e)
      PROVE  FALSE
  BY <1>1, <1>3, <1>4, <1>5 DEF HandleCiFailed, HandleReview, HandleReply,
                                HandlePullClosed, CallMessage
<1>6. CASE DrainInbox
  <2>1. ASSUME NEW e \in Events, HandleLabeled(e)
        PROVE  pass' = pass /\ pass = "drain"
    BY <2>1 DEF HandleLabeled, TakesEvent, Takes
  <2>2. CASE RetryClearsFlag
    BY <2>2 DEF RetryClearsFlag, Retrying
  <2>3. ~SupersedeOpenSessions /\ ~Dispatched /\ ~DispatchFailed
    BY <1>1 DEF SupersedeOpenSessions, Dispatched, DispatchFailed, Retrying
  <2> QED
    BY <1>5, <1>6, <2>1, <2>2, <2>3 DEF DrainInbox
<1>7. ~StartSessions
  BY <1>1 DEF StartSessions, StartDeferred, StartOverBudget, ReserveAttempt, FirstQueued,
              Retrying
<1>8. ~TrackSessions
  <2>1. \A s, n, o : ActOn(s, n, o) => pc' \notin Retrying
    BY <1>1 DEF ActOn, ReportCompletion, FlagEnd, HandleBlocked, CallMessage
  <2> QED
    BY <1>1, <2>1 DEF TrackSessions, TimeOut, PollFails, Poll, ActOnPoll, Retrying
<1>9. \A p \in Pulls : ~TrackPull(p)
  BY <1>4 DEF TrackPull
<1>10. ASSUME NEW n \in Issues, RecoverIssue(n)
       PROVE  pass' = pass /\ pass = "resync"
  BY <1>10 DEF RecoverIssue, TakesUnknownIssue, Takes
<1>11. ~TickBegins /\ ~PassEnds /\ ~RefreshInsights /\ ~Crash /\ ~World
  BY DEF TickBegins, PassEnds, RefreshInsights, Crash, BeginPass, World, Arrive,
         GraceElapses, SessionAges, PullGoesStale, BetweenHandlers, Retrying
<1> QED
  BY <1>2, <1>6, <1>7, <1>8, <1>9, <1>10, <1>11 DEF Next, Loop

\* The rows left in a pass over the sessions were there when it began.
LEMMA RowsLeftOnly ==
    ASSUME Next, pass' = "track", ~PassEnds
    PROVE  pass = "track" /\ todo' \subseteq todo
<1>1. ~TickBegins /\ ~RefreshInsights /\ ~Crash
  BY DEF TickBegins, RefreshInsights, Crash, BeginPass
<1>2. pass = "track"
  BY <1>1, QuietStep
<1>3. CASE DrainInbox
  BY <1>3 DEF DrainInbox, HandleLabeled, HandleCiFailed, HandleReview, HandleReply,
              HandlePullClosed, TakesEvent, Takes, RetryClearsFlag, SupersedeOpenSessions,
              Dispatched, DispatchFailed, loopVars
<1>4. CASE StartSessions
  BY <1>4 DEF StartSessions, StartDeferred, StartOverBudget, ReserveAttempt
<1>5. CASE TrackSessions
  BY <1>5 DEF TrackSessions, TimeOut, PollFails, Poll, TakesSession, Takes, ActOnPoll,
              loopVars
<1>6. CASE \/ \E p \in Pulls : TrackPull(p)
           \/ \E n \in Issues : RecoverIssue(n)
  BY <1>6 DEF TrackPull, TakesPull, RecoverIssue, TakesUnknownIssue, Takes
<1>7. CASE World
  BY <1>7 DEF World, Arrive, GraceElapses, SessionAges, PullGoesStale, loopVars
<1>8. CASE EffectSteps /\ UNCHANGED loopVars
  BY <1>2, <1>8 DEF loopVars
<1>9. todo' \subseteq todo
  BY <1>1, <1>3, <1>4, <1>5, <1>6, <1>7, <1>8 DEF Next, Loop
<1> QED
  BY <1>2, <1>9

\* What a step does to the row of a session, other than recording a new one: it
\* leaves it, sets columns of it that say nothing of its end, or ends it.
Same(s) == session'[s] = session[s]
Billing(s) == session'[s] = [session[s] EXCEPT !.acus = session'[s].acus]

LEMMA RowSame ==
    ASSUME TypeOK, NEW s \in SessionIds, Same(s) PROVE Billing(s)
<1>1. session[s] \in SessionRow
  BY DEF TypeOK, StoreTypeOK
<1> QED
  BY <1>1 DEF SessionRow, Same, Billing

LEMMA EffectsOnRows ==
    ASSUME TypeOK, EffectSteps, NEW s \in SessionIds
    PROVE  /\ \/ Same(s)
              \/ /\ s = frame.session
                 /\ SessionRecorded \/ MessageStamped \/ NudgeCounted \/ BudgetsReset
           /\ session[s].closed = None => session'[s].closed = None
<1>1. session \in [SessionIds -> SessionRow] /\ session[s] \in SessionRow
  BY DEF TypeOK, StoreTypeOK
<1>2. CASE session' = session
  BY <1>2 DEF Same
<1>3. CASE SessionRecorded
  BY <1>1, <1>3 DEF SessionRecorded, CreateSessionRow, NoSession, Same
<1>4. CASE MessageStamped
  BY <1>1, <1>4 DEF MessageStamped, MarkMessageSent, SessionRow, Same
<1>5. CASE NudgeCounted
  <2> DEFINE r == [session[frame.session] EXCEPT !.nudges = session[frame.session].nudges + 1]
  <2>1. session' = [session EXCEPT ![frame.session] = r]
    BY <1>5 DEF NudgeCounted, BumpNudges
  <2>2. frame.session = s => r.closed = session[s].closed
    BY <1>1 DEF SessionRow
  <2> HIDE DEF r
  <2> QED
    BY <1>1, <1>5, <2>1, <2>2 DEF Same
<1>6. CASE BudgetsReset
  BY <1>1, <1>6 DEF BudgetsReset, ResetBudgets, SessionRow, Same
<1>7. EffectSteps => \/ session' = session \/ SessionRecorded \/ MessageStamped
                     \/ NudgeCounted \/ BudgetsReset
  BY DEF EffectSteps, Flag, Comment, CommentRecorded, ClearFlag, SendMessage,
         MessageRecorded, CiRoundCounted, CreateSession, storeVars
<1> QED
  BY <1>2, <1>3, <1>4, <1>5, <1>6, <1>7

LEMMA OthersOnRows ==
    ASSUME TypeOK, Next, ~EffectSteps, NEW s \in SessionIds
    PROVE  \/ Billing(s) /\ session'[s].closed = session[s].closed
           \/ /\ session[s].closed = None /\ session[s].issue # 0
              /\ session'[s].closed = None
           \/ /\ session[s].closed = None
              /\ SupersedeOpenSessions /\ session[s].issue = frame.issue
           \/ TimeOut(s) \/ \E o \in Observations : Poll(s, o)
<1>1. session \in [SessionIds -> SessionRow] /\ session[s] \in SessionRow
  BY DEF TypeOK, StoreTypeOK
<1>2. ASSUME Same(s) PROVE Billing(s) /\ session'[s].closed = session[s].closed
  BY <1>2, RowSame DEF Same
<1>3. CASE SupersedeOpenSessions
  <2>1. CASE s \in Superseded(frame.issue)
    BY <1>3, <2>1, OpenWhenAsked DEF Superseded, SessionsOf
  <2>2. CASE s \notin Superseded(frame.issue)
    BY <1>2, <1>3, <2>2 DEF SupersedeOpenSessions, Same
  <2> QED
    BY <2>1, <2>2
<1>4. ASSUME NEW t \in SessionIds, TimeOut(t) \/ \E o \in Observations : Poll(t, o), t # s
      PROVE  Same(s)
  BY <1>1, <1>4 DEF TimeOut, CloseSession, Poll, RecordPoll, Same
<1>5. ASSUME NEW t \in SessionIds, GraceElapses(t) \/ SessionAges(t)
      PROVE  Same(s) \/ (/\ session[s].closed = None /\ session[s].issue # 0
                         /\ session'[s].closed = None)
  <2>1. IsOpen(t) /\ session[t].closed = None
    BY <1>5, OpenWhenAsked DEF GraceElapses, SessionAges, IsOpen
  <2>2. \/ session' = [session EXCEPT ![t] = [session[t] EXCEPT !.grace = FALSE]]
        \/ session' = [session EXCEPT ![t] = [session[t] EXCEPT !.aged = TRUE]]
    BY <1>5 DEF GraceElapses, SessionAges
  <2>3. CASE s = t
    BY <1>1, <2>1, <2>2, <2>3 DEF IsOpen, SessionRow
  <2>4. CASE s # t
    BY <1>1, <2>2, <2>4 DEF Same
  <2> QED
    BY <2>3, <2>4
<1>6. ASSUME NEW f, ApplyInsights(f)
      PROVE  Billing(s) /\ session'[s].closed = session[s].closed
  <2> DEFINE acus == IF f[s] > session[s].acus THEN f[s] ELSE session[s].acus
  <2>1. session'[s] = session[s] \/ session'[s] = [session[s] EXCEPT !.acus = acus]
    BY <1>6 DEF ApplyInsights
  <2> HIDE DEF acus
  <2>2. CASE session'[s] = [session[s] EXCEPT !.acus = acus]
    <3>1. session'[s].acus = acus /\ session'[s].closed = session[s].closed
      BY <1>1, <2>2 DEF SessionRow
    <3> QED
      BY <2>2, <3>1 DEF Billing
  <2> QED
    BY <1>2, <2>1, <2>2 DEF Same
<1>7. CASE RefreshInsights
  BY <1>2, <1>6, <1>7 DEF RefreshInsights, Same
<1>8. CASE World
  BY <1>2, <1>5, <1>8 DEF World, Arrive, PullGoesStale, Same
<1>9. CASE TrackSessions
  <2>1. CASE ActOnPoll \/ \E t \in SessionIds : PollFails(t)
    BY <1>2, <2>1 DEF ActOnPoll, PollFails, storeVars, Same
  <2> QED
    BY <1>2, <1>4, <1>9, <2>1 DEF TrackSessions
<1>10. CASE DrainInbox
  BY <1>2, <1>3, <1>10 DEF DrainInbox, HandleLabeled, HandleCiFailed, HandleReview,
       HandleReply, HandlePullClosed, RetryClearsFlag, Dispatched, DispatchFailed,
       storeVars, Same
<1>11. CASE \/ StartSessions \/ TickBegins \/ PassEnds \/ Crash
            \/ \E p \in Pulls : TrackPull(p)
            \/ \E n \in Issues : RecoverIssue(n)
  BY <1>2, <1>11 DEF StartSessions, StartDeferred, StartOverBudget, ReserveAttempt,
       TickBegins, PassEnds, Crash, TrackPull, RecoverIssue, storeVars, Same
<1> QED
  BY <1>7, <1>8, <1>9, <1>10, <1>11 DEF Next, Loop

LEMMA UnpaidStays ==
    ASSUME TypeOK, Next, NEW s \in SessionIds, billed'[s] = Unbilled
    PROVE  billed[s] = Unbilled
<1>1. billed \in [SessionIds -> (Issues \X Nat) \cup {Unbilled}]
  BY DEF TypeOK
<1>2. CASE CreateSession
  <2>1. frame.issue \in Issues /\ frame.issue # 0
    <3>1. frame.issue \in Issues
      BY <1>2 DEF CreateSession, TypeOK, HandlerTypeOK, InHandler, Steps
    <3> QED
      BY <3>1, StoreAssumption
  <2>2. ASSUME NEW t \in SessionIds, Bill(t) PROVE billed[s] = Unbilled
    <3> DEFINE attempt == <<frame.issue, issue[frame.issue].attempts>>
    <3>1. attempt # Unbilled
      BY <2>1 DEF Unbilled
    <3>2. billed' = [billed EXCEPT ![t] = attempt]
      BY <2>2 DEF Bill
    <3> HIDE DEF attempt
    <3> QED
      BY <1>1, <3>1, <3>2
  <2> QED
    BY <1>2, <2>2 DEF CreateSession, UnusedSessions
<1>3. CASE \E n \in Issues : ReserveAttempt(n)
  BY <1>3 DEF ReserveAttempt, history
<1> QED
  BY <1>2, <1>3, StartsNothingElsewhere DEF StartsNothing

LEMMA UnpaidBlankKept ==
    ASSUME TypeOK, FinalInv, Next PROVE UnpaidBlank'
<1> SUFFICES ASSUME NEW s \in SessionIds, billed'[s] = Unbilled
             PROVE  session'[s].issue = 0 /\ session'[s].closed = None
  BY DEF UnpaidBlank
<1>1. billed[s] = Unbilled /\ session[s].issue = 0 /\ session[s].closed = None
  BY UnpaidStays DEF FinalInv, UnpaidBlank
<1>2. ~SessionRecorded => session'[s].issue = 0
  BY <1>1, NextOpensNone DEF NoneOpened, StaysOrCloses
<1>3. CASE EffectSteps
  <2>1. session'[s].closed = None
    BY <1>1, <1>3, EffectsOnRows
  <2>2. CASE SessionRecorded
    <3>1. s # frame.session
      BY <1>1, <2>2 DEF SessionRecorded, FinalInv, RecordsBlank
    <3>2. Same(s)
      BY <1>3, <3>1, EffectsOnRows
    <3> QED
      BY <1>1, <3>2 DEF Same
  <2> QED
    BY <1>2, <2>1, <2>2
<1>4. CASE ~EffectSteps
  <2>1. ~SessionRecorded
    BY <1>4 DEF EffectSteps
  <2>2. ~(SupersedeOpenSessions /\ session[s].issue = frame.issue)
    <3>1. SupersedeOpenSessions => frame.issue \in Issues
      BY DEF SupersedeOpenSessions, TypeOK, HandlerTypeOK, InHandler, Steps
    <3> QED
      BY <1>1, <3>1, StoreAssumption
  <2>3. ~TimeOut(s) /\ \A o \in Observations : ~Poll(s, o)
    BY <1>1 DEF TimeOut, Poll, TakesSession, Takes, TypeOK, TodoTypeOK
  <2>4. session'[s].closed = None
    BY <1>1, <1>4, <2>2, <2>3, OthersOnRows
  <2> QED
    BY <1>2, <2>1, <2>4
<1> QED
  BY <1>3, <1>4

LEMMA RecordsBlankKept ==
    ASSUME TypeOK, FinalInv, Next PROVE RecordsBlank'
<1> SUFFICES ASSUME pc' = "record"
             PROVE  /\ billed'[frame'.session] # Unbilled
                    /\ session'[frame'.session].issue = 0
                    /\ session'[frame'.session].closed = None
  BY DEF RecordsBlank
<1>1. CreateSession
  <2>1. \A n \in Issues : ~ReserveAttempt(n)
    BY DEF ReserveAttempt
  <2> QED
    BY <2>1, StartsNothingElsewhere DEF StartsNothing
<1>2. PICK s \in UnusedSessions : Bill(s) /\ frame' = [frame EXCEPT !.session = s]
  BY <1>1 DEF CreateSession, CallFlag
<1>3. s \in SessionIds /\ billed[s] = Unbilled
  BY DEF UnusedSessions
<1>4. frame'.session = s /\ session' = session /\ billed'[s] # Unbilled
  <2>1. frame'.session = s
    BY <1>2 DEF TypeOK, HandlerTypeOK, Frame
  <2>2. frame.issue \in Issues /\ frame.issue # 0
    <3>1. frame.issue \in Issues
      BY <1>1 DEF CreateSession, TypeOK, HandlerTypeOK, InHandler, Steps
    <3> QED
      BY <3>1, StoreAssumption
  <2>3. billed'[s] = <<frame.issue, issue[frame.issue].attempts>>
    BY <1>2, <1>3 DEF Bill, TypeOK
  <2>4. billed'[s] # Unbilled
    BY <2>2, <2>3 DEF Unbilled
  <2> QED
    BY <1>1, <2>1, <2>4 DEF CreateSession, storeVars
<1> QED
  BY <1>3, <1>4 DEF FinalInv, UnpaidBlank

LEMMA MessagesOpenKept ==
    ASSUME TypeOK, FinalInv, Next PROVE MessagesOpen'
<1> SUFFICES ASSUME pc' \in Messaging PROVE session'[frame'.session].closed = None
  BY DEF MessagesOpen
<1>1. CASE Sends /\ UNCHANGED <<session, done>>
  BY <1>1 DEF Sends
<1>2. CASE pc \in Messaging /\ frame' = frame /\ EffectSteps
  <2>1. frame.session \in SessionIds
    BY <1>2 DEF Messaging, TypeOK, HandlerTypeOK
  <2>2. session[frame.session].closed = None
    BY <1>2 DEF FinalInv, MessagesOpen
  <2> QED
    BY <1>2, <2>1, <2>2, EffectsOnRows
<1> QED
  BY <1>1, <1>2, MessagingSteps DEF EffectSteps

LEMMA TracksOpenKept ==
    ASSUME TypeOK, FinalInv, Next PROVE TracksOpen'
<1> SUFFICES ASSUME pass' = "track", NEW s \in todo' PROVE session'[s].closed = None
  BY DEF TracksOpen
<1>1. CASE PassEnds
  <2>1. s \in Work("track") /\ session' = session
    BY <1>1 DEF PassEnds, BeginPass, storeVars
  <2> QED
    BY <2>1, OpenWhenAsked DEF Work
<1>2. CASE ~PassEnds
  <2>1. pass = "track" /\ s \in todo
    BY <1>2, RowsLeftOnly
  <2>2. s \in SessionIds /\ session[s].closed = None
    BY <2>1 DEF FinalInv, TracksOpen, TypeOK, TodoTypeOK
  <2>3. ~SupersedeOpenSessions
    BY <2>1 DEF SupersedeOpenSessions, FinalInv, RetriesElsewhere, Retrying
  <2>4. ~TimeOut(s) /\ \A o \in Observations : ~Poll(s, o)
    BY DEF TimeOut, Poll, TakesSession, Takes
  <2>5. CASE EffectSteps
    BY <2>2, <2>5, EffectsOnRows
  <2>6. CASE ~EffectSteps
    BY <2>2, <2>3, <2>4, <2>6, OthersOnRows
  <2> QED
    BY <2>5, <2>6
<1> QED
  BY <1>1, <1>2

LEMMA FinalInvKept ==
    ASSUME TypeOK, FinalInv, [Next]_vars PROVE FinalInv'
<1>1. CASE Next
  <2>1. RetriesElsewhere'
    BY <1>1, RetryingSteps DEF FinalInv, RetriesElsewhere
  <2> QED
    BY <1>1, <2>1, UnpaidBlankKept, RecordsBlankKept, MessagesOpenKept, TracksOpenKept
       DEF FinalInv
<1>2. CASE UNCHANGED vars
  BY <1>2 DEF vars, storeVars, loopVars, FinalInv, UnpaidBlank, RecordsBlank,
              MessagesOpen, TracksOpen, RetriesElsewhere
<1> QED
  BY <1>1, <1>2

LEMMA FinalInvInit == ASSUME Init PROVE FinalInv
  BY DEF Init, StoreInit, EffectsInit, NoSession, FinalInv, UnpaidBlank, RecordsBlank,
         MessagesOpen, TracksOpen, RetriesElsewhere, Messaging, Retrying

\* A closed session is over: nothing reopens its row, closes it for another reason
\* or counts anything on it again, and only its bill may still grow
\* (orchestrator.py:247-254, 356-389; effects.py:62-80).
THEOREM ClosedStaysClosed == Spec => ClosedIsFinal
<1> DEFINE Final ==
      \A s \in SessionIds :
          session[s].closed # None
          => session'[s] = [session[s] EXCEPT !.acus = session'[s].acus]
<1>1. TypeOK /\ FinalInv /\ Next => Final
  <2> SUFFICES ASSUME TypeOK, FinalInv, Next, NEW s \in SessionIds,
                      session[s].closed # None
               PROVE  Billing(s)
    BY DEF Billing
  <2>1. CASE EffectSteps
    <3>1. ~(s = frame.session /\ SessionRecorded)
      BY DEF SessionRecorded, FinalInv, RecordsBlank
    <3>2. ~(s = frame.session /\ (MessageStamped \/ NudgeCounted \/ BudgetsReset))
      BY DEF MessageStamped, NudgeCounted, BudgetsReset, FinalInv, MessagesOpen, Messaging
    <3>3. Same(s)
      BY <2>1, <3>1, <3>2, EffectsOnRows
    <3> QED
      BY <3>3, RowSame
  <2>2. CASE ~EffectSteps
    <3>1. ~TimeOut(s) /\ \A o \in Observations : ~Poll(s, o)
      BY DEF TimeOut, Poll, TakesSession, Takes, FinalInv, TracksOpen
    <3> QED
      BY <2>2, <3>1, OthersOnRows
  <2> QED
    BY <2>1, <2>2
<1>2. TypeOK /\ UNCHANGED vars => Final
  <2> SUFFICES ASSUME TypeOK, UNCHANGED vars, NEW s \in SessionIds PROVE Billing(s)
    BY DEF Billing
  <2>1. Same(s)
    BY DEF vars, storeVars, Same
  <2> QED
    BY <2>1, RowSame
<1> HIDE DEF Final
<1>3. TypeOK /\ FinalInv /\ [Next]_vars => Final
  BY <1>1, <1>2
<1>4. Init => FinalInv
  BY FinalInvInit
<1>5. TypeOK /\ FinalInv /\ [Next]_vars => FinalInv'
  BY FinalInvKept
<1> USE DEF Final
<1> QED
  BY <1>3, <1>4, <1>5, TypeCorrect, PTL DEF Spec, ClosedIsFinal

-----------------------------------------------------------------------------
(* The life of an issue                                                    *)

\* What the dashboard's status and the verdict to start read of a row.
IssueKept(n) ==
    /\ issue'[n].known = issue[n].known /\ issue'[n].attempts = issue[n].attempts
    /\ issue'[n].retry = issue[n].retry /\ issue'[n].reason = issue[n].reason
SessionKept(s) ==
    /\ session'[s].issue = session[s].issue /\ session'[s].closed = session[s].closed
    /\ session'[s].status = session[s].status /\ session'[s].detail = session[s].detail
    /\ session'[s].produced = session[s].produced
PullKept(p) ==
    /\ pull'[p].issue = pull[p].issue
    /\ pull'[p].merged = pull[p].merged /\ pull'[p].closed = pull[p].closed

\* A step that concerns issue m, 0 if it concerns none.
SessionsOnly(m) ==
    \A s \in SessionIds :
        SessionKept(s) \/ {session[s].issue, session'[s].issue} \subseteq {0, m}
PullsOnly(m) ==
    \A p \in Pulls : PullKept(p) \/ {pull[p].issue, pull'[p].issue} \subseteq {0, m}
Only(m) ==
    /\ \A n \in Issues \ {m} : IssueKept(n)
    /\ SessionsOnly(m) /\ PullsOnly(m)

LEMMA LifeElsewhere ==
    ASSUME TypeOK, NEW m, Only(m), NEW n \in Issues \ {m}
    PROVE  LifeOf(n)' = LifeOf(n) /\ WantsSession(issue[n])' = WantsSession(issue[n])
<1>1. n # 0
  BY StoreAssumption
<1>2. IssueKept(n)
  BY DEF Only
<1>3. \A s \in SessionIds : /\ session'[s].issue = n <=> session[s].issue = n
                            /\ session[s].issue = n => SessionKept(s)
  BY <1>1 DEF Only, SessionsOnly, SessionKept
<1>4. \A p \in Pulls : /\ pull'[p].issue = n <=> pull[p].issue = n
                       /\ pull[p].issue = n => PullKept(p)
  BY <1>1 DEF Only, PullsOnly, PullKept
<1>5. WantsSession(issue[n])' = WantsSession(issue[n])
  BY <1>2 DEF IssueKept, WantsSession
<1>6. SessionsOf(n)' = SessionsOf(n) /\ PullsOf(n)' = PullsOf(n)
  BY <1>3, <1>4 DEF SessionsOf, PullsOf
<1>7. (\E p \in {pull[q] : q \in PullsOf(n)} : p.merged)'
      <=> \E p \in {pull[q] : q \in PullsOf(n)} : p.merged
  BY <1>4, <1>6 DEF PullsOf, PullKept
<1>8. (\E p \in {pull[q] : q \in PullsOf(n)} : ~p.merged /\ ~p.closed)'
      <=> \E p \in {pull[q] : q \in PullsOf(n)} : ~p.merged /\ ~p.closed
  BY <1>4, <1>6 DEF PullsOf, PullKept
<1>9. (\E s \in {session[t] : t \in SessionsOf(n)} : ~IsClosed(s) /\ ~s.produced)'
      <=> \E s \in {session[t] : t \in SessionsOf(n)} : ~IsClosed(s) /\ ~s.produced
  <2>1. \A t \in SessionsOf(n) :
           /\ IsClosed(session'[t]) <=> IsClosed(session[t])
           /\ session'[t].produced = session[t].produced
    BY <1>3 DEF SessionsOf, SessionKept, IsClosed, Liveness
  <2> QED
    BY <1>6, <2>1
<1>10. StatusOf(n)' = StatusOf(n)
  BY <1>2, <1>5, <1>7, <1>8, <1>9 DEF StatusOf, IssueStatus, NeedsHuman, IssueKept
<1> QED
  BY <1>2, <1>5, <1>10 DEF LifeOf, IssueKept

\* Who writes the issues table, and what.
Asked(n) ==
    /\ pc = "next" /\ pc' # "create" /\ UNCHANGED <<session, pull, billed>>
    /\ \/ ~issue[n].known /\ RegisterIssue(n)
       \/ /\ issue[n].known /\ RequestRetry(n)
          /\ pc' = "retry" /\ frame'.issue = n
FlagMoved ==
    /\ frame.issue \in Issues /\ UNCHANGED <<session, pull>>
    /\ FlagForHuman(frame.issue, frame.reason) \/ ClearHumanFlag(frame.issue)

LEMMA IssueSteps ==
    ASSUME TypeOK, Next
    PROVE  \/ issue' = issue
           \/ FlagMoved /\ (Flag \/ ClearFlag \/ RetryClearsFlag)
           \/ \E n \in Issues : Asked(n) \/ ReserveAttempt(n)
<1>1. ASSUME NEW n \in Issues, RegisterIssueVerified(n), pc = "next",
             UNCHANGED <<session, pull, billed>>
      PROVE  issue' = issue \/ Asked(n)
  BY <1>1, GoesElsewhere DEF RegisterIssueVerified, Asked, NoFrame
<1>2. frame.issue \in Issues \/ pc \notin {"flag", "clear", "retry"}
  BY DEF TypeOK, HandlerTypeOK, InHandler, Steps
<1>3. CASE Flag \/ ClearFlag \/ RetryClearsFlag
  BY <1>2, <1>3 DEF Flag, ClearFlag, RetryClearsFlag, TakeFlagDown, FlagMoved
<1>4. CASE DrainInbox
  <2>1. ASSUME NEW e \in Events, HandleLabeled(e) PROVE issue' = issue \/ Asked(e.issue)
    <3>1. e.issue \in Issues /\ pc = "next"
      BY <2>1, EventType DEF HandleLabeled, TakesEvent, Takes
    <3> QED
      BY <1>1, <2>1, <3>1 DEF HandleLabeled, history
  <2>2. \A e \in Events : HandleLabeled(e) => e.issue \in Issues
    BY EventType DEF HandleLabeled
  <2> QED
    BY <1>3, <1>4, <2>1, <2>2 DEF DrainInbox, HandleCiFailed, HandleReview, HandleReply,
       HandlePullClosed, SupersedeOpenSessions, Dispatched, DispatchFailed, storeVars
<1>5. ASSUME NEW n \in Issues, RecoverIssue(n) PROVE issue' = issue \/ Asked(n)
  BY <1>1, <1>5 DEF RecoverIssue, TakesUnknownIssue, Takes, history
<1>6. CASE EffectSteps
  BY <1>3, <1>6 DEF EffectSteps, Comment, CommentRecorded, SendMessage, MessageRecorded,
     MessageStamped, NudgeCounted, CiRoundCounted, BudgetsReset, CreateSession,
     SessionRecorded, storeVars
<1>7. CASE \/ TickBegins \/ PassEnds \/ StartSessions \/ TrackSessions \/ RefreshInsights
           \/ World \/ Crash \/ \E p \in Pulls : TrackPull(p)
  BY <1>7 DEF TickBegins, PassEnds, StartSessions, StartDeferred, StartOverBudget,
     TrackSessions, TimeOut, PollFails, Poll, ActOnPoll, RefreshInsights, World, Arrive,
     GraceElapses, SessionAges, PullGoesStale, Crash, TrackPull, storeVars
<1> QED
  BY <1>4, <1>5, <1>6, <1>7 DEF Next, Loop

\* A flag says nothing else of its issue, and is raised on known issues only.
LEMMA FlagMovesReason ==
    ASSUME TypeOK, FlagMoved, NEW n \in Issues
    PROVE  /\ issue'[n].known = issue[n].known
           /\ issue'[n].attempts = issue[n].attempts
           /\ issue'[n].retry = issue[n].retry
           /\ ~issue[n].known => issue'[n].reason \in {None, issue[n].reason}
           /\ n # frame.issue => issue'[n] = issue[n]
<1>1. issue \in [Issues -> IssueRow] /\ issue[n] \in IssueRow /\ frame.issue \in Issues
  BY DEF TypeOK, StoreTypeOK, FlagMoved
<1>2. CASE issue' = issue
  BY <1>2
<1>3. CASE ClearHumanFlag(frame.issue)
  BY <1>1, <1>3 DEF ClearHumanFlag, IssueRow
<1>4. CASE FlagIsNews(frame.issue, frame.reason) /\ FlagForHuman(frame.issue, frame.reason)
  <2>1. PICK k : issue' = [issue EXCEPT ![frame.issue].episode = k,
                                        ![frame.issue].reason = frame.reason]
    BY <1>4 DEF FlagForHuman
  <2>2. /\ issue'[n].known = issue[n].known /\ issue'[n].attempts = issue[n].attempts
        /\ issue'[n].retry = issue[n].retry
    BY <1>1, <2>1 DEF IssueRow
  <2>3. n # frame.issue => issue'[n] = issue[n]
    BY <1>1, <2>1
  <2>4. issue[frame.issue].known
    BY <1>4 DEF FlagIsNews
  <2> QED
    BY <2>2, <2>3, <2>4
<1> QED
  BY <1>2, <1>3, <1>4 DEF FlagMoved, FlagForHuman

\* Asking for work and reserving an attempt are about one issue as well.
LEMMA AskingKeeps ==
    ASSUME TypeOK, NEW m \in Issues, Asked(m), NEW n \in Issues
    PROVE  /\ issue'[n].known <=> (issue[n].known \/ n = m)
           /\ issue'[n].attempts = issue[n].attempts
           /\ issue'[n].reason = issue[n].reason
           /\ issue'[n].episode = issue[n].episode
           /\ n = m /\ issue[n].known => issue'[n].retry
           /\ n # m => issue'[n] = issue[n]
<1>1. issue \in [Issues -> IssueRow] /\ issue[n] \in IssueRow
  BY DEF TypeOK, StoreTypeOK
<1>2. CASE n # m
  BY <1>1, <1>2 DEF Asked, RegisterIssue, RequestRetry
<1>3. CASE n = m /\ RegisterIssue(m)
  <2>1. issue'[n] = [issue[n] EXCEPT !.known = TRUE]
    BY <1>1, <1>3 DEF RegisterIssue
  <2> QED
    BY <1>1, <1>3, <2>1 DEF IssueRow, Asked, RequestRetry
<1>4. CASE n = m /\ issue[n].known /\ RequestRetry(m)
  <2>1. issue'[n] = [issue[n] EXCEPT !.retry = TRUE]
    BY <1>1, <1>4 DEF RequestRetry
  <2> QED
    BY <1>1, <1>4, <2>1 DEF IssueRow
<1> QED
  BY <1>2, <1>3, <1>4 DEF Asked

LEMMA ReservingKeeps ==
    ASSUME TypeOK, NEW m \in Issues, ReserveAttempt(m), NEW n \in Issues
    PROVE  /\ issue'[n].known = issue[n].known
           /\ issue'[n].reason = issue[n].reason
           /\ issue'[n].episode = issue[n].episode
           /\ n = m => ~WantsSession(issue'[n])
           /\ n # m => issue'[n] = issue[n]
<1>1. issue \in [Issues -> IssueRow] /\ issue[n] \in IssueRow
  BY DEF TypeOK, StoreTypeOK
<1>2. BeginAttempt(m)
  BY DEF ReserveAttempt
<1>3. CASE n # m
  BY <1>1, <1>2, <1>3 DEF BeginAttempt
<1>4. CASE n = m
  <2>1. issue'[n] = [issue[n] EXCEPT !.attempts = issue[n].attempts + 1, !.retry = FALSE]
    BY <1>1, <1>2, <1>4 DEF BeginAttempt
  <2>2. /\ issue'[n].attempts = issue[n].attempts + 1 /\ issue'[n].retry = FALSE
        /\ issue'[n].episode = issue[n].episode
    BY <1>1, <2>1 DEF IssueRow
  <2> QED
    BY <1>1, <1>4, <2>1, <2>2 DEF IssueRow, WantsSession
<1> QED
  BY <1>3, <1>4

\* No step writes to the rows of two issues.
LEMMA TablesOnly ==
    ASSUME TypeOK, NEW m,
           \A n \in Issues \ {m} : issue'[n] = issue[n],
           SessionsOnly(m), PullsOnly(m)
    PROVE  Only(m)
  BY DEF Only, IssueKept

LEMMA UntouchedOnly ==
    ASSUME NEW m
    PROVE  /\ session' = session => SessionsOnly(m)
           /\ pull' = pull => PullsOnly(m)
  BY DEF SessionsOnly, SessionKept, PullsOnly, PullKept

\* The sessions: who writes to one, and to whose.
LEMMA OneSession ==
    ASSUME TypeOK, NoneOpened, NEW s \in SessionIds,
           \A t \in SessionIds \ {s} : Same(t)
    PROVE  SessionsOnly(session[s].issue)
  BY DEF NoneOpened, StaysOrCloses, SessionsOnly, SessionKept, Same

LEMMA SessionSteps ==
    ASSUME TypeOK, FinalInv, Next
    PROVE  \/ \A m : SessionsOnly(m)
           \/ /\ \E m : SessionsOnly(m)
              /\ issue' = issue /\ \A p \in Pulls : PullKept(p)
<1>1. ~SessionRecorded => NoneOpened
  BY NextOpensNone
<1>2. CASE session' = session
  BY <1>2, UntouchedOnly
<1>3. ASSUME pull' = pull PROVE \A p \in Pulls : PullKept(p)
  BY <1>3 DEF PullKept
<1>4. CASE SessionRecorded
  <2>1. \A s \in SessionIds \ {frame.session} : Same(s)
    BY <1>4, EffectsOnRows DEF EffectSteps
  <2>2. frame.session \in SessionIds /\ session[frame.session].issue = 0
    BY <1>4 DEF SessionRecorded, FinalInv, RecordsBlank, TypeOK, HandlerTypeOK
  <2>3. session'[frame.session].issue = frame.issue
    BY <1>4, <2>2 DEF SessionRecorded, CreateSessionRow, NoSession, TypeOK, StoreTypeOK
  <2>4. SessionsOnly(frame.issue)
    BY <2>1, <2>2, <2>3 DEF SessionsOnly, SessionKept, Same
  <2> QED
    BY <1>3, <1>4, <2>4 DEF SessionRecorded
<1>5. CASE MessageStamped \/ NudgeCounted \/ BudgetsReset
  <2>1. frame.session \in SessionIds
    BY <1>5 DEF MessageStamped, NudgeCounted, BudgetsReset, TypeOK, HandlerTypeOK
  <2>2. \A s \in SessionIds \ {frame.session} : Same(s)
    BY <1>5, EffectsOnRows DEF EffectSteps
  <2>3. ~SessionRecorded
    BY <1>5 DEF MessageStamped, NudgeCounted, BudgetsReset, SessionRecorded
  <2>4. SessionsOnly(session[frame.session].issue)
    BY <1>1, <2>1, <2>2, <2>3, OneSession
  <2>5. ASSUME BudgetsReset, NEW p \in Pulls PROVE PullKept(p)
    <3>1. pull[p] \in PullRow
      BY DEF TypeOK, StoreTypeOK
    <3>2. \/ pull'[p] = pull[p]
          \/ pull'[p] = [pull[p] EXCEPT !.rounds_base = pull[p].rounds,
                                        !.last_sha = None]
      BY <2>5 DEF BudgetsReset, ResetBudgets
    <3> QED
      BY <3>1, <3>2 DEF PullRow, PullKept
  <2> QED
    BY <1>3, <1>5, <2>4, <2>5 DEF MessageStamped, NudgeCounted, BudgetsReset
<1>6. CASE EffectSteps
  <2>1. EffectSteps => \/ session' = session \/ SessionRecorded \/ MessageStamped
                       \/ NudgeCounted \/ BudgetsReset
    BY DEF EffectSteps, Flag, Comment, CommentRecorded, ClearFlag, SendMessage,
           MessageRecorded, CiRoundCounted, CreateSession, storeVars
  <2> QED
    BY <1>2, <1>4, <1>5, <1>6, <2>1
<1>7. CASE SupersedeOpenSessions
  <2>1. \A s \in SessionIds \ SessionsOf(frame.issue) : Same(s)
    BY <1>7 DEF SupersedeOpenSessions, Superseded, Same
  <2>2. NoneOpened
    BY <1>1, <1>7 DEF SupersedeOpenSessions, SessionRecorded
  <2>3. SessionsOnly(frame.issue)
    BY <2>1, <2>2 DEF SessionsOf, NoneOpened, StaysOrCloses, SessionsOnly, SessionKept, Same
  <2> QED
    BY <1>3, <1>7, <2>3 DEF SupersedeOpenSessions
<1>8. ASSUME NEW s \in SessionIds,
             \/ TimeOut(s) \/ GraceElapses(s) \/ SessionAges(s)
             \/ \E o \in Observations : Poll(s, o)
      PROVE  \E m : SessionsOnly(m)
  <2>1. ASSUME NEW t \in SessionIds \ {s} PROVE Same(t)
    <3>1. session \in [SessionIds -> SessionRow]
      BY DEF TypeOK, StoreTypeOK
    <3>2. CASE TimeOut(s) \/ \E o \in Observations : Poll(s, o)
      BY <3>1, <3>2 DEF TimeOut, CloseSession, Poll, RecordPoll, Same
    <3>3. CASE GraceElapses(s) \/ SessionAges(s)
      BY <3>1, <3>3 DEF GraceElapses, SessionAges, Same
    <3> QED
      BY <1>8, <3>2, <3>3
  <2>2. ~SessionRecorded
    BY <1>8 DEF TimeOut, Poll, TakesSession, Takes, GraceElapses, SessionAges,
                BetweenHandlers, SessionRecorded
  <2> QED
    BY <1>1, <2>1, <2>2, OneSession
<1>9. CASE TrackSessions \/ World
  <2>1. TrackSessions \/ World =>
           \/ session' = session
           \/ \E s \in SessionIds : \/ TimeOut(s) \/ GraceElapses(s) \/ SessionAges(s)
                                    \/ \E o \in Observations : Poll(s, o)
    BY DEF TrackSessions, PollFails, ActOnPoll, World, Arrive, PullGoesStale, storeVars
  <2>2. ASSUME NEW s \in SessionIds,
               \/ TimeOut(s) \/ GraceElapses(s) \/ SessionAges(s)
               \/ \E o \in Observations : Poll(s, o)
        PROVE  issue' = issue /\ pull' = pull
    BY <2>2 DEF TimeOut, GraceElapses, SessionAges, Poll
  <2> QED
    BY <1>2, <1>3, <1>8, <1>9, <2>1, <2>2
<1>10. CASE RefreshInsights
  <2>1. ~EffectSteps
    BY <1>10 DEF RefreshInsights, EffectSteps, Flag, Comment, CommentRecorded, ClearFlag,
       SendMessage, MessageRecorded, MessageStamped, NudgeCounted, CiRoundCounted,
       BudgetsReset, CreateSession, SessionRecorded
  <2>2. ASSUME NEW s \in SessionIds PROVE SessionKept(s)
    <3>1. ASSUME NEW f, ApplyInsights(f) PROVE SessionKept(s)
      <4>1. session[s] \in SessionRow
        BY DEF TypeOK, StoreTypeOK
      <4> DEFINE acus == IF f[s] > session[s].acus THEN f[s] ELSE session[s].acus
      <4>2. session'[s] = session[s] \/ session'[s] = [session[s] EXCEPT !.acus = acus]
        BY <3>1 DEF ApplyInsights
      <4> HIDE DEF acus
      <4> QED
        BY <4>1, <4>2 DEF SessionRow, SessionKept
    <3> QED
      BY <1>10, <3>1 DEF RefreshInsights, SessionKept
  <2> QED
    BY <2>2 DEF SessionsOnly
<1>11. CASE DrainInbox
  BY <1>2, <1>7, <1>11 DEF DrainInbox, HandleLabeled, HandleCiFailed, HandleReview,
     HandleReply, HandlePullClosed, RetryClearsFlag, Dispatched, DispatchFailed, storeVars
<1>12. CASE \/ StartSessions \/ TickBegins \/ PassEnds \/ Crash
            \/ \E p \in Pulls : TrackPull(p)
            \/ \E n \in Issues : RecoverIssue(n)
  BY <1>2, <1>12 DEF StartSessions, StartDeferred, StartOverBudget, ReserveAttempt,
       TickBegins, PassEnds, Crash, TrackPull, RecoverIssue, storeVars
<1> QED
  BY <1>6, <1>9, <1>10, <1>11, <1>12 DEF Next, Loop

\* The pull requests: a new one is one of a session.
Linked ==
    \A p \in Pulls : \/ pull'[p].issue = pull[p].issue
                     \/ \E s \in SessionIds : pull'[p].issue = session[s].issue

LEMMA OnePull ==
    ASSUME TypeOK, NEW p \in Pulls, NEW q \in Pulls,
           \/ pull' = pull
           \/ pull' = [pull EXCEPT ![q].merged = TRUE]
           \/ pull' = [pull EXCEPT ![q].closed = TRUE]
    PROVE  pull'[p].issue = pull[p].issue /\ (p # q => PullKept(p))
<1>1. pull \in [Pulls -> PullRow]
  BY DEF TypeOK, StoreTypeOK
<1> QED
  BY <1>1 DEF PullRow, PullKept

PullWriter == ActOnPoll \/ \E q \in Pulls : AdvancePull(q)

LEMMA PullSteps ==
    ASSUME TypeOK, Next
    PROVE  \/ \A p \in Pulls : PullKept(p)
           \/ /\ UNCHANGED <<issue, session>> /\ Linked /\ \E m : PullsOnly(m)
              /\ PullWriter
<1>1. pull \in [Pulls -> PullRow] /\ session \in [SessionIds -> SessionRow]
  BY DEF TypeOK, StoreTypeOK
<1>2. CASE pull' = pull
  BY <1>2 DEF PullKept
<1>3. ASSUME NEW p \in Pulls, AdvancePull(p) PROVE Linked /\ PullsOnly(pull[p].issue)
  <2>1. \/ pull' = pull
        \/ pull' = [pull EXCEPT ![p].merged = TRUE]
        \/ pull' = [pull EXCEPT ![p].closed = TRUE]
    BY <1>3 DEF AdvancePull, SettleMerged, SettleClosed, MarkMerged, MarkClosed
  <2> QED
    BY <2>1, OnePull DEF Linked, PullsOnly
<1>4. CASE CiRoundCounted
  <2>1. frame.key \in Keys /\ frame.key[1] = "ci"
    BY <1>4 DEF CiRoundCounted, TypeOK, HandlerTypeOK
  <2>2. frame.key[2] \in Pulls
    BY <2>1, KeyParts
  <2>3. pull' = [pull EXCEPT ![frame.key[2]].rounds = @ + 1,
                             ![frame.key[2]].last_sha = frame.key[3]]
    BY <1>4 DEF CiRoundCounted, CountCiRound
  <2> DEFINE q == frame.key[2]
             r == [pull[q] EXCEPT !.rounds = pull[q].rounds + 1, !.last_sha = frame.key[3]]
  <2>4. pull' = [pull EXCEPT ![q] = r]
    BY <2>3
  <2>5. r.issue = pull[q].issue /\ r.merged = pull[q].merged /\ r.closed = pull[q].closed
    BY <1>1, <2>2 DEF PullRow
  <2> HIDE DEF q, r
  <2>6. \A p \in Pulls : PullKept(p)
    BY <1>1, <2>4, <2>5 DEF PullKept
  <2> QED
    BY <2>6
<1>5. CASE BudgetsReset
  <2>1. ASSUME NEW p \in Pulls PROVE PullKept(p)
    <3>1. \/ pull'[p] = pull[p]
          \/ pull'[p] = [pull[p] EXCEPT !.rounds_base = pull[p].rounds,
                                        !.last_sha = None]
      BY <1>5 DEF BudgetsReset, ResetBudgets
    <3> QED
      BY <1>1, <3>1 DEF PullRow, PullKept
  <2> QED
    BY <2>1
<1>6. CASE EffectSteps
  <2>1. EffectSteps => pull' = pull \/ CiRoundCounted \/ BudgetsReset
    BY DEF EffectSteps, Flag, Comment, CommentRecorded, ClearFlag, SendMessage,
           MessageRecorded, MessageStamped, NudgeCounted, CreateSession, SessionRecorded,
           storeVars
  <2> QED
    BY <1>2, <1>4, <1>5, <1>6, <2>1
<1>7. CASE ActOnPoll
  <2> DEFINE m == session[frame.session].issue
  <2>1. UpsertPulls(frame.poll.pulls, frame.session) /\ UNCHANGED <<issue, session>>
    BY <1>7 DEF ActOnPoll
  <2>2. ASSUME NEW p \in Pulls, pull'[p] # pull[p]
        PROVE  pull[p].issue = 0 /\ pull'[p].issue = m
    BY <2>1, <2>2 DEF UpsertPulls, KnownPull, NoPull
  <2>3. PullsOnly(m)
    BY <2>2 DEF PullsOnly, PullKept
  <2>4. frame.session \in SessionIds
    BY <1>7 DEF ActOnPoll, TypeOK, HandlerTypeOK
  <2>5. Linked
    BY <2>2, <2>4 DEF Linked
  <2> QED
    BY <1>7, <2>1, <2>3, <2>5 DEF PullWriter
<1>8. CASE World
  <2>1. ASSUME NEW q \in Pulls, PullGoesStale(q), NEW p \in Pulls PROVE PullKept(p)
    BY <1>1, <2>1 DEF PullGoesStale, PullRow, PullKept
  <2> QED
    BY <1>2, <1>8, <2>1 DEF World, Arrive, GraceElapses, SessionAges
<1>9. CASE DrainInbox
  <2>1. ASSUME NEW e \in Events, HandlePullClosed(e)
        PROVE  \/ pull' = pull
               \/ /\ UNCHANGED <<issue, session>> /\ Linked /\ \E m : PullsOnly(m)
                  /\ PullWriter
    <3>1. CASE KnownPull(e.pull)
      <4>1. e.pull \in Pulls /\ AdvancePull(e.pull) /\ UNCHANGED <<issue, session>>
        BY <2>1, <3>1 DEF HandlePullClosed, KnownPull
      <4> QED
        BY <1>3, <4>1 DEF PullWriter
    <3>2. CASE ~KnownPull(e.pull)
      BY <2>1, <3>2 DEF HandlePullClosed
    <3> QED
      BY <3>1, <3>2
  <2>2. DrainInbox => pull' = pull \/ \E e \in Events : HandlePullClosed(e)
    BY DEF DrainInbox, HandleLabeled, HandleCiFailed, HandleReview, HandleReply,
           RetryClearsFlag, SupersedeOpenSessions, Dispatched, DispatchFailed, storeVars
  <2> QED
    BY <1>2, <1>9, <2>1, <2>2
<1>10. ASSUME NEW p \in Pulls, TrackPull(p)
       PROVE  /\ UNCHANGED <<issue, session>> /\ Linked /\ \E m : PullsOnly(m)
              /\ PullWriter
  BY <1>3, <1>10 DEF TrackPull, PullWriter
<1>11. CASE TrackSessions
  BY <1>2, <1>7, <1>11 DEF TrackSessions, TimeOut, PollFails, Poll, storeVars
<1>12. CASE \/ StartSessions \/ TickBegins \/ PassEnds \/ Crash \/ RefreshInsights
            \/ \E n \in Issues : RecoverIssue(n)
  BY <1>2, <1>12 DEF StartSessions, StartDeferred, StartOverBudget, ReserveAttempt,
                     TickBegins, PassEnds, Crash, RefreshInsights, RecoverIssue, storeVars
<1> QED
  BY <1>6, <1>8, <1>9, <1>10, <1>11, <1>12 DEF Next, Loop

LEMMA OneIssueConcerned ==
    ASSUME TypeOK, FinalInv, Next PROVE \E m : Only(m)
<1>1. ASSUME NEW m \in Issues, UNCHANGED <<session, pull>>,
             \A n \in Issues \ {m} : issue'[n] = issue[n]
      PROVE  \E k : Only(k)
  BY <1>1, UntouchedOnly, TablesOnly
<1>2. CASE FlagMoved
  BY <1>1, <1>2, FlagMovesReason DEF FlagMoved
<1>3. ASSUME NEW m \in Issues, Asked(m) PROVE \E k : Only(k)
  BY <1>1, <1>3, AskingKeeps DEF Asked
<1>4. ASSUME NEW m \in Issues, ReserveAttempt(m) PROVE \E k : Only(k)
  BY <1>1, <1>4, ReservingKeeps DEF ReserveAttempt
<1>5. CASE issue' = issue
  <2>1. ASSUME \A p \in Pulls : PullKept(p) PROVE \A m : PullsOnly(m)
    BY <2>1 DEF PullsOnly
  <2>2. \E m : SessionsOnly(m) /\ PullsOnly(m)
    BY <2>1, SessionSteps, PullSteps, UntouchedOnly
  <2> QED
    BY <1>5, <2>2, TablesOnly
<1> QED
  BY <1>2, <1>3, <1>4, <1>5, IssueSteps

\* The strengthening: an issue nobody registered is blank, every row is of a
\* registered issue, and what is left of a pass over the queued still asks for work.
UnknownBlank ==
    \A n \in Issues :
        ~issue[n].known => issue[n].attempts = 0 /\ issue[n].reason = None
RowsKnown ==
    /\ \A s \in SessionIds : session[s].issue # 0 => issue[session[s].issue].known
    /\ \A p \in Pulls : pull[p].issue # 0 => issue[pull[p].issue].known
    /\ pc \in Calling => issue[frame.issue].known
PassWants == pass = "start" => \A n \in todo : WantsSession(issue[n])
LifeInv == UnknownBlank /\ RowsKnown /\ PassWants

LEMMA ReservesStartable ==
    ASSUME StartsFresh, NEW n, ReserveAttempt(n)
    PROVE  pc = "next" /\ pass = "start" /\ n \in todo /\ Startable(n) /\ issue[n].known
  BY DEF ReserveAttempt, FirstQueued, StartsFresh, Startable

LEMMA KnownStays ==
    ASSUME TypeOK, Next, NEW n \in Issues, issue[n].known PROVE issue'[n].known
  BY IssueSteps, FlagMovesReason, AskingKeeps, ReservingKeeps

LEMMA WantsStay ==
    ASSUME TypeOK, Next, NEW n \in Issues, issue[n].known, WantsSession(issue[n]),
           ~ReserveAttempt(n)
    PROVE  WantsSession(issue'[n])
<1>1. CASE FlagMoved
  BY <1>1, FlagMovesReason DEF WantsSession
<1>2. ASSUME NEW m \in Issues, Asked(m) PROVE WantsSession(issue'[n])
  BY <1>2, AskingKeeps DEF WantsSession
<1>3. ASSUME NEW m \in Issues, ReserveAttempt(m) PROVE WantsSession(issue'[n])
  BY <1>3, ReservingKeeps
<1> QED
  BY <1>1, <1>2, <1>3, IssueSteps

LEMMA UnknownBlankKept ==
    ASSUME TypeOK, StartsFresh, UnknownBlank, Next PROVE UnknownBlank'
<1> SUFFICES ASSUME NEW n \in Issues, ~issue'[n].known
             PROVE  issue'[n].attempts = 0 /\ issue'[n].reason = None
  BY DEF UnknownBlank
<1>1. ~issue[n].known /\ issue[n].attempts = 0 /\ issue[n].reason = None
  BY KnownStays DEF UnknownBlank
<1>2. CASE FlagMoved
  BY <1>1, <1>2, FlagMovesReason
<1>3. ASSUME NEW m \in Issues, Asked(m) PROVE issue'[n] = issue[n]
  BY <1>3, AskingKeeps
<1>4. ASSUME NEW m \in Issues, ReserveAttempt(m) PROVE issue'[n] = issue[n]
  BY <1>1, <1>4, ReservingKeeps, ReservesStartable
<1> QED
  BY <1>1, <1>2, <1>3, <1>4, IssueSteps

LEMMA RowsKnownKept ==
    ASSUME TypeOK, StartsFresh, RowsKnown, Next PROVE RowsKnown'
<1>1. /\ \A s \in SessionIds : session[s].issue \in Issues \cup {0}
      /\ \A p \in Pulls : pull[p].issue \in Issues \cup {0}
      /\ pc \in Calling => frame.issue \in Issues
  BY DEF TypeOK, StoreTypeOK, SessionRow, PullRow, HandlerTypeOK, InHandler, Steps
<1>2. ASSUME NEW s \in SessionIds, session'[s].issue # 0
      PROVE  issue'[session'[s].issue].known
  <2>1. CASE SessionRecorded
    <3>1. session' = [session EXCEPT ![frame.session] =
             [NoSession EXCEPT !.issue = frame.issue,
                               !.attempt = issue[frame.issue].attempts]]
      BY <2>1 DEF SessionRecorded, CreateSessionRow
    <3>2. session \in [SessionIds -> SessionRow]
      BY DEF TypeOK, StoreTypeOK
    <3>3. session'[s].issue \in {session[s].issue, frame.issue}
      BY <3>1, <3>2 DEF NoSession
    <3>4. frame.issue \in Issues /\ issue[frame.issue].known
      BY <1>1, <2>1 DEF SessionRecorded, RowsKnown
    <3> QED
      BY <1>1, <1>2, <3>3, <3>4, KnownStays DEF RowsKnown
  <2>2. CASE ~SessionRecorded
    <3>1. session'[s].issue = session[s].issue
      BY <2>2, NextOpensNone DEF NoneOpened, StaysOrCloses
    <3> QED
      BY <1>1, <1>2, <3>1, KnownStays DEF RowsKnown
  <2> QED
    BY <2>1, <2>2
<1>3. ASSUME NEW p \in Pulls, pull'[p].issue # 0 PROVE issue'[pull'[p].issue].known
  <2>1. \/ pull'[p].issue = pull[p].issue
        \/ \E s \in SessionIds : pull'[p].issue = session[s].issue
    BY PullSteps DEF PullKept, Linked
  <2> QED
    BY <1>1, <1>3, <2>1, KnownStays DEF RowsKnown
<1>4. ASSUME pc' \in Calling PROVE issue'[frame'.issue].known
  <2>1. ASSUME NEW n \in Issues, ReserveAttempt(n) PROVE issue'[frame'.issue].known
    <3>1. frame'.issue = n
      BY <2>1 DEF ReserveAttempt, NoFrame
    <3> QED
      BY <2>1, <3>1, ReservesStartable, KnownStays
  <2>2. CASE CreateSession
    <3>1. \E s : frame' = [frame EXCEPT !.session = s]
      BY <1>4, <2>2 DEF CreateSession, CallFlag
    <3>2. frame'.issue = frame.issue
      BY <3>1 DEF TypeOK, HandlerTypeOK, Frame
    <3>3. pc \in Calling
      BY <2>2 DEF CreateSession
    <3> QED
      BY <1>1, <3>2, <3>3, KnownStays DEF RowsKnown
  <2> QED
    BY <1>4, <2>1, <2>2, StartsNothingElsewhere DEF StartsNothing
<1> QED
  BY <1>2, <1>3, <1>4 DEF RowsKnown

LEMMA PassWantsKept ==
    ASSUME TypeOK, StartsFresh, PassWants, Next PROVE PassWants'
<1> SUFFICES ASSUME pass' = "start", NEW n \in todo' PROVE WantsSession(issue'[n])
  BY DEF PassWants
<1>1. CASE PassEnds
  <2>1. n \in Work("start") /\ issue' = issue
    BY <1>1 DEF PassEnds, BeginPass, storeVars
  <2>2. StatusOf(n) = "queued"
    BY <2>1 DEF Work
  <2> QED
    BY <2>1, <2>2 DEF StatusOf, IssueStatus
<1>2. CASE ~PassEnds
  <2>1. pass = "start" /\ n \in todo /\ ~ReserveAttempt(n)
    BY <1>2, StartPassActions
       DEF World, Arrive, GraceElapses, SessionAges, PullGoesStale, loopVars,
           StartSessions, StartDeferred, StartOverBudget, ReserveAttempt
  <2>2. n \in Issues /\ issue[n].known /\ WantsSession(issue[n])
    BY <2>1 DEF TypeOK, TodoTypeOK, StartsFresh, Startable, PassWants
  <2> QED
    BY <2>1, <2>2, WantsStay
<1> QED
  BY <1>1, <1>2

LEMMA LifeInvKept ==
    ASSUME TypeOK, StartsFresh, LifeInv, [Next]_vars PROVE LifeInv'
<1>1. CASE Next
  BY <1>1, UnknownBlankKept, RowsKnownKept, PassWantsKept DEF LifeInv
<1>2. CASE UNCHANGED vars
  BY <1>2 DEF vars, storeVars, loopVars, LifeInv, UnknownBlank, RowsKnown, PassWants
<1> QED
  BY <1>1, <1>2

LEMMA LifeInvInit == ASSUME Init PROVE LifeInv
  BY DEF Init, StoreInit, EffectsInit, NoIssue, NoSession, NoPull, LifeInv, UnknownBlank,
         RowsKnown, PassWants

\* What is paid for is counted by the sessions billed.
LEMMA PaidStays ==
    ASSUME billed' = billed, NEW n PROVE PaidFor(n)' = PaidFor(n)
  BY DEF PaidFor

LEMMA BillPays ==
    ASSUME TypeOK, NEW s \in UnusedSessions, frame.issue \in Issues, Bill(s),
           NEW n \in Issues
    PROVE  PaidFor(n)' = IF n = frame.issue THEN PaidFor(n) + 1 ELSE PaidFor(n)
<1> DEFINE attempt == <<frame.issue, issue[frame.issue].attempts>>
           S == {t \in SessionIds : billed[t][1] = n}
           T == {t \in SessionIds : billed'[t][1] = n}
<1>1. s \in SessionIds /\ billed[s] = Unbilled
  BY DEF UnusedSessions
<1>2. /\ billed' = [billed EXCEPT ![s] = attempt]
      /\ billed \in [SessionIds -> (Issues \X Nat) \cup {Unbilled}]
  BY DEF Bill, TypeOK
<1>3. attempt[1] = frame.issue
  OBVIOUS
<1> HIDE DEF attempt
<1>4. billed'[s][1] = frame.issue /\ \A t \in SessionIds \ {s} : billed'[t] = billed[t]
  BY <1>1, <1>2, <1>3
<1>5. n # 0 /\ billed[s][1] = 0
  BY <1>1, StoreAssumption DEF Unbilled
<1>6. s \notin S /\ T = IF n = frame.issue THEN S \cup {s} ELSE S
  BY <1>1, <1>4, <1>5
<1>7. IsFiniteSet(S)
  BY SessionIdsFinite, FS_Subset
<1>8. Cardinality(S \cup {s}) = Cardinality(S) + 1
  BY <1>6, <1>7, FS_AddElement
<1>9. PaidFor(n) = Cardinality(S) /\ PaidFor(n)' = Cardinality(T)
  BY DEF PaidFor
<1> HIDE DEF S, T
<1> QED
  BY <1>6, <1>8, <1>9

\* The cases of the status an issue has.
LEMMA LifeCases ==
    ASSUME TypeOK, NEW n \in Issues
    PROVE  /\ LifeOf(n) = "unknown" <=> ~issue[n].known
           /\ LifeOf(n) \in REMEDIATION!Lives \cup {"unknown"}
           /\ LifeOf(n) = "queued" => issue[n].known /\ WantsSession(issue[n])
  BY DEF LifeOf, StatusOf, IssueStatus, REMEDIATION!Lives

LEMMA MergedIsTheEnd ==
    ASSUME TypeOK, Next, NEW n \in Issues, LifeOf(n) = "merged" PROVE LifeOf(n)' = "merged"
<1>1. issue[n].known /\ StatusOf(n) = "merged"
  BY DEF LifeOf
<1>2. PICK p \in Pulls : pull[p].issue = n /\ pull[p].merged
  BY <1>1 DEF StatusOf, IssueStatus, PullsOf
<1>3. pull'[p].issue = n /\ pull'[p].merged
  BY <1>2, NextKeepsMerges, StoreAssumption DEF MergesStand
<1>4. StatusOf(n)' = "merged"
  BY <1>3 DEF StatusOf, IssueStatus, PullsOf
<1> QED
  BY <1>1, <1>4, KnownStays DEF LifeOf

LEMMA AskImplemented ==
    ASSUME TypeOK, LifeInv, NEW m \in Issues, Asked(m)
    PROVE  REMEDIATION!Ask(m)
<1>1. Only(m)
  BY AskingKeeps, UntouchedOnly, TablesOnly DEF Asked
<1>2. ASSUME NEW n \in Issues, n # m
      PROVE  /\ LifeOf(n)' = LifeOf(n) /\ WantsSession(issue[n])' = WantsSession(issue[n])
             /\ issue'[n].known = issue[n].known
  BY <1>1, <1>2, LifeElsewhere, AskingKeeps
<1>3. /\ issue'[m].known /\ issue'[m].reason = issue[m].reason
      /\ WantsSession(issue'[m])
  BY AskingKeeps DEF WantsSession, LifeInv, UnknownBlank
<1>4. SessionsOf(m)' = SessionsOf(m) /\ PullsOf(m)' = PullsOf(m) /\ UNCHANGED <<session, pull>>
  BY DEF Asked, SessionsOf, PullsOf
<1>5. LifeOf(m)' = StatusOf(m)'
  BY <1>3 DEF LifeOf
<1>6. LifeOf(m)' = IF LifeOf(m) \in {"merged", "awaiting_human", "pr_open"}
                   THEN LifeOf(m) ELSE "queued"
  <2>1. CASE issue[m].known
    BY <1>3, <1>4, <1>5, <2>1 DEF LifeOf, StatusOf, IssueStatus, NeedsHuman
  <2>2. CASE ~issue[m].known
    <3>1. PullsOf(m) = {} /\ issue[m].reason = None
      BY <2>2, StoreAssumption DEF PullsOf, LifeInv, RowsKnown, UnknownBlank
    <3> QED
      BY <1>3, <1>4, <1>5, <2>2, <3>1 DEF LifeOf, StatusOf, IssueStatus, NeedsHuman
  <2> QED
    BY <2>1, <2>2
<1>7. [n \in Issues |-> LifeOf(n)]' =
        [[n \in Issues |-> LifeOf(n)] EXCEPT ![m] =
            IF LifeOf(m) \in {"merged", "awaiting_human", "pr_open"}
            THEN LifeOf(m) ELSE "queued"]
  BY <1>2, <1>6
<1>8. [n \in Issues |-> issue[n].known /\ WantsSession(issue[n])]' =
        [[n \in Issues |-> issue[n].known /\ WantsSession(issue[n])] EXCEPT ![m] = TRUE]
  BY <1>2, <1>3
<1>9. \A n : PaidFor(n)' = PaidFor(n)
  BY PaidStays DEF Asked
<1> QED
  BY <1>7, <1>8, <1>9 DEF REMEDIATION!Ask, REMEDIATION!Becomes, Asked

LEMMA TakeOnImplemented ==
    ASSUME TypeOK, StartsFresh, LifeInv, NEW m \in Issues, ReserveAttempt(m)
    PROVE  REMEDIATION!TakeOn(m)
<1>1. /\ Startable(m) /\ issue[m].known /\ WantsSession(issue[m]) /\ pc = "next"
      /\ UNCHANGED <<session, pull>> /\ billed' = billed
      /\ pc' = "create" /\ frame'.issue = m
  BY ReservesStartable DEF LifeInv, PassWants, ReserveAttempt, history, NoFrame
<1>2. Only(m)
  BY <1>1, ReservingKeeps, UntouchedOnly, TablesOnly
<1>3. ASSUME NEW n \in Issues, n # m
      PROVE  /\ LifeOf(n)' = LifeOf(n) /\ WantsSession(issue[n])' = WantsSession(issue[n])
             /\ issue'[n].known = issue[n].known
  BY <1>2, <1>3, LifeElsewhere, ReservingKeeps
<1>4. LifeOf(m) = "queued"
  BY <1>1 DEF LifeOf, StatusOf, IssueStatus, NeedsHuman, Startable
<1>5. issue'[m].known /\ issue'[m].reason = None /\ ~WantsSession(issue'[m])
  BY <1>1, ReservingKeeps DEF Startable
<1>6. \A p \in PullsOf(m)' : pull'[p].closed /\ ~pull'[p].merged
  BY <1>1 DEF Startable, PullsOf
<1>7. LifeOf(m)' \in {"in_progress", "exhausted"}
  BY <1>5, <1>6 DEF LifeOf, StatusOf, IssueStatus, NeedsHuman
<1>8. [n \in Issues |-> LifeOf(n)]' = [[n \in Issues |-> LifeOf(n)] EXCEPT ![m] = LifeOf(m)']
  BY <1>3
<1>9. [n \in Issues |-> issue[n].known /\ WantsSession(issue[n])]' =
        [[n \in Issues |-> issue[n].known /\ WantsSession(issue[n])] EXCEPT ![m] = FALSE]
  BY <1>3, <1>5
<1>10. \A n : PaidFor(n)' = PaidFor(n)
  BY <1>1, PaidStays
<1>11. \E l \in {"in_progress", "exhausted"} :
          [n \in Issues |-> LifeOf(n)]' = [[n \in Issues |-> LifeOf(n)] EXCEPT ![m] = l]
  BY <1>7, <1>8
<1> QED
  BY <1>1, <1>4, <1>9, <1>10, <1>11 DEF REMEDIATION!TakeOn, REMEDIATION!Becomes

\* The tables alone decide what is asked for and what is said of an issue.
LEMMA StoreDecides ==
    ASSUME storeVars' = storeVars
    PROVE  \A n : LifeOf(n)' = LifeOf(n) /\ WantsSession(issue[n])' = WantsSession(issue[n])
                  /\ issue'[n] = issue[n]
  BY DEF storeVars, LifeOf, StatusOf, SessionsOf, PullsOf

LEMMA PayImplemented ==
    ASSUME TypeOK, CreateSession
    PROVE  \E n \in Issues : REMEDIATION!Pay(n) \/ REMEDIATION!GiveUp
<1>1. frame.issue \in Issues /\ pc = "create" /\ pc' # "create" /\ storeVars' = storeVars
  <2>1. pc' # "create"
    BY GoesElsewhere DEF CreateSession
  <2> QED
    BY <2>1 DEF CreateSession, TypeOK, HandlerTypeOK, InHandler, Steps
<1>2. /\ [n \in Issues |-> LifeOf(n)]' = [n \in Issues |-> LifeOf(n)]
      /\ [n \in Issues |-> issue[n].known /\ WantsSession(issue[n])]' =
         [n \in Issues |-> issue[n].known /\ WantsSession(issue[n])]
  BY <1>1, StoreDecides
<1>3. CASE billed' = billed
  <2>1. \A n : PaidFor(n)' = PaidFor(n)
    BY <1>3, PaidStays
  <2> QED
    BY <1>1, <1>2, <2>1 DEF REMEDIATION!GiveUp
<1>4. ASSUME NEW s \in UnusedSessions, Bill(s) PROVE REMEDIATION!Pay(frame.issue)
  <2>1. \A n \in Issues : PaidFor(n)' = IF n = frame.issue THEN PaidFor(n) + 1 ELSE PaidFor(n)
    BY <1>1, <1>4, BillPays
  <2>2. [n \in Issues |-> PaidFor(n)]' =
          [[n \in Issues |-> PaidFor(n)] EXCEPT ![frame.issue] = @ + 1]
    BY <1>1, <2>1
  <2> QED
    BY <1>1, <1>2, <2>2 DEF REMEDIATION!Pay
<1> QED
  BY <1>1, <1>3, <1>4 DEF CreateSession

\* A call is made, and a retry goes on, whatever else happens; only a crash is in
\* their way.
LEMMA GoesOnAtOnce ==
    ASSUME Next, pc \in {"create", "retry", "supersede"}
    PROVE  CreateSession \/ RetryClearsFlag \/ SupersedeOpenSessions \/ Crash
<1>1. ~TickBegins /\ ~PassEnds /\ ~RefreshInsights /\ ~World
  BY DEF TickBegins, PassEnds, RefreshInsights, World, Arrive, GraceElapses, SessionAges,
         PullGoesStale, BetweenHandlers
<1>2. ~StartSessions /\ ~TrackSessions
  BY DEF StartSessions, StartDeferred, StartOverBudget, ReserveAttempt, FirstQueued,
         TrackSessions, TimeOut, PollFails, Poll, TakesSession, Takes, ActOnPoll
<1>3. DrainInbox => RetryClearsFlag \/ SupersedeOpenSessions
  BY DEF DrainInbox, HandleLabeled, HandleCiFailed, HandleReview, HandleReply,
         HandlePullClosed, TakesEvent, Takes, Dispatched, DispatchFailed
<1>4. (\A p \in Pulls : ~TrackPull(p)) /\ \A n \in Issues : ~RecoverIssue(n)
  BY DEF TrackPull, TakesPull, RecoverIssue, TakesUnknownIssue, Takes
<1>5. EffectSteps => CreateSession
  BY DEF EffectSteps, Flag, Comment, CommentRecorded, ClearFlag, SendMessage,
         MessageRecorded, MessageStamped, NudgeCounted, CiRoundCounted, BudgetsReset,
         SessionRecorded
<1> QED
  BY <1>1, <1>2, <1>3, <1>4, <1>5 DEF Next, Loop

LEMMA CrashImplemented ==
    ASSUME Crash PROVE REMEDIATION!GiveUp \/ UNCHANGED REMEDIATION!vars
<1>1. storeVars' = storeVars /\ billed' = billed /\ pc' # "create"
  BY DEF Crash, history
<1>2. /\ [n \in Issues |-> LifeOf(n)]' = [n \in Issues |-> LifeOf(n)]
      /\ [n \in Issues |-> issue[n].known /\ WantsSession(issue[n])]' =
         [n \in Issues |-> issue[n].known /\ WantsSession(issue[n])]
      /\ [n \in Issues |-> PaidFor(n)]' = [n \in Issues |-> PaidFor(n)]
  BY <1>1, StoreDecides, PaidStays
<1> QED
  BY <1>1, <1>2 DEF REMEDIATION!GiveUp, REMEDIATION!vars

LEMMA MoveImplemented ==
    ASSUME TypeOK, FinalInv, Next, ~CreateSession, ~Crash,
           \A n \in Issues : ~Asked(n) /\ ~ReserveAttempt(n)
    PROVE  \/ UNCHANGED REMEDIATION!vars
           \/ \E n \in Issues : REMEDIATION!Move(n)
<1>1. billed' = billed /\ pc # "create" /\ pc' # "create"
  <2>1. pc # "create"
    BY GoesOnAtOnce DEF RetryClearsFlag, SupersedeOpenSessions
  <2> QED
    BY <2>1, StartsNothingElsewhere DEF StartsNothing
<1>2. ASSUME NEW n \in Issues
      PROVE  /\ issue'[n].known = issue[n].known
             /\ WantsSession(issue[n])' = WantsSession(issue[n])
  BY FlagMovesReason, IssueSteps DEF WantsSession
<1>3. [n \in Issues |-> issue[n].known /\ WantsSession(issue[n])]' =
      [n \in Issues |-> issue[n].known /\ WantsSession(issue[n])]
  BY <1>2
<1>4. [n \in Issues |-> PaidFor(n)]' = [n \in Issues |-> PaidFor(n)]
  BY <1>1, PaidStays
<1>5. PICK m : Only(m)
  BY OneIssueConcerned
<1>6. \A n \in Issues \ {m} : LifeOf(n)' = LifeOf(n)
  BY <1>5, LifeElsewhere
<1>7. CASE m \notin Issues \/ LifeOf(m)' = LifeOf(m)
  <2>1. [n \in Issues |-> LifeOf(n)]' = [n \in Issues |-> LifeOf(n)]
    BY <1>6, <1>7
  <2> QED
    BY <1>1, <1>3, <1>4, <2>1 DEF REMEDIATION!vars
<1>8. CASE m \in Issues /\ LifeOf(m)' # LifeOf(m)
  <2>1. issue[m].known
    BY <1>2, <1>8 DEF LifeOf
  <2>2. LifeOf(m) \notin {"unknown", "merged"}
    BY <1>8, <2>1, LifeCases, MergedIsTheEnd
  <2>3. LifeOf(m)' = StatusOf(m)'
    BY <1>2, <1>8, <2>1 DEF LifeOf
  <2>4. /\ LifeOf(m)' \in REMEDIATION!Lives
        /\ LifeOf(m)' = "queued" => issue[m].known /\ WantsSession(issue[m])
    BY <1>2, <1>8, <2>1, <2>3 DEF StatusOf, IssueStatus, REMEDIATION!Lives
  <2>5. [n \in Issues |-> LifeOf(n)]' =
          [[n \in Issues |-> LifeOf(n)] EXCEPT ![m] = LifeOf(m)']
    <3>1. ASSUME NEW n \in Issues, n # m PROVE LifeOf(n)' = LifeOf(n)
      BY <1>6, <3>1
    <3>2. m \in Issues
      BY <1>8
    <3> QED
      BY <3>1, <3>2
  <2>6. \E l \in REMEDIATION!Lives :
           /\ l = "queued" => issue[m].known /\ WantsSession(issue[m])
           /\ [n \in Issues |-> LifeOf(n)]' = [[n \in Issues |-> LifeOf(n)] EXCEPT ![m] = l]
    BY <2>4, <2>5
  <2>7. REMEDIATION!Move(m)
    BY <1>1, <1>3, <1>4, <1>8, <2>2, <2>6 DEF REMEDIATION!Move, REMEDIATION!Becomes
  <2> QED
    BY <1>8, <2>7
<1> QED
  BY <1>7, <1>8

LEMMA LifeGoesOn ==
    ASSUME TypeOK, StartsFresh, FinalInv, LifeInv, [Next]_vars
    PROVE  [REMEDIATION!Next]_REMEDIATION!vars
<1>1. CASE UNCHANGED vars
  <2>1. storeVars' = storeVars /\ UNCHANGED <<billed, pc, frame>>
    BY <1>1 DEF vars
  <2>2. /\ [n \in Issues |-> LifeOf(n)]' = [n \in Issues |-> LifeOf(n)]
        /\ [n \in Issues |-> issue[n].known /\ WantsSession(issue[n])]' =
           [n \in Issues |-> issue[n].known /\ WantsSession(issue[n])]
        /\ [n \in Issues |-> PaidFor(n)]' = [n \in Issues |-> PaidFor(n)]
    BY <2>1, StoreDecides, PaidStays
  <2> QED
    BY <2>1, <2>2 DEF REMEDIATION!vars
<1>2. CASE Next
  <2>1. CASE CreateSession
    BY <2>1, PayImplemented DEF REMEDIATION!Next
  <2>2. CASE Crash
    BY <2>2, CrashImplemented DEF REMEDIATION!Next
  <2>3. ASSUME NEW n \in Issues, Asked(n) PROVE REMEDIATION!Next
    BY <2>3, AskImplemented DEF REMEDIATION!Next
  <2>4. ASSUME NEW n \in Issues, ReserveAttempt(n) PROVE REMEDIATION!Next
    BY <2>4, TakeOnImplemented DEF REMEDIATION!Next
  <2> QED
    BY <1>2, <2>1, <2>2, <2>3, <2>4, MoveImplemented DEF REMEDIATION!Next
<1> QED
  BY <1>1, <1>2

LEMMA LifeBegins == ASSUME Init PROVE REMEDIATION!Init
<1>1. ASSUME NEW n \in Issues
      PROVE  LifeOf(n) = "unknown" /\ ~issue[n].known /\ PaidFor(n) = 0
  <2>1. ~issue[n].known
    BY DEF Init, StoreInit, NoIssue
  <2>2. {s \in SessionIds : billed[s][1] = n} = {}
    BY StoreAssumption DEF Init, EffectsInit, Unbilled
  <2> QED
    BY <2>1, <2>2, FS_EmptySet DEF LifeOf, PaidFor
<1>2. pc = "idle"
  BY DEF Init, EffectsInit
<1> QED
  BY <1>1, <1>2 DEF REMEDIATION!Init

\* The loop implements what is promised about an issue: paid for once for each time
\* a person asked, only while it waits for nothing else, never asked for by anything
\* but a person, and over with the merge (orchestrator.py:20-24, 218-343).
THEOREM LifeImplemented == Spec => RemediationSpec
<1>1. Init => REMEDIATION!Init
  BY LifeBegins
<1>2. Init => StartsFresh /\ FinalInv /\ LifeInv
  <2>1. Init => StartsFresh
    BY DEF Init, EffectsInit, StartsFresh
  <2> QED
    BY <2>1, FinalInvInit, LifeInvInit
<1>3. TypeOK /\ StartsFresh /\ FinalInv /\ LifeInv /\ [Next]_vars
      => (StartsFresh /\ FinalInv /\ LifeInv)'
  BY StartsFreshKept, FinalInvKept, LifeInvKept
<1>4. TypeOK /\ StartsFresh /\ FinalInv /\ LifeInv /\ [Next]_vars
      => [REMEDIATION!Next]_REMEDIATION!vars
  BY LifeGoesOn
<1> QED
  BY <1>1, <1>2, <1>3, <1>4, TypeCorrect, PTL DEF Spec, RemediationSpec, REMEDIATION!Spec

-----------------------------------------------------------------------------
(* One session at work                                                     *)

\* The strengthening: an issue that asks for a session has none at work, unless its
\* retry is about to end it, and none while one is being paid for.
NoneAtWork(n) ==
    \A s \in SessionIds :
        session[s].issue = n => session[s].closed # None \/ session[s].produced
RetryOf(n) == pc \in Retrying /\ frame.issue = n
OneInv ==
    /\ OneWorkingSession
    /\ \A n \in Issues : WantsSession(issue[n]) => NoneAtWork(n) \/ RetryOf(n)
    /\ pc \in Calling => NoneAtWork(frame.issue) /\ ~WantsSession(issue[frame.issue])

\* What a session delivered stays delivered, and its nudges are counted and its
\* budget starts again at those two steps only.
CountersSame(s) ==
    /\ session'[s].nudges = session[s].nudges
    /\ session'[s].nudge_base = session[s].nudge_base
DeliveryStays(s) == session[s].produced => session'[s].produced

LEMMA ColumnsStay ==
    ASSUME TypeOK, Next, ~SessionRecorded, NEW s \in SessionIds
    PROVE  /\ DeliveryStays(s)
           /\ CountersSame(s) \/ (s = frame.session /\ (NudgeCounted \/ BudgetsReset))
<1>1. session \in [SessionIds -> SessionRow] /\ session[s] \in SessionRow
  BY DEF TypeOK, StoreTypeOK
<1>2. ASSUME session'[s] = session[s] PROVE DeliveryStays(s) /\ CountersSame(s)
  BY <1>2 DEF DeliveryStays, CountersSame
<1>3. ASSUME NEW v, NEW t,
             \/ session' = [session EXCEPT ![t].grace = v]
             \/ session' = [session EXCEPT ![t].aged = v]
             \/ session' = [session EXCEPT ![t].closed = v]
      PROVE  DeliveryStays(s) /\ CountersSame(s)
  BY <1>1, <1>3 DEF SessionRow, DeliveryStays, CountersSame
<1>4. ASSUME NEW v, NEW t,
             \/ session' = [session EXCEPT ![t].nudges = v]
             \/ session' = [session EXCEPT ![t].nudge_base = v]
      PROVE  DeliveryStays(s)
  BY <1>1, <1>4 DEF SessionRow, DeliveryStays
<1>5. CASE EffectSteps
  <2>1. CASE MessageStamped
    BY <1>3, <2>1 DEF MessageStamped, MarkMessageSent
  <2>2. CASE NudgeCounted
    BY <1>2, <1>4, <1>5, <2>2, EffectsOnRows DEF NudgeCounted, BumpNudges, Same
  <2>3. CASE BudgetsReset
    BY <1>2, <1>4, <1>5, <2>3, EffectsOnRows DEF BudgetsReset, ResetBudgets, Same
  <2> QED
    BY <1>2, <1>5, <2>1, <2>2, <2>3, EffectsOnRows DEF Same
<1>6. CASE SupersedeOpenSessions
  <2>1. \/ session'[s] = session[s]
        \/ session'[s] = [session[s] EXCEPT !.closed = "superseded"]
    BY <1>6 DEF SupersedeOpenSessions
  <2> QED
    BY <1>1, <2>1 DEF SessionRow, DeliveryStays, CountersSame
<1>7. ASSUME NEW t \in SessionIds, TimeOut(t) PROVE DeliveryStays(s) /\ CountersSame(s)
  BY <1>3, <1>7 DEF TimeOut, CloseSession
<1>8. ASSUME NEW t \in SessionIds, NEW o \in Observations, Poll(t, o)
      PROVE  DeliveryStays(s) /\ CountersSame(s)
  <2>1. PICK produced, reason : RecordPoll(t, o, produced, reason)
    BY <1>8 DEF Poll
  <2>2. CASE s # t
    BY <1>1, <1>2, <2>1, <2>2 DEF RecordPoll
  <2>3. CASE s = t
    <3> DEFINE acus == IF o.acus > session[s].acus THEN o.acus ELSE session[s].acus
               had == session[s].produced \/ produced
               closed == IF session[s].closed = None THEN reason ELSE session[s].closed
    <3>1. session'[s] = [session[s] EXCEPT !.status = o.status, !.detail = o.detail,
                            !.acus = acus, !.produced = had, !.closed = closed]
      BY <1>1, <2>1, <2>3 DEF RecordPoll
    <3>2. session[s].produced => had
      OBVIOUS
    <3> HIDE DEF acus, had, closed
    <3>3. session'[s].produced = had /\ CountersSame(s)
      BY <1>1, <3>1 DEF SessionRow, CountersSame
    <3> QED
      BY <3>2, <3>3 DEF DeliveryStays
  <2> QED
    BY <2>2, <2>3
<1>9. ASSUME NEW t \in SessionIds, GraceElapses(t) \/ SessionAges(t)
      PROVE  DeliveryStays(s) /\ CountersSame(s)
  BY <1>3, <1>9 DEF GraceElapses, SessionAges
<1>10. CASE ~EffectSteps /\ Billing(s)
  <2> DEFINE acus == session'[s].acus
  <2>1. session'[s] = [session[s] EXCEPT !.acus = acus]
    BY <1>10 DEF Billing
  <2> HIDE DEF acus
  <2> QED
    BY <1>1, <2>1 DEF SessionRow, DeliveryStays, CountersSame
<1>11. CASE ~EffectSteps /\ ~Billing(s)
  <2>1. ~Same(s)
    BY <1>11, RowSame
  <2>2. CASE World
    BY <1>2, <1>9, <2>1, <2>2 DEF World, Arrive, PullGoesStale, Same
  <2>3. CASE TrackSessions
    BY <1>2, <1>7, <1>8, <2>1, <2>3 DEF TrackSessions, PollFails, ActOnPoll, storeVars, Same
  <2>4. CASE RefreshInsights
    <3>1. ASSUME NEW f, ApplyInsights(f) PROVE DeliveryStays(s) /\ CountersSame(s)
      <4> DEFINE acus == IF f[s] > session[s].acus THEN f[s] ELSE session[s].acus
      <4>1. session'[s] = session[s] \/ session'[s] = [session[s] EXCEPT !.acus = acus]
        BY <3>1 DEF ApplyInsights
      <4> HIDE DEF acus
      <4> QED
        BY <1>1, <4>1 DEF SessionRow, DeliveryStays, CountersSame
    <3> QED
      BY <1>2, <2>4, <3>1 DEF RefreshInsights
  <2>5. CASE DrainInbox
    BY <1>6, <2>1, <2>5 DEF DrainInbox, HandleLabeled, HandleCiFailed, HandleReview,
       HandleReply, HandlePullClosed, RetryClearsFlag, Dispatched, DispatchFailed,
       storeVars, Same
  <2>6. CASE \/ StartSessions \/ TickBegins \/ PassEnds \/ Crash
             \/ \E p \in Pulls : TrackPull(p)
             \/ \E n \in Issues : RecoverIssue(n)
    BY <2>1, <2>6 DEF StartSessions, StartDeferred, StartOverBudget, ReserveAttempt,
       TickBegins, PassEnds, Crash, TrackPull, RecoverIssue, storeVars, Same
  <2> QED
    BY <1>11, <2>2, <2>3, <2>4, <2>5, <2>6 DEF Next, Loop
<1> QED
  BY <1>5, <1>10, <1>11

\* No step but the recording of a new session sets one to work.
LEMMA NoneSetToWork ==
    ASSUME TypeOK, Next, ~SessionRecorded
    PROVE  /\ \A n : NoneAtWork(n) => NoneAtWork(n)'
           /\ OneWorkingSession => OneWorkingSession'
<1>1. ASSUME NEW s \in SessionIds
      PROVE  /\ session'[s].issue = session[s].issue
             /\ session[s].closed # None => session'[s].closed # None
             /\ session[s].produced => session'[s].produced
  BY ColumnsStay, NextOpensNone DEF DeliveryStays, NoneOpened, StaysOrCloses
<1>2. ASSUME NEW n, NoneAtWork(n) PROVE NoneAtWork(n)'
  BY <1>1, <1>2 DEF NoneAtWork
<1>3. OneWorkingSession => OneWorkingSession'
  BY <1>1 DEF OneWorkingSession
<1> QED
  BY <1>2, <1>3

LEMMA SupersedingEnds ==
    ASSUME TypeOK, OpenRowsRevivable, SupersedeOpenSessions, NEW n, n = frame.issue
    PROVE  NoneAtWork(n)'
<1> SUFFICES ASSUME NEW s \in SessionIds, session'[s].issue = n
             PROVE  session'[s].closed # None \/ session'[s].produced
  BY DEF NoneAtWork
<1>1. session \in [SessionIds -> SessionRow] /\ session[s] \in SessionRow
  BY DEF TypeOK, StoreTypeOK
<1>2. CASE s \in Superseded(frame.issue)
  <2>1. session'[s] = [session[s] EXCEPT !.closed = "superseded"]
    BY <1>2 DEF SupersedeOpenSessions
  <2> QED
    BY <1>1, <2>1 DEF SessionRow, None
<1>3. CASE s \notin Superseded(frame.issue)
  <2>1. session'[s] = session[s]
    BY <1>3 DEF SupersedeOpenSessions
  <2>2. session[s].produced \/ IsClosed(session[s])
    BY <1>3, <2>1 DEF Superseded, SessionsOf
  <2>3. IsClosed(session[s]) => session[s].closed # None
    BY DEF OpenRowsRevivable, IsClosed, Liveness, ClosingReason, None
  <2> QED
    BY <2>1, <2>2, <2>3
<1> QED
  BY <1>2, <1>3

\* An issue that asks for a session begins to because a person asks again.
LEMMA AsksInRetry ==
    ASSUME TypeOK, UnknownBlank, Next, NEW n \in Issues, WantsSession(issue'[n])
    PROVE  WantsSession(issue[n]) \/ RetryOf(n)'
<1>1. CASE FlagMoved
  BY <1>1, FlagMovesReason DEF WantsSession
<1>2. ASSUME NEW m \in Issues, Asked(m) PROVE WantsSession(issue[n]) \/ RetryOf(n)'
  <2>1. CASE n # m
    BY <1>2, <2>1, AskingKeeps
  <2>2. CASE n = m /\ ~issue[n].known
    BY <2>2 DEF UnknownBlank, WantsSession
  <2>3. CASE n = m /\ issue[n].known
    BY <1>2, <2>3 DEF Asked, RetryOf, Retrying
  <2> QED
    BY <2>1, <2>2, <2>3
<1>3. ASSUME NEW m \in Issues, ReserveAttempt(m) PROVE WantsSession(issue[n])
  BY <1>3, ReservingKeeps
<1> QED
  BY <1>1, <1>2, <1>3, IssueSteps

LEMMA AskersHaveNone ==
    ASSUME TypeOK, FinalInv, OpenRowsRevivable, UnknownBlank, OneInv, Next, ~Crash,
           NEW n \in Issues, WantsSession(issue'[n])
    PROVE  NoneAtWork(n)' \/ RetryOf(n)'
<1>1. CASE RetryOf(n)
  <2>1. RetryClearsFlag \/ SupersedeOpenSessions
    BY <1>1, GoesOnAtOnce DEF RetryOf, Retrying, CreateSession
  <2>2. CASE RetryClearsFlag
    BY <1>1, <2>2 DEF RetryClearsFlag, RetryOf, Retrying
  <2>3. CASE SupersedeOpenSessions
    BY <1>1, <2>3, SupersedingEnds DEF RetryOf
  <2> QED
    BY <2>1, <2>2, <2>3
<1>2. CASE ~RetryOf(n) /\ WantsSession(issue[n])
  <2>1. NoneAtWork(n)
    BY <1>2 DEF OneInv
  <2>2. CASE SessionRecorded
    <3>1. frame.session \in SessionIds /\ n # frame.issue
      BY <1>2, <2>2 DEF SessionRecorded, OneInv, TypeOK, HandlerTypeOK
    <3>2. session'[frame.session].issue = frame.issue
      BY <2>2, <3>1 DEF SessionRecorded, CreateSessionRow, NoSession, TypeOK, StoreTypeOK
    <3>3. \A s \in SessionIds \ {frame.session} : Same(s)
      BY <2>2, EffectsOnRows DEF EffectSteps
    <3>4. NoneAtWork(n)'
      BY <2>1, <3>1, <3>2, <3>3 DEF NoneAtWork, Same
    <3> QED
      BY <3>4
  <2> QED
    BY <2>1, <2>2, NoneSetToWork
<1> QED
  BY <1>1, <1>2, AsksInRetry

LEMMA CallersHaveNone ==
    ASSUME TypeOK, StartsFresh, LifeInv, OneInv, Next, pc' \in Calling
    PROVE  NoneAtWork(frame.issue)' /\ ~WantsSession(issue[frame.issue])'
<1>1. ASSUME NEW n \in Issues, ReserveAttempt(n)
      PROVE  NoneAtWork(frame.issue)' /\ ~WantsSession(issue[frame.issue])'
  <2>1. frame'.issue = n /\ session' = session
    BY <1>1 DEF ReserveAttempt, NoFrame
  <2>2. WantsSession(issue[n]) /\ ~RetryOf(n)
    BY <1>1, ReservesStartable DEF LifeInv, PassWants, RetryOf, Retrying
  <2>3. NoneAtWork(n)
    BY <2>2 DEF OneInv
  <2>4. ~WantsSession(issue'[n])
    BY <1>1, ReservingKeeps
  <2> QED
    BY <2>1, <2>3, <2>4 DEF NoneAtWork
<1>2. CASE CreateSession
  <2>1. \E s : frame' = [frame EXCEPT !.session = s]
    BY <1>2 DEF CreateSession, CallFlag
  <2>2. frame'.issue = frame.issue
    BY <2>1 DEF TypeOK, HandlerTypeOK, Frame
  <2>3. pc \in Calling /\ UNCHANGED <<session, issue>>
    BY <1>2 DEF CreateSession, storeVars
  <2> QED
    BY <2>2, <2>3 DEF OneInv, NoneAtWork
<1> QED
  BY <1>1, <1>2, StartsNothingElsewhere DEF StartsNothing

LEMMA OneStaysOne ==
    ASSUME TypeOK, FinalInv, OneInv, Next PROVE OneWorkingSession'
<1>1. CASE ~SessionRecorded
  BY <1>1, NoneSetToWork DEF OneInv
<1>2. CASE SessionRecorded
  <2>1. frame.session \in SessionIds /\ NoneAtWork(frame.issue)
    BY <1>2 DEF SessionRecorded, OneInv, TypeOK, HandlerTypeOK
  <2>2. session'[frame.session].issue = frame.issue
    BY <1>2, <2>1 DEF SessionRecorded, CreateSessionRow, NoSession, TypeOK, StoreTypeOK
  <2>3. \A s \in SessionIds \ {frame.session} : session'[s] = session[s]
    BY <1>2, EffectsOnRows DEF EffectSteps, Same
  <2>4. \A s \in SessionIds \ {frame.session} :
           session'[s].issue = frame.issue => session'[s].closed # None \/ session'[s].produced
    BY <2>1, <2>3 DEF NoneAtWork
  <2>5. OneWorkingSession
    BY DEF OneInv
  <2> QED
    BY <2>2, <2>3, <2>4, <2>5 DEF OneWorkingSession
<1> QED
  BY <1>1, <1>2

\* While the process stays up, a retry ends the session it replaces before the next
\* one starts: one session of an issue at most is still to deliver
\* (orchestrator.py:239-259, 263-298).
THEOREM OneAtWork ==
    ASSUME MaxCrashes = 0 PROVE Spec => []OneWorkingSession
<1> DEFINE Inv == StartsFresh /\ CapKept /\ FinalInv /\ LifeInv /\ OneInv
<1>1. Init => Inv
  <2>1. Init => StartsFresh
    BY DEF Init, EffectsInit, StartsFresh
  <2>2. ASSUME Init PROVE OneInv
    <3>1. \A s \in SessionIds : session[s].issue = 0
      BY <2>2 DEF Init, StoreInit, NoSession
    <3>2. pc = "idle"
      BY <2>2 DEF Init, EffectsInit
    <3> QED
      BY <3>1, <3>2, StoreAssumption DEF OneInv, OneWorkingSession, NoneAtWork
  <2> QED
    BY <2>1, <2>2, CapKeptInit, FinalInvInit, LifeInvInit
<1>2. TypeOK /\ Inv /\ [Next]_vars => Inv'
  <2>1. ASSUME TypeOK, Inv, Next PROVE OneInv'
    <3>1. ~Crash
      BY <2>1 DEF Crash, TypeOK
    <3>2. \A n \in Issues : WantsSession(issue'[n]) => NoneAtWork(n)' \/ RetryOf(n)'
      BY <2>1, <3>1, AskersHaveNone DEF CapKept, LifeInv
    <3>3. pc' \in Calling => NoneAtWork(frame.issue)' /\ ~WantsSession(issue[frame.issue])'
      BY <2>1, CallersHaveNone
    <3>4. OneWorkingSession'
      BY <2>1, OneStaysOne
    <3> QED
      BY <3>2, <3>3, <3>4 DEF OneInv, NoneAtWork
  <2>2. ASSUME OneInv, UNCHANGED vars PROVE OneInv'
    BY <2>2 DEF vars, storeVars, OneInv, OneWorkingSession, NoneAtWork, RetryOf
  <2>3. ASSUME CapKept, UNCHANGED vars PROVE CapKept'
    BY <2>3 DEF vars, storeVars, loopVars, CapKept, CapRespected, OpenRowsRevivable,
                InUse, Slots
  <2> QED
    BY <2>1, <2>2, <2>3, CapKeptNext, StartsFreshKept, FinalInvKept, LifeInvKept
<1>3. Inv => OneWorkingSession
  BY DEF OneInv
<1> HIDE DEF Inv
<1> QED
  BY <1>1, <1>2, <1>3, TypeCorrect, PTL DEF Spec
=============================================================================
