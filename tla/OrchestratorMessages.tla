------------------------- MODULE OrchestratorMessages -------------------------
(***************************************************************************)
(* What Devin is sent and what a person is told: proofs about the keys of  *)
(* done, the keys Devin has received, the counters of nudges, rounds and   *)
(* conflicts, the comments on flags, and the comments of people.  Then what *)
(* is never forgotten (no issue is given up without a flag), what is never *)
(* spent (the budget of a tick), and what a person is not asked too often. *)
(***************************************************************************)
EXTENDS OrchestratorLife

-----------------------------------------------------------------------------
(* Who writes to the keys and to the counters                              *)

LEMMA MessageStep ==
    ASSUME Next, pc \in Messaging
    PROVE  \/ SendMessage \/ MessageRecorded \/ MessageStamped
           \/ NudgeCounted \/ CiRoundCounted \/ BudgetsReset \/ Crash
<1> USE DEF Messaging
<1>1. ~TickBegins /\ ~PassEnds /\ ~RefreshInsights /\ ~World
  BY DEF TickBegins, PassEnds, RefreshInsights, World, Arrive, GraceElapses, SessionAges,
         PullGoesStale, BetweenHandlers
<1>2. ~StartSessions /\ ~TrackSessions
  BY DEF StartSessions, StartDeferred, StartOverBudget, ReserveAttempt, FirstQueued,
         TrackSessions, TimeOut, PollFails, Poll, TakesSession, Takes, ActOnPoll
<1>3. ~DrainInbox
  BY DEF DrainInbox, HandleLabeled, HandleCiFailed, HandleReview, HandleReply,
         HandlePullClosed, TakesEvent, Takes, RetryClearsFlag, SupersedeOpenSessions,
         Dispatched, DispatchFailed
<1>4. (\A p \in Pulls : ~TrackPull(p)) /\ \A n \in Issues : ~RecoverIssue(n)
  BY DEF TrackPull, TakesPull, RecoverIssue, TakesUnknownIssue, Takes
<1>5. ~Flag /\ ~Comment /\ ~CommentRecorded /\ ~ClearFlag /\ ~CreateSession
      /\ ~SessionRecorded
  BY DEF Flag, Comment, CommentRecorded, ClearFlag, CreateSession, SessionRecorded
<1> QED
  BY <1>1, <1>2, <1>3, <1>4, <1>5 DEF Next, Loop, EffectSteps

LEMMA KeySteps ==
    ASSUME Next
    PROVE  /\ \/ done' = done
              \/ (MessageRecorded \/ CommentRecorded) /\ done' = done \cup {frame.key}
           /\ UNCHANGED <<sent, resent>> \/ SendMessage
<1>1. CASE EffectSteps
  BY <1>1 DEF EffectSteps, Flag, Comment, CommentRecorded, ClearFlag, SendMessage,
     MessageRecorded, MessageStamped, NudgeCounted, CiRoundCounted, BudgetsReset,
     CreateSession, SessionRecorded, MarkDone, storeVars
<1>2. CASE DrainInbox
  BY <1>2 DEF DrainInbox, HandleLabeled, HandleCiFailed, HandleReview, HandleReply,
     HandlePullClosed, RetryClearsFlag, SupersedeOpenSessions, Dispatched, DispatchFailed,
     storeVars, history
<1>3. CASE StartSessions \/ TrackSessions
  BY <1>3 DEF StartSessions, StartDeferred, StartOverBudget, ReserveAttempt, TrackSessions,
     TimeOut, PollFails, Poll, ActOnPoll, storeVars, history
<1>4. CASE \/ \E p \in Pulls : TrackPull(p)
           \/ \E n \in Issues : RecoverIssue(n)
           \/ TickBegins \/ PassEnds \/ RefreshInsights \/ Crash
  BY <1>4 DEF TrackPull, RecoverIssue, TickBegins, PassEnds, RefreshInsights, Crash,
     storeVars, history
<1>5. CASE World
  BY <1>5 DEF World, Arrive, GraceElapses, SessionAges, PullGoesStale, history
<1> QED
  BY <1>1, <1>2, <1>3, <1>4, <1>5 DEF Next, Loop

\* The counter of rounds and its base, which move at two steps only.
RoundsSame(p) ==
    /\ pull'[p].issue = pull[p].issue /\ pull'[p].session = pull[p].session
    /\ pull'[p].rounds = pull[p].rounds
    /\ pull'[p].rounds_base = pull[p].rounds_base

LEMMA OnePullField ==
    ASSUME TypeOK, NEW p \in Pulls, NEW q, NEW v,
           \/ pull' = pull
           \/ pull' = [pull EXCEPT ![q].merged = v]
           \/ pull' = [pull EXCEPT ![q].closed = v]
           \/ pull' = [pull EXCEPT ![q].stale = v]
    PROVE  RoundsSame(p)
<1>1. pull \in [Pulls -> PullRow]
  BY DEF TypeOK, StoreTypeOK
<1> QED
  BY <1>1 DEF PullRow, RoundsSame

LEMMA RoundsStay ==
    ASSUME TypeOK, Next, NEW p \in Pulls
    PROVE  \/ RoundsSame(p)
           \/ /\ CiRoundCounted /\ p = frame.key[2]
              /\ pull'[p] = [pull[p] EXCEPT !.rounds = pull[p].rounds + 1,
                                            !.last_sha = frame.key[3]]
           \/ /\ BudgetsReset /\ pull[p].session = frame.session
              /\ pull'[p] = [pull[p] EXCEPT !.rounds_base = pull[p].rounds,
                                            !.last_sha = None]
           \/ /\ ActOnPoll /\ ~KnownPull(p)
              /\ pull'[p] = [NoPull EXCEPT !.issue = session[frame.session].issue,
                                           !.session = frame.session]
<1>1. pull \in [Pulls -> PullRow]
  BY DEF TypeOK, StoreTypeOK
<1>2. ASSUME pull'[p] = pull[p] PROVE RoundsSame(p)
  BY <1>2 DEF RoundsSame
<1>3. ASSUME NEW q, AdvancePull(q) PROVE RoundsSame(p)
  <2>1. \/ pull' = pull
        \/ pull' = [pull EXCEPT ![q].merged = TRUE]
        \/ pull' = [pull EXCEPT ![q].closed = TRUE]
    BY <1>3 DEF AdvancePull, SettleMerged, SettleClosed, MarkMerged, MarkClosed
  <2> QED
    BY <2>1, OnePullField
<1>4. CASE CiRoundCounted
  <2> DEFINE q == frame.key[2]
             r == [pull[q] EXCEPT !.rounds = pull[q].rounds + 1, !.last_sha = frame.key[3]]
  <2>1. pull' = [pull EXCEPT ![q] = r]
    BY <1>4 DEF CiRoundCounted, CountCiRound
  <2>2. p = q => pull'[p] = r
    BY <1>1, <2>1
  <2>3. p # q => pull'[p] = pull[p]
    BY <1>1, <2>1
  <2> QED
    BY <1>2, <1>4, <2>2, <2>3
<1>5. CASE BudgetsReset
  <2>1. IF pull[p].session = frame.session
        THEN pull'[p] = [pull[p] EXCEPT !.rounds_base = pull[p].rounds, !.last_sha = None]
        ELSE pull'[p] = pull[p]
    BY <1>5 DEF BudgetsReset, ResetBudgets
  <2> QED
    BY <1>2, <1>5, <2>1
<1>6. CASE EffectSteps
  <2>1. EffectSteps => pull' = pull \/ CiRoundCounted \/ BudgetsReset
    BY DEF EffectSteps, Flag, Comment, CommentRecorded, ClearFlag, SendMessage,
           MessageRecorded, MessageStamped, NudgeCounted, CreateSession, SessionRecorded,
           storeVars
  <2> QED
    BY <1>2, <1>4, <1>5, <1>6, <2>1
<1>7. CASE ActOnPoll
  <2>1. IF p \in frame.poll.pulls /\ ~KnownPull(p)
        THEN pull'[p] = [NoPull EXCEPT !.issue = session[frame.session].issue,
                                       !.session = frame.session]
        ELSE pull'[p] = pull[p]
    BY <1>7 DEF ActOnPoll, UpsertPulls
  <2> QED
    BY <1>2, <1>7, <2>1
<1>8. CASE World
  <2>1. ASSUME NEW q \in Pulls, PullGoesStale(q) PROVE RoundsSame(p)
    BY <2>1, OnePullField DEF PullGoesStale
  <2> QED
    BY <1>2, <1>8, <2>1 DEF World, Arrive, GraceElapses, SessionAges
<1>9. CASE DrainInbox
  <2>1. ASSUME NEW e \in Events, HandlePullClosed(e) PROVE RoundsSame(p)
    BY <1>2, <1>3, <2>1 DEF HandlePullClosed
  <2>2. DrainInbox => pull' = pull \/ \E e \in Events : HandlePullClosed(e)
    BY DEF DrainInbox, HandleLabeled, HandleCiFailed, HandleReview, HandleReply,
           RetryClearsFlag, SupersedeOpenSessions, Dispatched, DispatchFailed, storeVars
  <2> QED
    BY <1>2, <1>9, <2>1, <2>2
<1>10. CASE \E q \in Pulls : TrackPull(q)
  BY <1>3, <1>10 DEF TrackPull
<1>11. CASE TrackSessions
  BY <1>2, <1>7, <1>11 DEF TrackSessions, TimeOut, PollFails, Poll, storeVars
<1>12. CASE \/ StartSessions \/ TickBegins \/ PassEnds \/ Crash \/ RefreshInsights
            \/ \E n \in Issues : RecoverIssue(n)
  BY <1>2, <1>12 DEF StartSessions, StartDeferred, StartOverBudget, ReserveAttempt,
                     TickBegins, PassEnds, Crash, RefreshInsights, RecoverIssue, storeVars
<1> QED
  BY <1>6, <1>8, <1>9, <1>10, <1>11, <1>12 DEF Next, Loop

-----------------------------------------------------------------------------
(* A message under way                                                     *)

\* A nudge or a round under way is still within its limit and has not been counted, a
\* reply under way is one to the issue of the session it goes to.
KeysFinite == IsFiniteSet(done) /\ IsFiniteSet(sent)
BlankCounters ==
    /\ \A s \in SessionIds :
          session[s].issue = 0 => session[s].nudges = 0 /\ session[s].nudge_base = 0
    /\ \A p \in Pulls :
          pull[p].issue = 0 => pull[p].rounds = 0 /\ pull[p].rounds_base = 0
ActsOnRow == pc = "act" => session[frame.session].issue # 0
KeyUnderWay ==
    /\ pc \in {"send", "mark"} => frame.key \notin done
    /\ pc \in {"mark", "stamp", "follow"} => frame.key \in sent
    /\ pc \in {"stamp", "follow"} => frame.key \in done
NudgeUnderWay ==
    pc \in Messaging /\ frame.key[1] = "nudge" =>
        /\ frame.key = NudgeKey(frame.session) /\ NudgeAllowed(frame.session)
        /\ session[frame.session].issue # 0
RoundUnderWay ==
    pc \in Messaging /\ frame.key[1] = "ci" =>
        KnownPull(frame.key[2]) /\ ~CiExhausted(frame.key[2])
ReplyUnderWay ==
    pc \in Messaging /\ frame.key[1] = "reply" =>
        \E e \in Events : /\ e.kind = "issue_comment" /\ frame.key = <<"reply", e.id>>
                          /\ session[frame.session].issue = e.issue
KeysInv ==
    /\ KeysFinite /\ BlankCounters /\ ActsOnRow
    /\ KeyUnderWay /\ NudgeUnderWay /\ RoundUnderWay /\ ReplyUnderWay

\* What is asked of the tables before a message still holds while it is under way.
LEMMA TablesHold ==
    ASSUME TypeOK, Next, pc' \in Messaging
    PROVE  /\ \A s \in SessionIds : CountersSame(s) /\ session'[s].issue = session[s].issue
           /\ \A p \in Pulls : KnownPull(p) => RoundsSame(p)
<1>1. ~SessionRecorded /\ ~NudgeCounted /\ ~BudgetsReset /\ ~CiRoundCounted
  BY DEF SessionRecorded, CallComment, AfterComment, CallFlag, NudgeCounted, BudgetsReset,
         CiRoundCounted, Finish, Messaging
<1> QED
  BY <1>1, ColumnsStay, NextOpensNone, RoundsStay DEF NoneOpened, StaysOrCloses

\* A message is turned to, or goes on.
LEMMA UnderWaySteps ==
    ASSUME TypeOK, Next, pc' \in Messaging
    PROVE  /\ frame'.session \in SessionIds
           /\ \/ Sends /\ UNCHANGED <<session, done>>
              \/ /\ pc \in Messaging /\ frame' = frame
                 /\ SendMessage \/ MessageRecorded \/ MessageStamped
<1>1. TypeOK'
  BY NextTypeOK
<1> QED
  BY <1>1, MessagingSteps DEF TypeOK, HandlerTypeOK, Messaging

LEMMA KeysFiniteKept == ASSUME KeysFinite, Next PROVE KeysFinite'
<1>1. IsFiniteSet(done')
  BY KeySteps, FS_AddElement DEF KeysFinite
<1>2. IsFiniteSet(sent')
  <2>1. sent' = sent \/ sent' = sent \cup {frame.key}
    BY KeySteps DEF SendMessage, Received
  <2> QED
    BY <2>1, FS_AddElement DEF KeysFinite
<1> QED
  BY <1>1, <1>2 DEF KeysFinite

LEMMA KeyUnderWayKept ==
    ASSUME TypeOK, KeyUnderWay, Next PROVE KeyUnderWay'
<1>1. CASE pc' \in Messaging
  <2>1. CASE Sends
    BY <1>1, <2>1, UnderWaySteps DEF Sends, KeyUnderWay, SendMessage, MessageRecorded,
       MessageStamped, MarkDone, storeVars, Received, Raise
  <2>2. CASE frame' = frame /\ SendMessage
    BY <1>1, <2>2 DEF SendMessage, Received, Raise, KeyUnderWay, Messaging, storeVars
  <2>3. CASE frame' = frame /\ (MessageRecorded \/ MessageStamped)
    BY <1>1, <2>3 DEF MessageRecorded, MessageStamped, MarkDone, Finish, KeyUnderWay,
                      Messaging
  <2> QED
    BY <1>1, <2>1, <2>2, <2>3, UnderWaySteps
<1>2. CASE pc' \notin Messaging
  BY <1>2 DEF KeyUnderWay, Messaging
<1> QED
  BY <1>1, <1>2

\* A handler acts on a poll only right after it.
LEMMA ActsOnPolls ==
    ASSUME Next, pc' = "act"
    PROVE  \E s \in SessionIds, o \in Observations : Poll(s, o)
<1>1. /\ ~Finish /\ ~Raise
      /\ \A n, r : ~CallFlag(n, r) /\ ~AfterComment(n, r)
      /\ \A n, key, r : ~CallComment(n, key, r)
      /\ \A s, n, key : ~CallSend(s, n, key)
  BY DEF Finish, Raise, CallFlag, AfterComment, CallComment, CallSend
<1>2. ~EffectSteps
  BY <1>1 DEF EffectSteps, Flag, Comment, CommentRecorded, ClearFlag, SendMessage,
              MessageRecorded, MessageStamped, NudgeCounted, CiRoundCounted, BudgetsReset,
              CreateSession, SessionRecorded
<1>3. \A p, sha : ~FeedCiFailure(p, sha)
  BY <1>1 DEF FeedCiFailure, CallMessage
<1>4. \A p : ~AdvancePull(p)
  BY <1>1, <1>3 DEF AdvancePull, SettleMerged, SettleClosed, WatchPull, FeedMergeConflict,
                    CallMessage
<1>5. \A n : ~RegisterIssueVerified(n)
  BY <1>1 DEF RegisterIssueVerified
<1>6. ~DrainInbox
  BY <1>1, <1>3, <1>4, <1>5 DEF DrainInbox, HandleLabeled, HandleCiFailed, HandleReview,
       HandleReply, HandlePullClosed, CallMessage, RetryClearsFlag, SupersedeOpenSessions,
       Dispatched, DispatchFailed
<1>7. ~StartSessions
  BY <1>1 DEF StartSessions, StartDeferred, StartOverBudget, ReserveAttempt, FirstQueued
<1>8. \A s, n, o : ~ActOn(s, n, o)
  BY <1>1 DEF ActOn, ReportCompletion, FlagEnd, HandleBlocked, CallMessage
<1>9. (\A p \in Pulls : ~TrackPull(p)) /\ \A n \in Issues : ~RecoverIssue(n)
  BY <1>4, <1>5 DEF TrackPull, RecoverIssue
<1>10. ~TickBegins /\ ~PassEnds /\ ~RefreshInsights /\ ~Crash /\ ~World
  BY DEF TickBegins, PassEnds, RefreshInsights, Crash, BeginPass, World, Arrive,
         GraceElapses, SessionAges, PullGoesStale, BetweenHandlers
<1>11. TrackSessions => \E s \in SessionIds, o \in Observations : Poll(s, o)
  BY <1>1, <1>8 DEF TrackSessions, TimeOut, PollFails, ActOnPoll
<1> QED
  BY <1>2, <1>6, <1>7, <1>9, <1>10, <1>11 DEF Next, Loop

LEMMA NudgeUnderWayKept ==
    ASSUME TypeOK, ActsOnRow, NudgeUnderWay, Next PROVE NudgeUnderWay'
<1> SUFFICES ASSUME pc' \in Messaging, frame'.key[1] = "nudge",
                    NEW s \in SessionIds, s = frame'.session
             PROVE  /\ frame'.key = <<"nudge", s, session'[s].nudges + 1>>
                    /\ session'[s].nudges - session'[s].nudge_base < MaxNudges
                    /\ session'[s].issue # 0
  BY UnderWaySteps DEF NudgeUnderWay, NudgeKey, NudgeAllowed
<1>1. /\ frame'.key = NudgeKey(s) /\ NudgeAllowed(s)
      /\ session[s].issue # 0
  <2>1. CASE Sends
    <3>1. Asks(s, frame'.key)
      BY <2>1 DEF Sends
    <3>2. /\ frame'.key = NudgeKey(s) /\ NudgeAllowed(s)
          /\ pc = "act" /\ s = frame.session
      BY <3>1 DEF Asks
    <3> QED
      BY <3>2 DEF ActsOnRow
  <2>2. CASE pc \in Messaging /\ frame' = frame
    BY <2>2 DEF NudgeUnderWay
  <2> QED
    BY <2>1, <2>2, UnderWaySteps
<1>2. CountersSame(s) /\ session'[s].issue = session[s].issue
  BY TablesHold
<1> QED
  BY <1>1, <1>2 DEF NudgeKey, NudgeAllowed, CountersSame

LEMMA RoundUnderWayKept ==
    ASSUME TypeOK, RoundUnderWay, Next PROVE RoundUnderWay'
<1> SUFFICES ASSUME pc' \in Messaging, frame'.key[1] = "ci",
                    NEW q, q = frame'.key[2]
             PROVE  /\ q \in Pulls /\ pull'[q].issue # 0
                    /\ ~(pull'[q].rounds - pull'[q].rounds_base >= MaxCiRounds)
  BY DEF RoundUnderWay, KnownPull, CiExhausted
<1>1. KnownPull(q) /\ ~CiExhausted(q)
  <2>1. CASE Sends
    <3>1. Asks(frame'.session, frame'.key)
      BY <2>1 DEF Sends
    <3>2. \E p, sha : /\ frame'.key = <<"ci", p, sha>> /\ KnownPull(p)
                      /\ ~CiExhausted(p)
      BY <3>1 DEF Asks, NudgeKey
    <3> QED
      BY <3>2
  <2>2. CASE pc \in Messaging /\ frame' = frame
    BY <2>2 DEF RoundUnderWay
  <2> QED
    BY <2>1, <2>2, UnderWaySteps
<1>2. q \in Pulls /\ RoundsSame(q)
  BY <1>1, TablesHold DEF KnownPull
<1> QED
  BY <1>1, <1>2 DEF KnownPull, CiExhausted, RoundsSame

LEMMA ReplyUnderWayKept ==
    ASSUME TypeOK, ReplyUnderWay, Next PROVE ReplyUnderWay'
<1> SUFFICES ASSUME pc' \in Messaging, frame'.key[1] = "reply",
                    NEW s \in SessionIds, s = frame'.session
             PROVE  \E e \in Events :
                       /\ e.kind = "issue_comment" /\ frame'.key = <<"reply", e.id>>
                       /\ session'[s].issue = e.issue
  BY UnderWaySteps DEF ReplyUnderWay
<1>1. \E e \in Events : /\ e.kind = "issue_comment" /\ frame'.key = <<"reply", e.id>>
                        /\ session[s].issue = e.issue
  <2>1. CASE Sends
    <3>1. Asks(s, frame'.key)
      BY <2>1 DEF Sends
    <3>2. PICK e \in Events : /\ e.kind = "issue_comment" /\ frame'.key = <<"reply", e.id>>
                              /\ s = LatestSession(e.issue) /\ s # 0
      BY <3>1 DEF Asks, NudgeKey
    <3> QED
      BY <3>2, LatestIsSession
  <2>2. CASE pc \in Messaging /\ frame' = frame
    BY <2>2 DEF ReplyUnderWay
  <2> QED
    BY <2>1, <2>2, UnderWaySteps
<1>2. session'[s].issue = session[s].issue
  BY TablesHold
<1> QED
  BY <1>1, <1>2

LEMMA ActsOnRowKept ==
    ASSUME TypeOK, Next PROVE ActsOnRow'
<1> SUFFICES ASSUME pc' = "act" PROVE session'[frame'.session].issue # 0
  BY DEF ActsOnRow
<1>1. PICK s \in SessionIds, o \in Observations : Poll(s, o)
  BY ActsOnPolls
<1>2. s \in todo /\ pass = "track" /\ frame'.session = s
  BY <1>1 DEF Poll, TakesSession, Takes, NoFrame
<1>3. session[s].issue # 0
  BY <1>2 DEF TypeOK, TodoTypeOK
<1>4. session'[s].issue = session[s].issue
  BY <1>1, NextOpensNone DEF Poll, SessionRecorded, TakesSession, Takes, NoneOpened,
                             StaysOrCloses
<1> QED
  BY <1>2, <1>3, <1>4

LEMMA BlankCountersKept ==
    ASSUME TypeOK, FinalInv, KeysInv, Next PROVE BlankCounters'
<1>1. ASSUME NEW s \in SessionIds, session'[s].issue = 0
      PROVE  session'[s].nudges = 0 /\ session'[s].nudge_base = 0
  <2>1. CASE SessionRecorded
    <3>1. session' = [session EXCEPT ![frame.session] =
             [NoSession EXCEPT !.issue = frame.issue,
                               !.attempt = issue[frame.issue].attempts]]
      BY <2>1 DEF SessionRecorded, CreateSessionRow
    <3>2. session \in [SessionIds -> SessionRow]
      BY DEF TypeOK, StoreTypeOK
    <3>3. s # frame.session => session'[s] = session[s]
      BY <3>1, <3>2
    <3>4. s = frame.session => session'[s].nudges = 0 /\ session'[s].nudge_base = 0
      BY <3>1, <3>2 DEF NoSession
    <3> QED
      BY <1>1, <3>3, <3>4 DEF KeysInv, BlankCounters
  <2>2. CASE ~SessionRecorded
    <3>1. session[s].issue = 0 /\ session[s].nudges = 0 /\ session[s].nudge_base = 0
      BY <1>1, <2>2, NextOpensNone DEF NoneOpened, StaysOrCloses, KeysInv, BlankCounters
    <3>2. ASSUME s = frame.session, NudgeCounted PROVE FALSE
      BY <3>1, <3>2 DEF NudgeCounted, KeysInv, NudgeUnderWay, Messaging
    <3>3. ASSUME s = frame.session, BudgetsReset PROVE FALSE
      BY <3>1, <3>3, EventType, StoreAssumption
         DEF BudgetsReset, KeysInv, ReplyUnderWay, Messaging
    <3> QED
      BY <2>2, <3>1, <3>2, <3>3, ColumnsStay DEF CountersSame
  <2> QED
    BY <2>1, <2>2
<1>2. ASSUME NEW p \in Pulls, pull'[p].issue = 0
      PROVE  pull'[p].rounds = 0 /\ pull'[p].rounds_base = 0
  <2>1. pull[p] \in PullRow
    BY DEF TypeOK, StoreTypeOK
  <2>2. CASE RoundsSame(p)
    BY <1>2, <2>2 DEF RoundsSame, KeysInv, BlankCounters
  <2>3. CASE /\ CiRoundCounted /\ p = frame.key[2]
             /\ pull'[p] = [pull[p] EXCEPT !.rounds = pull[p].rounds + 1,
                                           !.last_sha = frame.key[3]]
    <3>1. pull[p].issue # 0
      BY <2>3 DEF CiRoundCounted, KeysInv, RoundUnderWay, KnownPull, Messaging
    <3> DEFINE count == pull[p].rounds + 1
    <3>2. pull'[p].issue = pull[p].issue
      <4>1. pull'[p] = [pull[p] EXCEPT !.rounds = count, !.last_sha = frame.key[3]]
        BY <2>3
      <4> HIDE DEF count
      <4> QED
        BY <2>1, <4>1 DEF PullRow
    <3> QED
      BY <1>2, <3>1, <3>2
  <2>4. CASE pull'[p] = [pull[p] EXCEPT !.rounds_base = pull[p].rounds, !.last_sha = None]
    BY <1>2, <2>1, <2>4 DEF PullRow, KeysInv, BlankCounters
  <2>5. CASE pull'[p] = [NoPull EXCEPT !.issue = session[frame.session].issue,
                                       !.session = frame.session]
    BY <2>5 DEF NoPull
  <2> QED
    BY <2>2, <2>3, <2>4, <2>5, RoundsStay
<1> QED
  BY <1>1, <1>2 DEF BlankCounters

LEMMA KeysInvKept ==
    ASSUME TypeOK, FinalInv, KeysInv, [Next]_vars PROVE KeysInv'
<1>1. CASE Next
  BY <1>1, KeysFiniteKept, KeyUnderWayKept, NudgeUnderWayKept, RoundUnderWayKept,
     ReplyUnderWayKept, ActsOnRowKept, BlankCountersKept DEF KeysInv
<1>2. CASE UNCHANGED vars
  BY <1>2 DEF vars, storeVars, KeysInv, KeysFinite, BlankCounters, ActsOnRow, KeyUnderWay,
     NudgeUnderWay, RoundUnderWay, ReplyUnderWay, KnownPull, CiExhausted, NudgeKey,
     NudgeAllowed
<1> QED
  BY <1>1, <1>2

LEMMA KeysInvInit == ASSUME Init PROVE KeysInv
  BY FS_EmptySet DEF Init, StoreInit, EffectsInit, NoSession, NoPull, Messaging, KeysInv,
     KeysFinite, BlankCounters, ActsOnRow, KeyUnderWay, NudgeUnderWay, RoundUnderWay,
     ReplyUnderWay

-----------------------------------------------------------------------------
(* Counting the answers                                                    *)

\* The replies to an issue that were recorded and have moved its budgets.
Recorded == IF pc \in {"stamp", "follow"} THEN {frame.key} ELSE {}
Answers(n) == {k \in RepliesTo(n) : k \in done /\ k \notin Recorded}

LEMMA Times ==
    ASSUME NEW m \in Nat, NEW c \in Nat, NEW d \in Nat
    PROVE  /\ m * c \in Nat
           /\ c <= d => m * c <= m * d
           /\ m * (c + 1) = m * c + m
<1>1. m * c \in Nat /\ m * (c + 1) = m * c + m
  OBVIOUS
<1>2. ASSUME c <= d PROVE m * c <= m * d
  <2>1. PICK e \in Nat : d = c + e
    BY <1>2
  <2>2. m * d = m * c + m * e /\ m * e \in Nat /\ m * c \in Nat
    BY <2>1
  <2> QED
    BY <2>2
<1> QED
  BY <1>1, <1>2

LEMMA AnswersFinite ==
    ASSUME KeysFinite, NEW n
    PROVE  /\ IsFiniteSet(Answers(n)) /\ Cardinality(Answers(n)) \in Nat
           /\ IsFiniteSet(RepliesTo(n)) /\ Cardinality(RepliesTo(n)) \in Nat
           /\ Cardinality(Answers(n)) <= Cardinality(RepliesTo(n))
<1>1. RepliesTo(n) \subseteq sent /\ Answers(n) \subseteq RepliesTo(n)
  BY DEF RepliesTo, Answers
<1>2. IsFiniteSet(RepliesTo(n))
  BY <1>1, FS_Subset DEF KeysFinite
<1> QED
  BY <1>1, <1>2, FS_Subset, FS_CardinalityType

LEMMA AnswersStay ==
    ASSUME TypeOK, KeysInv, Next, NEW n
    PROVE  Answers(n) \subseteq Answers(n)'
<1> SUFFICES ASSUME NEW k \in Answers(n)
             PROVE  k \in sent' /\ k \in done' /\ k \notin Recorded'
  BY DEF Answers, RepliesTo
<1>1. k \in sent /\ k \in done /\ k \notin Recorded
  BY DEF Answers, RepliesTo
<1>2. k \in sent' /\ k \in done'
  BY <1>1, KeySteps DEF SendMessage, Received
<1>3. ASSUME pc' \in {"stamp", "follow"}, k = frame'.key PROVE FALSE
  <2>1. frame' = frame /\ (MessageRecorded \/ MessageStamped)
    BY <1>3, UnderWaySteps DEF Messaging, Sends, SendMessage, Raise
  <2>2. CASE MessageRecorded
    BY <1>1, <1>3, <2>1, <2>2 DEF MessageRecorded, KeysInv, KeyUnderWay
  <2>3. CASE MessageStamped
    BY <1>1, <1>3, <2>1, <2>3 DEF MessageStamped, Recorded
  <2> QED
    BY <2>1, <2>2, <2>3
<1> QED
  BY <1>2, <1>3 DEF Recorded

LEMMA AnswersGrow ==
    ASSUME TypeOK, KeysInv, Next, NEW n
    PROVE  /\ Cardinality(Answers(n)) \in Nat /\ Cardinality(Answers(n)') \in Nat
           /\ Cardinality(Answers(n)) <= Cardinality(Answers(n)')
           /\ BudgetsReset /\ n = session[frame.session].issue
              => Cardinality(Answers(n)) + 1 <= Cardinality(Answers(n)')
<1>1. KeysFinite'
  BY KeysFiniteKept DEF KeysInv
<1>2. /\ IsFiniteSet(Answers(n)') /\ Cardinality(Answers(n)') \in Nat
      /\ IsFiniteSet(Answers(n)) /\ Cardinality(Answers(n)) \in Nat
  <2>1. IsFiniteSet(sent) /\ IsFiniteSet(sent')
    BY <1>1 DEF KeysInv, KeysFinite
  <2>2. Answers(n) \subseteq sent /\ Answers(n)' \subseteq sent'
    BY DEF Answers, RepliesTo
  <2>3. IsFiniteSet(Answers(n)') /\ IsFiniteSet(Answers(n))
    BY <2>1, <2>2, FS_Subset
  <2> QED
    BY <2>3, FS_CardinalityType
<1>3. Cardinality(Answers(n)) <= Cardinality(Answers(n)')
  BY <1>2, AnswersStay, FS_Subset
<1>4. ASSUME BudgetsReset, n = session[frame.session].issue
      PROVE  Cardinality(Answers(n)) + 1 <= Cardinality(Answers(n)')
  <2>1. frame.key \in RepliesTo(n) /\ frame.key \in done
    BY <1>4 DEF BudgetsReset, KeysInv, KeyUnderWay, ReplyUnderWay, Messaging, RepliesTo
  <2>2. frame.key \in Answers(n)'
    <3>1. frame.key \in RepliesTo(n)'
      BY <1>4, <2>1 DEF BudgetsReset, RepliesTo
    <3>2. frame.key \in done' /\ Recorded' = {}
      BY <1>4, <2>1 DEF BudgetsReset, Recorded
    <3> QED
      BY <3>1, <3>2 DEF Answers
  <2>3. frame.key \notin Answers(n)
    BY <1>4 DEF BudgetsReset, Recorded, Answers
  <2>4. Answers(n) \cup {frame.key} \subseteq Answers(n)'
    BY <2>2, AnswersStay
  <2>5. Cardinality(Answers(n) \cup {frame.key}) = Cardinality(Answers(n)) + 1
    BY <1>2, <2>3, FS_AddElement
  <2>6. Cardinality(Answers(n) \cup {frame.key}) <= Cardinality(Answers(n)')
    BY <1>2, <2>4, FS_Subset
  <2> QED
    BY <2>5, <2>6
<1> QED
  BY <1>2, <1>3, <1>4
-----------------------------------------------------------------------------
(* Nudges                                                                  *)

\* The strengthening: a count never passes its base by more than the limit, every base
\* was earned by answers, and every nudge Devin received was within the limit.
NudgesCounted ==
    \A s \in SessionIds :
        /\ session[s].nudge_base <= session[s].nudges
        /\ session[s].nudges <= session[s].nudge_base + MaxNudges
        /\ session[s].issue # 0 =>
              session[s].nudge_base <= MaxNudges * Cardinality(Answers(session[s].issue))
NudgesSent ==
    \A k \in sent :
        k[1] = "nudge" =>
            /\ k = <<"nudge", k[2], k[3]>> /\ k[2] \in SessionIds
            /\ k[3] \in 1 .. (session[k[2]].nudge_base + MaxNudges)
NudgeInv == NudgesCounted /\ NudgesSent

\* What a step does to the counters of a session.
LEMMA CounterSteps ==
    ASSUME TypeOK, FinalInv, KeysInv, Next, NEW s \in SessionIds
    PROVE  \/ CountersSame(s) /\ session'[s].issue = session[s].issue
           \/ /\ session[s].nudges = 0 /\ session[s].nudge_base = 0
              /\ session'[s].nudges = 0 /\ session'[s].nudge_base = 0
           \/ /\ NudgeCounted /\ s = frame.session
              /\ session'[s].nudges = session[s].nudges + 1
              /\ session'[s].nudge_base = session[s].nudge_base
              /\ session'[s].issue = session[s].issue
           \/ /\ BudgetsReset /\ s = frame.session
              /\ session'[s].nudges = session[s].nudges
              /\ session'[s].nudge_base = session[s].nudges
              /\ session'[s].issue = session[s].issue
<1>1. session \in [SessionIds -> SessionRow] /\ session[s] \in SessionRow
  BY DEF TypeOK, StoreTypeOK
<1>2. CASE SessionRecorded
  <2>1. s # frame.session => session'[s] = session[s]
    BY <1>1, <1>2 DEF SessionRecorded, CreateSessionRow
  <2>2. s = frame.session => session'[s].nudges = 0 /\ session'[s].nudge_base = 0
    BY <1>1, <1>2 DEF SessionRecorded, CreateSessionRow, NoSession
  <2>3. s = frame.session => session[s].nudges = 0 /\ session[s].nudge_base = 0
    BY <1>2 DEF SessionRecorded, FinalInv, RecordsBlank, KeysInv, BlankCounters
  <2> QED
    BY <2>1, <2>2, <2>3 DEF CountersSame
<1>3. CASE ~SessionRecorded
  <2>1. session'[s].issue = session[s].issue
    BY <1>3, NextOpensNone DEF NoneOpened, StaysOrCloses
  <2>2. CASE NudgeCounted /\ s = frame.session
    <3> DEFINE count == session[s].nudges + 1
    <3>1. session'[s] = [session[s] EXCEPT !.nudges = count]
      BY <1>1, <2>2 DEF NudgeCounted, BumpNudges
    <3> HIDE DEF count
    <3>2. session'[s].nudges = count /\ session'[s].nudge_base = session[s].nudge_base
      BY <1>1, <3>1 DEF SessionRow
    <3> QED
      BY <2>1, <2>2, <3>2 DEF count
  <2>3. CASE BudgetsReset /\ s = frame.session
    <3>1. session'[s] = [session[s] EXCEPT !.nudge_base = session[s].nudges]
      BY <1>1, <2>3 DEF BudgetsReset, ResetBudgets
    <3> QED
      BY <1>1, <2>1, <2>3, <3>1 DEF SessionRow
  <2> QED
    BY <1>3, <2>1, <2>2, <2>3, ColumnsStay
<1> QED
  BY <1>2, <1>3

LEMMA NudgesCountedKept ==
    ASSUME TypeOK, FinalInv, KeysInv, NudgesCounted, Next PROVE NudgesCounted'
<1> SUFFICES ASSUME NEW s \in SessionIds, NEW n, n = session'[s].issue
             PROVE  /\ session'[s].nudge_base <= session'[s].nudges
                    /\ session'[s].nudges <= session'[s].nudge_base + MaxNudges
                    /\ n # 0 => session'[s].nudge_base <= MaxNudges * Cardinality(Answers(n)')
  BY DEF NudgesCounted, Answers, RepliesTo, Recorded
<1>1. /\ session[s].nudges \in Nat /\ session[s].nudge_base \in Nat /\ MaxNudges \in Nat
      /\ session[s].nudge_base <= session[s].nudges
      /\ session[s].nudges <= session[s].nudge_base + MaxNudges
  BY OrchestratorAssumption DEF TypeOK, StoreTypeOK, SessionRow, NudgesCounted
<1>2. n # 0 /\ n = session[s].issue
      => session[s].nudge_base <= MaxNudges * Cardinality(Answers(n))
  BY DEF NudgesCounted
<1>3. CASE CountersSame(s) /\ session'[s].issue = session[s].issue
  <2>1. ASSUME n = session[s].issue, n # 0
        PROVE  session[s].nudge_base <= MaxNudges * Cardinality(Answers(n)')
    <3> DEFINE c == Cardinality(Answers(n))
               d == Cardinality(Answers(n)')
    <3>1. c \in Nat /\ d \in Nat /\ c <= d
      BY AnswersGrow
    <3>2. session[s].nudge_base <= MaxNudges * c
      BY <1>2, <2>1
    <3> HIDE DEF c, d
    <3>3. MaxNudges * c \in Nat /\ MaxNudges * d \in Nat /\ MaxNudges * c <= MaxNudges * d
      BY <1>1, <3>1, Times
    <3>4. session[s].nudge_base <= MaxNudges * d
      BY <1>1, <3>2, <3>3
    <3> QED
      BY <3>4 DEF d
  <2> QED
    BY <1>1, <1>3, <2>1 DEF CountersSame
<1>4. CASE session'[s].nudges = 0 /\ session'[s].nudge_base = 0
  <2>1. 0 <= MaxNudges * Cardinality(Answers(n)')
    BY <1>1, AnswersGrow, Times
  <2> QED
    BY <1>1, <1>4, <2>1
<1>5. CASE /\ NudgeCounted /\ s = frame.session
           /\ session'[s].nudges = session[s].nudges + 1
           /\ session'[s].nudge_base = session[s].nudge_base
           /\ session'[s].issue = session[s].issue
  <2>1. session[s].nudges - session[s].nudge_base < MaxNudges
    BY <1>5 DEF NudgeCounted, KeysInv, NudgeUnderWay, NudgeAllowed, Messaging
  <2>2. ASSUME n = session[s].issue, n # 0
        PROVE  session[s].nudge_base <= MaxNudges * Cardinality(Answers(n)')
    <3> DEFINE c == Cardinality(Answers(n))
               d == Cardinality(Answers(n)')
    <3>1. c \in Nat /\ d \in Nat /\ c <= d
      BY AnswersGrow
    <3>2. session[s].nudge_base <= MaxNudges * c
      BY <1>2, <2>2
    <3> HIDE DEF c, d
    <3>3. MaxNudges * c \in Nat /\ MaxNudges * d \in Nat /\ MaxNudges * c <= MaxNudges * d
      BY <1>1, <3>1, Times
    <3>4. session[s].nudge_base <= MaxNudges * d
      BY <1>1, <3>2, <3>3
    <3> QED
      BY <3>4 DEF d
  <2> QED
    BY <1>1, <1>5, <2>1, <2>2
<1>6. CASE /\ BudgetsReset /\ s = frame.session
           /\ session'[s].nudges = session[s].nudges
           /\ session'[s].nudge_base = session[s].nudges
           /\ session'[s].issue = session[s].issue
  <2>1. ASSUME n = session[s].issue, n # 0
        PROVE  session[s].nudges <= MaxNudges * Cardinality(Answers(n)')
    <3> DEFINE c == Cardinality(Answers(n))
               d == Cardinality(Answers(n)')
    <3>1. c \in Nat /\ d \in Nat /\ c + 1 <= d
      BY <1>6, <2>1, AnswersGrow
    <3>2. session[s].nudge_base <= MaxNudges * c
      BY <1>2, <2>1
    <3> HIDE DEF c, d
    <3>3. /\ MaxNudges * c \in Nat /\ MaxNudges * d \in Nat /\ MaxNudges * (c + 1) \in Nat
          /\ MaxNudges * (c + 1) <= MaxNudges * d
          /\ MaxNudges * (c + 1) = MaxNudges * c + MaxNudges
      <4>1. c + 1 \in Nat
        BY <3>1
      <4> QED
        BY <1>1, <3>1, <4>1, Times
    <3>4. session[s].nudges <= MaxNudges * d
      BY <1>1, <3>2, <3>3
    <3> QED
      BY <3>4 DEF d
  <2> QED
    BY <1>1, <1>6, <2>1
<1> QED
  BY <1>3, <1>4, <1>5, <1>6, CounterSteps

LEMMA NudgesSentKept ==
    ASSUME TypeOK, FinalInv, KeysInv, NudgeInv, Next PROVE NudgesSent'
<1> SUFFICES ASSUME NEW k \in sent', k[1] = "nudge"
             PROVE  /\ k = <<"nudge", k[2], k[3]>> /\ k[2] \in SessionIds
                    /\ k[3] \in 1 .. (session'[k[2]].nudge_base + MaxNudges)
  BY DEF NudgesSent
<1>1. \A s \in SessionIds : /\ session[s].nudges \in Nat /\ session[s].nudge_base \in Nat
                            /\ session[s].nudge_base <= session[s].nudges
  BY DEF TypeOK, StoreTypeOK, SessionRow, NudgeInv, NudgesCounted
<1>2. MaxNudges \in Nat
  BY OrchestratorAssumption
<1>3. /\ k = <<"nudge", k[2], k[3]>> /\ k[2] \in SessionIds
      /\ k[3] \in 1 .. (session[k[2]].nudge_base + MaxNudges)
  <2>1. CASE k \in sent
    BY <2>1 DEF NudgeInv, NudgesSent
  <2>2. CASE k \notin sent
    <3> DEFINE s == frame.session
    <3>1. SendMessage /\ k = frame.key
      BY <2>2, KeySteps DEF SendMessage, Received
    <3>2. k = NudgeKey(s) /\ NudgeAllowed(s) /\ s \in SessionIds
      BY <3>1 DEF SendMessage, KeysInv, NudgeUnderWay, Messaging, TypeOK, HandlerTypeOK
    <3>3. /\ k[2] = s /\ k[3] = session[s].nudges + 1 /\ k = <<"nudge", k[2], k[3]>>
          /\ session[s].nudges - session[s].nudge_base < MaxNudges
      BY <3>2 DEF NudgeKey, NudgeAllowed
    <3> HIDE DEF s
    <3> QED
      BY <1>1, <1>2, <3>2, <3>3
  <2> QED
    BY <2>1, <2>2
<1>4. ASSUME NEW s \in SessionIds
      PROVE  /\ session'[s].nudge_base \in Nat
             /\ session[s].nudge_base <= session'[s].nudge_base
  BY <1>1, CounterSteps DEF CountersSame
<1> QED
  BY <1>1, <1>2, <1>3, <1>4

\* No more different nudges reach a session than MAX_NUDGES for each time a person took
\* it over; how often each of them does is another matter (NudgesWithinBudget).
NudgesDiffer ==
    \A s \in SessionIds :
        session[s].issue # 0 =>
            Cardinality(NudgesOf(s))
            <= MaxNudges * (1 + Cardinality(RepliesTo(session[s].issue)))

LEMMA DifferentNudges == Spec => []NudgesDiffer
<1> DEFINE Inv == FinalInv /\ KeysInv /\ NudgeInv
<1>1. Init => Inv
  <2>1. ASSUME Init PROVE NudgeInv
    <3>1. /\ \A s \in SessionIds : session[s] = NoSession
          /\ sent = {}
      BY <2>1 DEF Init, StoreInit, EffectsInit
    <3> QED
      BY <3>1, OrchestratorAssumption DEF NoSession, NudgeInv, NudgesCounted, NudgesSent
  <2> QED
    BY <2>1, FinalInvInit, KeysInvInit
<1>2. TypeOK /\ Inv /\ [Next]_vars => Inv'
  <2>1. ASSUME NudgeInv, UNCHANGED vars PROVE NudgeInv'
    <3>1. UNCHANGED <<pc, frame, session, done, sent>>
      BY <2>1 DEF vars, storeVars
    <3>2. \A n : Answers(n)' = Answers(n)
      BY <3>1 DEF Answers, RepliesTo, Recorded
    <3> QED
      BY <2>1, <3>1, <3>2 DEF NudgeInv, NudgesCounted, NudgesSent
  <2> QED
    BY <2>1, FinalInvKept, KeysInvKept, NudgesCountedKept, NudgesSentKept DEF NudgeInv
<1>3. TypeOK /\ Inv => NudgesDiffer
  <2> SUFFICES ASSUME TypeOK, Inv, NEW s \in SessionIds, session[s].issue # 0
               PROVE  Cardinality(NudgesOf(s))
                      <= MaxNudges * (1 + Cardinality(RepliesTo(session[s].issue)))
    BY DEF NudgesDiffer
  <2> DEFINE b == session[s].nudge_base
             a == Cardinality(Answers(session[s].issue))
             r == Cardinality(RepliesTo(session[s].issue))
             c == Cardinality(NudgesOf(s))
             R == 1 .. (b + MaxNudges)
  <2>1. MaxNudges \in Nat /\ b \in Nat /\ b <= MaxNudges * a
    BY OrchestratorAssumption DEF TypeOK, StoreTypeOK, SessionRow, NudgeInv, NudgesCounted
  <2>2. a \in Nat /\ r \in Nat /\ a <= r
    BY AnswersFinite DEF KeysInv
  <2>3. IsFiniteSet(NudgesOf(s)) /\ c \in Nat
    <3>1. NudgesOf(s) \subseteq sent
      BY DEF NudgesOf
    <3>2. IsFiniteSet(NudgesOf(s))
      BY <3>1, FS_Subset DEF KeysInv, KeysFinite
    <3> QED
      BY <3>2, FS_CardinalityType
  <2>4. c <= b + MaxNudges
    <3>1. \A k \in NudgesOf(s) : k = <<"nudge", s, k[3]>> /\ k[3] \in R
      BY DEF NudgesOf, NudgeInv, NudgesSent
    <3> DEFINE f == [k \in NudgesOf(s) |-> k[3]]
    <3>2. f \in [NudgesOf(s) -> R]
      BY <3>1
    <3>3. IsFiniteSet(R) /\ Cardinality(R) = b + MaxNudges
      <4>1. b + MaxNudges \in Nat /\ b + MaxNudges \in Int /\ 1 \in Int
        BY <2>1
      <4> HIDE DEF b
      <4> QED
        BY <4>1, FS_Interval
    <3>4. ASSUME NEW x \in NudgesOf(s), NEW y \in NudgesOf(s), f[x] = f[y]
          PROVE  x = y
      BY <3>1, <3>4
    <3>5. ~(Cardinality(R) < c)
      <4> HIDE DEF f, R
      <4> QED
        BY <2>3, <3>2, <3>3, <3>4, FS_PigeonHole
    <3> HIDE DEF c, b
    <3> QED
      BY <2>1, <2>3, <3>3, <3>5
  <2> HIDE DEF a, b, c, r
  <2>5. /\ MaxNudges * a <= MaxNudges * r /\ MaxNudges * (r + 1) = MaxNudges * r + MaxNudges
        /\ MaxNudges * a \in Nat /\ MaxNudges * r \in Nat
    BY <2>1, <2>2, Times
  <2>6. c <= MaxNudges * (1 + r)
    <3>1. 1 + r = r + 1
      BY <2>2
    <3> QED
      BY <2>1, <2>3, <2>4, <2>5, <3>1
  <2> QED
    BY <2>6 DEF c, r
<1> HIDE DEF Inv
<1> QED
  BY <1>1, <1>2, <1>3, TypeCorrect, PTL DEF Spec
-----------------------------------------------------------------------------
(* A message Devin received is on record                                   *)

\* While the process stays up and no call fails ambiguously.
SentInv ==
    /\ resent = {}
    /\ \A k \in sent : k \in done \/ (pc = "mark" /\ frame.key = k)

LEMMA SentInvKept ==
    ASSUME MaxCrashes = 0, "send_message_ambiguous" \notin Failing,
           TypeOK, KeysInv, SentInv, [Next]_vars
    PROVE  SentInv'
<1>1. CASE UNCHANGED vars
  BY <1>1 DEF vars, storeVars, SentInv
<1>2. CASE Next /\ SendMessage
  <2>1. frame.key \notin sent
    BY <1>2 DEF SendMessage, KeysInv, KeyUnderWay, SentInv
  <2>2. CASE Received /\ pc' = "mark" /\ UNCHANGED frame
    BY <1>2, <2>1, <2>2 DEF SendMessage, Received, SentInv, storeVars
  <2>3. CASE UNCHANGED <<sent, resent>>
    BY <1>2, <2>3 DEF SendMessage, SentInv, storeVars
  <2> QED
    BY <1>2, <2>2, <2>3 DEF SendMessage
<1>3. CASE Next /\ ~SendMessage
  <2>1. sent' = sent /\ resent' = resent /\ done \subseteq done'
    BY <1>3, KeySteps
  <2>2. CASE pc = "mark"
    <3>1. ~Crash
      BY DEF Crash, TypeOK
    <3>2. MessageRecorded
      BY <1>3, <2>2, <3>1, MessageStep
         DEF Messaging, MessageStamped, NudgeCounted, CiRoundCounted, BudgetsReset
    <3> QED
      BY <2>1, <3>2 DEF MessageRecorded, MarkDone, SentInv
  <2>3. CASE pc # "mark"
    BY <2>1, <2>3 DEF SentInv
  <2> QED
    BY <2>2, <2>3
<1> QED
  BY <1>1, <1>2, <1>3

\* No message reaches Devin twice, whatever row is handled again and whatever else
\* fails: message_session asks before it sends and records before anything else
\* (effects.py:62-80).  A crash or an ambiguous failure between the two refutes it.
THEOREM NoneMessagedTwice ==
    ASSUME MaxCrashes = 0, "send_message_ambiguous" \notin Failing
    PROVE  Spec => []NoMessageTwice
<1> DEFINE Inv == FinalInv /\ KeysInv /\ SentInv
<1>1. Init => Inv
  <2>1. Init => SentInv
    BY DEF Init, EffectsInit, SentInv
  <2> QED
    BY <2>1, FinalInvInit, KeysInvInit
<1>2. TypeOK /\ Inv /\ [Next]_vars => Inv'
  BY FinalInvKept, KeysInvKept, SentInvKept
<1>3. Inv => NoMessageTwice
  BY DEF SentInv, NoMessageTwice
<1> HIDE DEF Inv
<1> QED
  BY <1>1, <1>2, <1>3, TypeCorrect, PTL DEF Spec

\* Devin receives at most MAX_NUDGES nudges for each time a person took a session over,
\* its start included, each of them once, through calls that fail without effect, rows
\* handled again, grace windows and answers (orchestrator.py:473-488, repo.py:379-399).
\* Without the two assumptions only DifferentNudges holds: a nudge whose call fails after
\* it arrived, or whose record a crash loses, is sent again, and nothing counts it.
THEOREM NudgesWithinBudget ==
    ASSUME MaxCrashes = 0, "send_message_ambiguous" \notin Failing
    PROVE  Spec => []NudgesBounded
<1>1. NudgesDiffer /\ NoMessageTwice => NudgesBounded
  BY DEF NudgesDiffer, NoMessageTwice, NudgesBounded
<1> QED
  BY <1>1, DifferentNudges, NoneMessagedTwice, PTL

-----------------------------------------------------------------------------
(* Rounds of conflicts                                                     *)

\* The strengthening: a conflict about to be sent is not counted yet.
ConflictInv ==
    /\ ConflictRoundsBounded
    /\ pc = "send" /\ frame.key[1] = "conflict"
       => /\ ConflictRounds(frame.key[2]) \in Nat
          /\ ConflictRounds(frame.key[2]) < MaxConflictRounds

LEMMA RoundsFinite ==
    ASSUME KeysFinite, NEW kind, NEW p
    PROVE  /\ IsFiniteSet(RoundsOf(kind, p)) /\ Cardinality(RoundsOf(kind, p)) \in Nat
           /\ ConflictRounds(p) \in Nat
<1>1. /\ RoundsOf(kind, p) \subseteq sent
      /\ {k \in done : k[1] = "conflict" /\ k[2] = p} \subseteq done
  BY DEF RoundsOf
<1>2. /\ IsFiniteSet(RoundsOf(kind, p))
      /\ IsFiniteSet({k \in done : k[1] = "conflict" /\ k[2] = p})
  BY <1>1, FS_Subset DEF KeysFinite
<1> QED
  BY <1>2, FS_CardinalityType DEF ConflictRounds

LEMMA ConflictInvKept ==
    ASSUME MaxCrashes = 0, "send_message_ambiguous" \notin Failing,
           TypeOK, KeysInv, SentInv, ConflictInv, Next
    PROVE  ConflictInv'
<1>1. MaxConflictRounds \in Nat
  BY OrchestratorAssumption
<1>2. ASSUME NEW p \in Pulls
      PROVE  Cardinality(RoundsOf("conflict", p)') <= MaxConflictRounds
  <2>1. CASE RoundsOf("conflict", p)' = RoundsOf("conflict", p)
    BY <2>1 DEF ConflictInv, ConflictRoundsBounded
  <2>2. CASE SendMessage /\ frame.key[1] = "conflict" /\ frame.key[2] = p
    <3> DEFINE C == {k \in done : k[1] = "conflict" /\ k[2] = p}
    <3>1. Cardinality(C) \in Nat /\ Cardinality(C) < MaxConflictRounds
      BY <2>2 DEF SendMessage, ConflictInv, ConflictRounds
    <3>2. IsFiniteSet(C)
      <4>1. C \subseteq done /\ IsFiniteSet(done)
        BY DEF KeysInv, KeysFinite
      <4> HIDE DEF C
      <4> QED
        BY <4>1, FS_Subset
    <3>3. RoundsOf("conflict", p)' \subseteq C \cup {frame.key}
      BY <2>2 DEF SendMessage, Received, RoundsOf, SentInv
    <3> HIDE DEF C
    <3>4. /\ IsFiniteSet(C \cup {frame.key})
          /\ Cardinality(C \cup {frame.key}) \in Nat
          /\ Cardinality(C \cup {frame.key}) <= Cardinality(C) + 1
      BY <3>1, <3>2, FS_AddElement
    <3>5. /\ Cardinality(RoundsOf("conflict", p)') \in Nat
          /\ Cardinality(RoundsOf("conflict", p)') <= Cardinality(C \cup {frame.key})
      BY <3>3, <3>4, FS_Subset, FS_CardinalityType
    <3> QED
      BY <1>1, <3>1, <3>4, <3>5
  <2>3. sent' = sent \/ (SendMessage /\ sent' = sent \cup {frame.key})
    BY KeySteps DEF SendMessage, Received
  <2>4. ~(frame.key[1] = "conflict" /\ frame.key[2] = p) /\ sent' = sent \cup {frame.key}
        => RoundsOf("conflict", p)' = RoundsOf("conflict", p)
    BY DEF RoundsOf
  <2>5. sent' = sent => RoundsOf("conflict", p)' = RoundsOf("conflict", p)
    BY DEF RoundsOf
  <2> QED
    BY <2>1, <2>2, <2>3, <2>4, <2>5
<1>3. ASSUME pc' = "send", frame'.key[1] = "conflict", NEW p, p = frame'.key[2]
      PROVE  ConflictRounds(p)' \in Nat /\ ConflictRounds(p)' < MaxConflictRounds
  <2>1. Sends /\ done' = done
    BY <1>3, UnderWaySteps DEF Messaging, SendMessage, MessageRecorded, MessageStamped,
                               Raise, Finish
  <2>2. Asks(frame'.session, frame'.key)
    BY <1>3, <2>1 DEF Sends, Messaging
  <2>3. ~ConflictExhausted(p)
    BY <1>3, <2>2 DEF Asks, NudgeKey
  <2>4. ConflictRounds(p) \in Nat
    BY RoundsFinite DEF KeysInv
  <2>5. ConflictRounds(p) < MaxConflictRounds
    BY <1>1, <2>3, <2>4 DEF ConflictExhausted
  <2>6. ConflictRounds(p)' = ConflictRounds(p)
    BY <2>1 DEF ConflictRounds
  <2> QED
    BY <2>4, <2>5, <2>6
<1> QED
  BY <1>2, <1>3 DEF ConflictInv, ConflictRoundsBounded, RoundsOf, ConflictRounds

\* At most max_conflict_rounds conflicts of a pull request are handed back, counted
\* from the records of those before (orchestrator.py:612-674).
THEOREM ConflictsWithinBudget ==
    ASSUME MaxCrashes = 0, "send_message_ambiguous" \notin Failing
    PROVE  Spec => []ConflictRoundsBounded
<1> DEFINE Inv == FinalInv /\ KeysInv /\ SentInv /\ ConflictInv
<1>1. Init => Inv
  <2>1. ASSUME Init PROVE SentInv /\ ConflictInv
    <3>1. \A p : RoundsOf("conflict", p) = {}
      BY <2>1 DEF Init, EffectsInit, RoundsOf
    <3>2. pc = "idle" /\ sent = {} /\ resent = {}
      BY <2>1 DEF Init, EffectsInit
    <3> QED
      BY <3>1, <3>2, FS_EmptySet, OrchestratorAssumption
         DEF SentInv, ConflictInv, ConflictRoundsBounded
  <2> QED
    BY <2>1, FinalInvInit, KeysInvInit
<1>2. TypeOK /\ Inv /\ [Next]_vars => Inv'
  <2>1. ASSUME ConflictInv, UNCHANGED vars PROVE ConflictInv'
    BY <2>1 DEF vars, storeVars, ConflictInv, ConflictRoundsBounded, RoundsOf, ConflictRounds
  <2> QED
    BY <2>1, FinalInvKept, KeysInvKept, SentInvKept, ConflictInvKept
<1>3. Inv => ConflictRoundsBounded
  BY DEF ConflictInv
<1> HIDE DEF Inv
<1> QED
  BY <1>1, <1>2, <1>3, TypeCorrect, PTL DEF Spec
-----------------------------------------------------------------------------
(* Rounds of red commits                                                   *)

\* The strengthening: what was sent and is not under way is counted, a count never
\* passes its base by more than the limit, and every base was earned by answers to the
\* issue whose session the pull request belongs to.
UnderWay == IF pc \in {"mark", "stamp", "follow"} THEN {frame.key} ELSE {}
CiRounds(p) == RoundsOf("ci", p) \ UnderWay
RoundCounted(p) ==
    /\ Cardinality(CiRounds(p)) <= pull[p].rounds
    /\ pull[p].rounds_base <= pull[p].rounds
    /\ pull[p].rounds <= pull[p].rounds_base + MaxCiRounds
RoundsEarned(p) ==
    KnownPull(p) =>
        /\ session[pull[p].session].issue = pull[p].issue
        /\ pull[p].rounds_base <= MaxCiRounds * Cardinality(Answers(pull[p].issue))
RoundsInv == \A p \in Pulls : RoundCounted(p) /\ RoundsEarned(p)

LEMMA CiRoundSteps ==
    ASSUME MaxCrashes = 0, "send_message_ambiguous" \notin Failing,
           TypeOK, KeysInv, SentInv, Next, NEW p
    PROVE  \/ CiRounds(p)' \subseteq CiRounds(p)
           \/ /\ CiRoundCounted /\ p = frame.key[2]
              /\ CiRounds(p)' \subseteq CiRounds(p) \cup {frame.key}
<1>1. ~Crash
  BY DEF Crash, TypeOK
<1>2. CASE SendMessage
  BY <1>2 DEF SendMessage, Received, Raise, CiRounds, RoundsOf, UnderWay
<1>3. CASE ~SendMessage /\ pc \in Messaging
  <2>1. sent' = sent
    BY <1>3, KeySteps
  <2>2. CASE MessageRecorded
    BY <2>1, <2>2 DEF MessageRecorded, CiRounds, RoundsOf, UnderWay
  <2>3. CASE MessageStamped
    BY <2>1, <2>3 DEF MessageStamped, Finish, CiRounds, RoundsOf, UnderWay
  <2>4. CASE NudgeCounted \/ BudgetsReset
    BY <2>1, <2>4 DEF NudgeCounted, BudgetsReset, CiRounds, RoundsOf, UnderWay
  <2>5. CASE CiRoundCounted
    BY <2>1, <2>5 DEF CiRoundCounted, CiRounds, RoundsOf, UnderWay
  <2> QED
    BY <1>1, <1>3, <2>2, <2>3, <2>4, <2>5, MessageStep
<1>4. CASE ~SendMessage /\ pc \notin Messaging
  <2>1. sent' = sent
    BY <1>4, KeySteps
  <2>2. UnderWay = {}
    BY <1>4 DEF UnderWay, Messaging
  <2> QED
    BY <2>1, <2>2 DEF CiRounds, RoundsOf
<1> QED
  BY <1>2, <1>3, <1>4

LEMMA RoundCountedKept ==
    ASSUME MaxCrashes = 0, "send_message_ambiguous" \notin Failing,
           TypeOK, KeysInv, SentInv, RoundsInv, Next, NEW p \in Pulls
    PROVE  RoundCounted(p)'
<1> DEFINE C == CiRounds(p)
           D == CiRounds(p)'
<1> SUFFICES /\ Cardinality(D) <= pull'[p].rounds
             /\ pull'[p].rounds_base <= pull'[p].rounds
             /\ pull'[p].rounds <= pull'[p].rounds_base + MaxCiRounds
  BY DEF RoundCounted, CiRounds, RoundsOf, UnderWay
<1>1. /\ pull[p] \in PullRow /\ MaxCiRounds \in Nat
      /\ pull[p].rounds \in Nat /\ pull[p].rounds_base \in Nat
  BY OrchestratorAssumption DEF TypeOK, StoreTypeOK, PullRow
<1>2. /\ Cardinality(C) <= pull[p].rounds
      /\ pull[p].rounds_base <= pull[p].rounds
      /\ pull[p].rounds <= pull[p].rounds_base + MaxCiRounds
  BY DEF RoundsInv, RoundCounted
<1>3. IsFiniteSet(C) /\ Cardinality(C) \in Nat
  <2>1. C \subseteq RoundsOf("ci", p) /\ IsFiniteSet(RoundsOf("ci", p))
    BY RoundsFinite DEF CiRounds, KeysInv
  <2> HIDE DEF C
  <2> QED
    BY <2>1, FS_Subset, FS_CardinalityType
<1>4. ASSUME D \subseteq C PROVE Cardinality(D) <= pull[p].rounds /\ Cardinality(D) \in Nat
  <2> HIDE DEF C, D
  <2>1. IsFiniteSet(D) /\ Cardinality(D) <= Cardinality(C)
    BY <1>3, <1>4, FS_Subset
  <2>2. Cardinality(D) \in Nat
    BY <2>1, FS_CardinalityType
  <2> QED
    BY <1>1, <1>2, <1>3, <2>1, <2>2
<1>5. ASSUME D \subseteq C \cup {frame.key}
      PROVE  Cardinality(D) <= pull[p].rounds + 1 /\ Cardinality(D) \in Nat
  <2> HIDE DEF C, D
  <2>1. /\ IsFiniteSet(C \cup {frame.key}) /\ Cardinality(C \cup {frame.key}) \in Nat
        /\ Cardinality(C \cup {frame.key}) <= Cardinality(C) + 1
    BY <1>3, FS_AddElement
  <2>2. IsFiniteSet(D) /\ Cardinality(D) <= Cardinality(C \cup {frame.key})
    BY <1>5, <2>1, FS_Subset
  <2>3. Cardinality(D) \in Nat
    BY <2>2, FS_CardinalityType
  <2> QED
    BY <1>1, <1>2, <1>3, <2>1, <2>2, <2>3
<1>6. CASE CiRoundCounted /\ p = frame.key[2]
  <2> DEFINE count == pull[p].rounds + 1
             row == [pull[p] EXCEPT !.rounds = count, !.last_sha = frame.key[3]]
  <2>1. pull'[p] = row
    <3>1. pull' = [pull EXCEPT ![p] = row]
      BY <1>6 DEF CiRoundCounted, CountCiRound
    <3>2. pull \in [Pulls -> PullRow]
      BY DEF TypeOK, StoreTypeOK
    <3> QED
      BY <3>1, <3>2
  <2> HIDE DEF count
  <2>2. pull'[p].rounds = count /\ pull'[p].rounds_base = pull[p].rounds_base
    BY <1>1, <2>1 DEF PullRow
  <2>3. ~(pull[p].rounds - pull[p].rounds_base >= MaxCiRounds)
    BY <1>6 DEF CiRoundCounted, KeysInv, RoundUnderWay, Messaging, CiExhausted
  <2>4. D \subseteq C \cup {frame.key}
    BY CiRoundSteps
  <2>5. Cardinality(D) <= count
    BY <1>5, <2>4 DEF count
  <2> HIDE DEF C, D
  <2> QED
    BY <1>1, <1>2, <2>2, <2>3, <2>5 DEF count
<1>7. CASE ~(CiRoundCounted /\ p = frame.key[2])
  <2>1. Cardinality(D) <= pull[p].rounds /\ Cardinality(D) \in Nat
    BY <1>4, <1>7, CiRoundSteps
  <2> HIDE DEF C, D
  <2>2. CASE RoundsSame(p)
    BY <1>1, <1>2, <2>1, <2>2 DEF RoundsSame
  <2>3. CASE pull'[p] = [pull[p] EXCEPT !.rounds_base = pull[p].rounds, !.last_sha = None]
    <3>1. pull'[p].rounds = pull[p].rounds /\ pull'[p].rounds_base = pull[p].rounds
      BY <1>1, <2>3 DEF PullRow
    <3> QED
      BY <1>1, <1>2, <2>1, <3>1
  <2>4. CASE /\ ~KnownPull(p)
             /\ pull'[p] = [NoPull EXCEPT !.issue = session[frame.session].issue,
                                          !.session = frame.session]
    <3>1. pull[p].rounds = 0
      BY <2>4 DEF KnownPull, KeysInv, BlankCounters
    <3>2. pull'[p].rounds = 0 /\ pull'[p].rounds_base = 0
      BY <2>4 DEF NoPull
    <3> QED
      BY <1>1, <2>1, <3>1, <3>2
  <2> QED
    BY <1>7, <2>2, <2>3, <2>4, RoundsStay
<1> HIDE DEF C, D
<1> QED
  BY <1>6, <1>7, RoundsStay

\* The row of a session stays with its issue.
LEMMA RowsStay ==
    ASSUME TypeOK, FinalInv, Next, NEW s, session[s].issue # 0, s \in SessionIds
    PROVE  session'[s].issue = session[s].issue
<1>1. CASE SessionRecorded
  <2>1. s # frame.session /\ session \in [SessionIds -> SessionRow]
    BY <1>1 DEF SessionRecorded, FinalInv, RecordsBlank, TypeOK, StoreTypeOK
  <2> QED
    BY <1>1, <2>1 DEF SessionRecorded, CreateSessionRow
<1>2. CASE ~SessionRecorded
  BY <1>2, NextOpensNone DEF NoneOpened, StaysOrCloses
<1> QED
  BY <1>1, <1>2

LEMMA RoundsEarnedKept ==
    ASSUME TypeOK, FinalInv, KeysInv, RoundsInv, Next, NEW p \in Pulls
    PROVE  RoundsEarned(p)'
<1> SUFFICES ASSUME NEW n, n = pull'[p].issue, n # 0
             PROVE  /\ session'[pull'[p].session].issue = n
                    /\ pull'[p].rounds_base <= MaxCiRounds * Cardinality(Answers(n)')
  BY DEF RoundsEarned, KnownPull, Answers, RepliesTo, Recorded
<1> DEFINE c == Cardinality(Answers(n))
           d == Cardinality(Answers(n)')
<1>1. /\ pull[p] \in PullRow /\ MaxCiRounds \in Nat
      /\ pull[p].rounds \in Nat /\ pull[p].rounds_base \in Nat
      /\ pull[p].issue # 0 => pull[p].session \in SessionIds
  BY OrchestratorAssumption DEF TypeOK, StoreTypeOK, PullRow
<1>2. c \in Nat /\ d \in Nat /\ c <= d
  BY AnswersGrow
<1>3. pull[p].rounds <= pull[p].rounds_base + MaxCiRounds
  BY DEF RoundsInv, RoundCounted
<1>4. ASSUME pull[p].issue = n
      PROVE  /\ session[pull[p].session].issue = n
             /\ session'[pull[p].session].issue = n
             /\ pull[p].rounds_base <= MaxCiRounds * c
  <2>1. session[pull[p].session].issue = n /\ pull[p].rounds_base <= MaxCiRounds * c
    BY <1>4 DEF RoundsInv, RoundsEarned, KnownPull
  <2>2. pull[p].session \in SessionIds
    BY <1>1, <1>4
  <2> QED
    BY <2>1, <2>2, RowsStay
<1>5. CASE /\ BudgetsReset /\ pull[p].session = frame.session
           /\ pull'[p] = [pull[p] EXCEPT !.rounds_base = pull[p].rounds, !.last_sha = None]
  <2>1. /\ pull'[p].issue = pull[p].issue /\ pull'[p].session = pull[p].session
        /\ pull'[p].rounds_base = pull[p].rounds
    BY <1>1, <1>5 DEF PullRow
  <2>2. n = session[frame.session].issue
    BY <1>4, <1>5, <2>1
  <2>3. c + 1 <= d
    BY <1>5, <2>2, AnswersGrow
  <2> HIDE DEF c, d
  <2>4. /\ MaxCiRounds * c \in Nat /\ MaxCiRounds * d \in Nat
        /\ MaxCiRounds * (c + 1) \in Nat
        /\ MaxCiRounds * (c + 1) <= MaxCiRounds * d
        /\ MaxCiRounds * (c + 1) = MaxCiRounds * c + MaxCiRounds
    <3>1. c + 1 \in Nat
      BY <1>2
    <3> QED
      BY <1>1, <1>2, <2>3, <3>1, Times
  <2>5. pull[p].rounds <= MaxCiRounds * d
    BY <1>1, <1>3, <1>4, <2>1, <2>4
  <2> QED
    BY <1>4, <2>1, <2>5 DEF d
<1>6. ASSUME pull'[p].issue = pull[p].issue, pull'[p].session = pull[p].session,
             pull'[p].rounds_base = pull[p].rounds_base
      PROVE  /\ session'[pull'[p].session].issue = n
             /\ pull'[p].rounds_base <= MaxCiRounds * Cardinality(Answers(n)')
  <2> HIDE DEF c, d
  <2>1. /\ MaxCiRounds * c \in Nat /\ MaxCiRounds * d \in Nat
        /\ MaxCiRounds * c <= MaxCiRounds * d
    BY <1>1, <1>2, Times
  <2>2. pull[p].rounds_base <= MaxCiRounds * d
    BY <1>1, <1>4, <1>6, <2>1
  <2> QED
    BY <1>4, <1>6, <2>2 DEF d
<1>7. CASE /\ CiRoundCounted
           /\ pull'[p] = [pull[p] EXCEPT !.rounds = pull[p].rounds + 1,
                                         !.last_sha = frame.key[3]]
  <2> DEFINE count == pull[p].rounds + 1
  <2>1. pull'[p] = [pull[p] EXCEPT !.rounds = count, !.last_sha = frame.key[3]]
    BY <1>7
  <2> HIDE DEF count, c, d
  <2>2. /\ pull'[p].issue = pull[p].issue /\ pull'[p].session = pull[p].session
        /\ pull'[p].rounds_base = pull[p].rounds_base
    BY <1>1, <2>1 DEF PullRow
  <2> QED
    BY <1>6, <2>2
<1>8. CASE /\ ActOnPoll
           /\ pull'[p] = [NoPull EXCEPT !.issue = session[frame.session].issue,
                                        !.session = frame.session]
  <2>1. /\ pull'[p].issue = session[frame.session].issue
        /\ pull'[p].session = frame.session /\ pull'[p].rounds_base = 0
    BY <1>8 DEF NoPull
  <2>2. session' = session
    BY <1>8 DEF ActOnPoll
  <2> HIDE DEF c, d
  <2>3. MaxCiRounds * d \in Nat
    BY <1>1, <1>2, Times
  <2>4. 0 <= MaxCiRounds * d
    BY <2>3
  <2> QED
    BY <2>1, <2>2, <2>4 DEF d
<1> HIDE DEF c, d
<1>9. CASE RoundsSame(p)
  BY <1>6, <1>9 DEF RoundsSame
<1> QED
  BY <1>5, <1>7, <1>8, <1>9, RoundsStay

\* At most max_ci_feedback_rounds red commits of a pull request are handed back for each
\* time a person took its session over, its start included (orchestrator.py:676-720, 774-808).
THEOREM RoundsWithinBudget ==
    ASSUME MaxCrashes = 0, "send_message_ambiguous" \notin Failing
    PROVE  Spec => []CiRoundsBounded
<1> DEFINE Inv == FinalInv /\ KeysInv /\ SentInv /\ RoundsInv
<1>1. Init => Inv
  <2>1. ASSUME Init PROVE SentInv /\ RoundsInv
    <3>1. \A p : CiRounds(p) = {}
      BY <2>1 DEF Init, EffectsInit, CiRounds, RoundsOf
    <3>2. /\ \A p \in Pulls : pull[p] = NoPull
          /\ sent = {} /\ resent = {}
      BY <2>1 DEF Init, StoreInit, EffectsInit
    <3>3. SentInv
      BY <3>2 DEF SentInv
    <3>4. ASSUME NEW p \in Pulls PROVE RoundCounted(p) /\ RoundsEarned(p)
      <4>1. pull[p].issue = 0 /\ pull[p].rounds = 0 /\ pull[p].rounds_base = 0
        BY <3>2 DEF NoPull
      <4>2. Cardinality(CiRounds(p)) = 0
        BY <3>1, FS_EmptySet
      <4>3. MaxCiRounds \in Nat
        BY OrchestratorAssumption
      <4> QED
        BY <4>1, <4>2, <4>3 DEF RoundCounted, RoundsEarned, KnownPull
    <3> QED
      BY <3>3, <3>4 DEF RoundsInv
  <2> QED
    BY <2>1, FinalInvInit, KeysInvInit
<1>2. TypeOK /\ Inv /\ [Next]_vars => Inv'
  <2>1. ASSUME RoundsInv, UNCHANGED vars PROVE RoundsInv'
    <3>1. UNCHANGED <<pc, frame, session, pull, done, sent>>
      BY <2>1 DEF vars, storeVars
    <3>2. /\ \A n : Answers(n)' = Answers(n)
          /\ \A p : CiRounds(p)' = CiRounds(p)
      BY <3>1 DEF Answers, RepliesTo, Recorded, CiRounds, RoundsOf, UnderWay
    <3> QED
      BY <2>1, <3>1, <3>2 DEF RoundsInv, RoundCounted, RoundsEarned, KnownPull
  <2>2. ASSUME TypeOK, Inv, Next PROVE RoundsInv'
    BY <2>2, RoundCountedKept, RoundsEarnedKept DEF RoundsInv
  <2> QED
    BY <2>1, <2>2, FinalInvKept, KeysInvKept, SentInvKept
<1>3. TypeOK /\ Inv => CiRoundsBounded
  <2> SUFFICES ASSUME TypeOK, Inv, NEW p \in Pulls, KnownPull(p)
               PROVE  Cardinality(RoundsOf("ci", p))
                      <= MaxCiRounds * (1 + Cardinality(RepliesTo(pull[p].issue)))
    BY DEF CiRoundsBounded
  <2> DEFINE a == Cardinality(Answers(pull[p].issue))
             r == Cardinality(RepliesTo(pull[p].issue))
             c == Cardinality(CiRounds(p))
             t == Cardinality(RoundsOf("ci", p))
  <2>1. /\ MaxCiRounds \in Nat /\ pull[p].rounds \in Nat /\ pull[p].rounds_base \in Nat
        /\ c <= pull[p].rounds /\ pull[p].rounds <= pull[p].rounds_base + MaxCiRounds
        /\ pull[p].rounds_base <= MaxCiRounds * a
    BY OrchestratorAssumption
       DEF TypeOK, StoreTypeOK, PullRow, RoundsInv, RoundCounted, RoundsEarned
  <2>2. a \in Nat /\ r \in Nat /\ a <= r
    BY AnswersFinite DEF KeysInv
  <2>3. t \in Nat /\ c \in Nat /\ IsFiniteSet(CiRounds(p))
    <3>1. CiRounds(p) \subseteq RoundsOf("ci", p) /\ IsFiniteSet(RoundsOf("ci", p))
      BY RoundsFinite DEF CiRounds, KeysInv
    <3> QED
      BY <3>1, FS_Subset, FS_CardinalityType
  <2>4. t <= pull[p].rounds_base + MaxCiRounds
    <3>1. CASE RoundsOf("ci", p) = CiRounds(p)
      BY <2>1, <2>3, <3>1
    <3>2. CASE RoundsOf("ci", p) # CiRounds(p)
      <4>1. /\ pc \in Messaging /\ frame.key[1] = "ci" /\ frame.key[2] = p
            /\ RoundsOf("ci", p) = CiRounds(p) \cup {frame.key}
        BY <3>2 DEF CiRounds, RoundsOf, UnderWay, Messaging
      <4>2. pull[p].rounds - pull[p].rounds_base < MaxCiRounds
        BY <2>1, <4>1 DEF KeysInv, RoundUnderWay, CiExhausted
      <4>3. t <= c + 1
        BY <2>3, <4>1, FS_AddElement
      <4> HIDE DEF c, t
      <4> QED
        BY <2>1, <2>3, <4>2, <4>3
    <3> QED
      BY <3>1, <3>2
  <2> HIDE DEF a, c, t, r
  <2>5. /\ MaxCiRounds * a <= MaxCiRounds * r
        /\ MaxCiRounds * (r + 1) = MaxCiRounds * r + MaxCiRounds
        /\ MaxCiRounds * a \in Nat /\ MaxCiRounds * r \in Nat
    BY <2>1, <2>2, Times
  <2>6. t <= MaxCiRounds * (1 + r)
    <3>1. 1 + r = r + 1
      BY <2>2
    <3> QED
      BY <2>1, <2>3, <2>4, <2>5, <3>1
  <2> QED
    BY <2>6 DEF t, r
<1> HIDE DEF Inv
<1> QED
  BY <1>1, <1>2, <1>3, TypeCorrect, PTL DEF Spec

-----------------------------------------------------------------------------
(* A nudge is never wedged                                                 *)

\* What is recorded of a comment is never the key of a message, and only flag_human
\* turns to the comment of a flag.
Commenting == {"comment", "commented"}
Notices == {"started", "completion", "undelivered"}
Notifies == pc' \in Commenting => pc' = "comment" /\ frame'.key[1] \in Notices
NoticeUnderWay == pc \in Commenting => frame.key[1] \in Notices \cup {"flag"}

LEMMA CallsNotify ==
    /\ Finish \/ Raise => Notifies
    /\ \A n, r : CallFlag(n, r) \/ AfterComment(n, r) => Notifies
    /\ \A n, key, r : key[1] \in Notices /\ CallComment(n, key, r) => Notifies
    /\ \A s, n, key : CallSend(s, n, key) => Notifies
<1>1. /\ Finish \/ Raise => Notifies
      /\ \A n, r : CallFlag(n, r) => Notifies
      /\ \A s, n, key : CallSend(s, n, key) => Notifies
  BY DEF Finish, Raise, CallFlag, CallSend, Notifies, Commenting
<1>2. \A n, r : AfterComment(n, r) => Notifies
  BY <1>1 DEF AfterComment
<1>3. ASSUME NEW n, NEW key, NEW r, key[1] \in Notices, CallComment(n, key, r)
      PROVE  Notifies
  BY <1>2, <1>3 DEF CallComment, NoFrame, Notifies
<1> QED
  BY <1>1, <1>2, <1>3

LEMMA EffectsNotify ==
    ASSUME EffectSteps
    PROVE  Notifies \/ Flag \/ (Comment /\ UNCHANGED frame)
<1>1. CASE Comment \/ CommentRecorded
  BY <1>1, CallsNotify DEF Comment, CommentRecorded
<1>2. CASE ClearFlag \/ NudgeCounted \/ CiRoundCounted
  BY <1>2, CallsNotify DEF ClearFlag, NudgeCounted, CiRoundCounted
<1>3. CASE SendMessage \/ MessageRecorded \/ MessageStamped \/ BudgetsReset
  BY <1>3, CallsNotify DEF SendMessage, MessageRecorded, MessageStamped, BudgetsReset,
                           Notifies, Commenting
<1>4. CASE CreateSession
  BY <1>4, CallsNotify DEF CreateSession, Notifies, Commenting
<1>5. CASE SessionRecorded
  <2>1. <<"started", frame.session>>[1] \in Notices
    BY DEF Notices
  <2> QED
    BY <1>5, <2>1, CallsNotify DEF SessionRecorded
<1> QED
  BY <1>1, <1>2, <1>3, <1>4, <1>5 DEF EffectSteps

LEMMA HandlersNotify ==
    /\ \A p, sha : FeedCiFailure(p, sha) => Notifies
    /\ \A p : AdvancePull(p) => Notifies
    /\ \A s, n, o : ActOn(s, n, o) => Notifies
    /\ \A n : RegisterIssueVerified(n) => Notifies
<1>1. \A p, sha : FeedCiFailure(p, sha) => Notifies
  BY CallsNotify DEF FeedCiFailure, CallMessage
<1>2. \A p : AdvancePull(p) => Notifies
  <2>1. \A p : SettleMerged(p) => Notifies
    BY CallsNotify DEF SettleMerged, Notifies, Commenting
  <2>2. \A p : SettleClosed(p) \/ WatchPull(p) => Notifies
    BY CallsNotify DEF SettleClosed, WatchPull
  <2>3. \A p, sha : FeedMergeConflict(p, sha) => Notifies
    BY CallsNotify DEF FeedMergeConflict, CallMessage
  <2> QED
    BY <1>1, <2>1, <2>2, <2>3, CallsNotify DEF AdvancePull
<1>3. ASSUME NEW s, NEW n, NEW o, ActOn(s, n, o) PROVE Notifies
  <2>1. <<"completion", s>>[1] \in Notices
    BY DEF Notices
  <2>2. ReportCompletion(s, n, o) => Notifies
    BY <2>1, CallsNotify DEF ReportCompletion
  <2> QED
    BY <1>3, <2>2, CallsNotify DEF ActOn, FlagEnd, HandleBlocked, CallMessage
<1>4. \A n : RegisterIssueVerified(n) => Notifies
  BY CallsNotify DEF RegisterIssueVerified, Notifies, Commenting
<1> QED
  BY <1>1, <1>2, <1>3, <1>4

LEMMA NoticeSteps ==
    ASSUME Next
    PROVE  Notifies \/ Flag \/ (Comment /\ UNCHANGED frame)
<1>1. CASE EffectSteps
  BY <1>1, EffectsNotify
<1>2. CASE DrainInbox
  <2>1. ASSUME NEW e \in Events,
               HandleLabeled(e) \/ HandlePullClosed(e) \/ HandleCiFailed(e)
        PROVE  Notifies
    BY <2>1, HandlersNotify, CallsNotify DEF HandleLabeled, HandlePullClosed,
                                             HandleCiFailed
  <2>2. ASSUME NEW e \in Events, HandleReview(e) \/ HandleReply(e) PROVE Notifies
    <3>1. <<"undelivered", e.id>>[1] \in Notices
      BY DEF Notices
    <3> QED
      BY <2>2, <3>1, CallsNotify DEF HandleReview, HandleReply, CallMessage
  <2>3. CASE RetryClearsFlag \/ SupersedeOpenSessions \/ Dispatched \/ DispatchFailed
    BY <2>3, CallsNotify DEF RetryClearsFlag, SupersedeOpenSessions, Dispatched,
                             DispatchFailed, Notifies, Commenting
  <2> QED
    BY <1>2, <2>1, <2>2, <2>3 DEF DrainInbox
<1>3. CASE StartSessions
  BY <1>3, CallsNotify DEF StartSessions, StartDeferred, StartOverBudget, ReserveAttempt,
                           FirstQueued, Notifies, Commenting
<1>4. CASE TrackSessions
  BY <1>4, HandlersNotify, CallsNotify DEF TrackSessions, TimeOut, PollFails, Poll,
                                           ActOnPoll, Notifies, Commenting
<1>5. CASE \/ \E p \in Pulls : TrackPull(p)
           \/ \E n \in Issues : RecoverIssue(n)
  BY <1>5, HandlersNotify DEF TrackPull, RecoverIssue
<1>6. CASE TickBegins \/ PassEnds \/ RefreshInsights \/ Crash \/ World
  BY <1>6 DEF TickBegins, PassEnds, RefreshInsights, Crash, BeginPass, World, Arrive,
              GraceElapses, SessionAges, PullGoesStale, BetweenHandlers, Notifies,
              Commenting
<1> QED
  BY <1>1, <1>2, <1>3, <1>4, <1>5, <1>6 DEF Next, Loop

LEMMA FlagTurnsToComment ==
    ASSUME Flag, pc' \in Commenting
    PROVE  /\ pc' = "comment" /\ frame'.key = FlagKey(frame.issue, frame.reason)
           /\ FlagIsNews(frame.issue, frame.reason)
           /\ FlagKey(frame.issue, frame.reason) \notin done
  BY DEF Flag, CallComment, AfterComment, Finish, NoFrame, Commenting

LEMMA NoticeUnderWayKept ==
    ASSUME NoticeUnderWay, [Next]_vars PROVE NoticeUnderWay'
<1>1. CASE UNCHANGED vars
  BY <1>1 DEF vars, NoticeUnderWay
<1>2. CASE Flag
  <2>1. FlagKey(frame.issue, frame.reason)[1] = "flag"
    BY DEF FlagKey
  <2> QED
    BY <1>2, <2>1, FlagTurnsToComment DEF NoticeUnderWay
<1>3. CASE Comment /\ UNCHANGED frame
  BY <1>3 DEF Comment, NoticeUnderWay, Commenting
<1> QED
  BY <1>1, <1>2, <1>3, NoticeSteps DEF NoticeUnderWay, Notifies

\* What is recorded of a nudge is counted, or is about to be.
NudgesDone ==
    \A k \in done :
        k[1] = "nudge" =>
            /\ k[2] \in SessionIds /\ k[3] \in Nat
            /\ \/ k[3] <= session[k[2]].nudges
               \/ pc \in {"stamp", "follow"} /\ frame.key = k

LEMMA NudgesDoneKept ==
    ASSUME MaxCrashes = 0, TypeOK, FinalInv, KeysInv, NoticeUnderWay, NudgesDone, Next
    PROVE  NudgesDone'
<1> SUFFICES ASSUME NEW k \in done', k[1] = "nudge"
             PROVE  /\ k[2] \in SessionIds /\ k[3] \in Nat
                    /\ \/ k[3] <= session'[k[2]].nudges
                       \/ pc' \in {"stamp", "follow"} /\ frame'.key = k
  BY DEF NudgesDone
<1>1. ASSUME NEW s \in SessionIds
      PROVE  /\ session[s].nudges \in Nat /\ session'[s].nudges \in Nat
             /\ session[s].nudges <= session'[s].nudges
  <2>1. session[s].nudges \in Nat
    BY DEF TypeOK, StoreTypeOK, SessionRow
  <2> QED
    BY <2>1, CounterSteps DEF CountersSame
<1>2. ~Crash
  BY DEF Crash, TypeOK
<1>3. CASE k \in done /\ k[3] <= session[k[2]].nudges
  <2>1. k[2] \in SessionIds /\ k[3] \in Nat
    BY <1>3 DEF NudgesDone
  <2> QED
    BY <1>1, <1>3, <2>1
<1>4. CASE k \in done /\ pc \in {"stamp", "follow"} /\ frame.key = k
  <2>1. k[2] \in SessionIds /\ k[3] \in Nat
    BY <1>4 DEF NudgesDone
  <2>2. \/ MessageStamped \/ NudgeCounted
    BY <1>2, <1>4, MessageStep DEF Messaging, SendMessage, MessageRecorded, CiRoundCounted,
                                   BudgetsReset
  <2>3. CASE MessageStamped
    BY <1>4, <2>1, <2>3 DEF MessageStamped
  <2>4. CASE NudgeCounted
    <3>1. k = NudgeKey(frame.session) /\ frame.session \in SessionIds
      BY <1>4 DEF KeysInv, NudgeUnderWay, Messaging, TypeOK, HandlerTypeOK
    <3>2. k[2] = frame.session /\ k[3] = session[frame.session].nudges + 1
      BY <3>1 DEF NudgeKey
    <3> DEFINE s == frame.session
               count == session[s].nudges + 1
    <3>3. session'[s] = [session[s] EXCEPT !.nudges = count]
      BY <2>4, <3>1 DEF NudgeCounted, BumpNudges, TypeOK, StoreTypeOK
    <3>4. session[s] \in SessionRow
      BY <3>1 DEF TypeOK, StoreTypeOK
    <3> HIDE DEF count
    <3>5. session'[s].nudges = count
      BY <3>3, <3>4 DEF SessionRow
    <3> QED
      BY <1>1, <2>1, <3>1, <3>2, <3>5 DEF count
  <2> QED
    BY <2>2, <2>3, <2>4
<1>5. CASE k \notin done
  <2>1. (MessageRecorded \/ CommentRecorded) /\ k = frame.key
    BY <1>5, KeySteps
  <2>2. MessageRecorded
    BY <2>1 DEF CommentRecorded, NoticeUnderWay, Commenting, Notices
  <2>3. k = NudgeKey(frame.session) /\ frame.session \in SessionIds
    BY <2>1, <2>2 DEF MessageRecorded, KeysInv, NudgeUnderWay, Messaging, TypeOK,
                      HandlerTypeOK
  <2>4. k[2] = frame.session /\ k[3] = session[frame.session].nudges + 1
    BY <2>3 DEF NudgeKey
  <2> QED
    BY <1>1, <2>1, <2>2, <2>3, <2>4 DEF MessageRecorded
<1> QED
  BY <1>3, <1>4, <1>5 DEF NudgesDone

\* While the process stays up, the next nudge of an open session is never one already
\* recorded: the record of a nudge and its count fall apart in a crash only
\* (orchestrator.py:473-488, effects.py:62-80).
THEOREM NudgesNotWedged == ASSUME MaxCrashes = 0 PROVE Spec => []NudgeNotWedged
<1> DEFINE Inv == FinalInv /\ KeysInv /\ NoticeUnderWay /\ NudgesDone
<1>1. Init => Inv
  <2>1. Init => NoticeUnderWay /\ NudgesDone
    BY DEF Init, StoreInit, EffectsInit, NoticeUnderWay, NudgesDone, Commenting
  <2> QED
    BY <2>1, FinalInvInit, KeysInvInit
<1>2. TypeOK /\ Inv /\ [Next]_vars => Inv'
  <2>1. NudgesDone /\ UNCHANGED vars => NudgesDone'
    BY DEF vars, storeVars, NudgesDone
  <2> QED
    BY <2>1, FinalInvKept, KeysInvKept, NoticeUnderWayKept, NudgesDoneKept
<1>3. TypeOK /\ Inv => NudgeNotWedged
  <2> SUFFICES ASSUME TypeOK, Inv, Idle, NEW s \in SessionIds, NudgeKey(s) \in done
               PROVE  FALSE
    BY DEF NudgeNotWedged
  <2>1. session[s].nudges \in Nat
    BY DEF TypeOK, StoreTypeOK, SessionRow
  <2>2. /\ NudgeKey(s)[1] = "nudge" /\ NudgeKey(s)[2] = s
        /\ NudgeKey(s)[3] = session[s].nudges + 1
    BY DEF NudgeKey
  <2>3. pc \notin {"stamp", "follow"}
    BY DEF Idle
  <2> QED
    BY <2>1, <2>2, <2>3 DEF NudgesDone
<1> HIDE DEF Inv
<1> QED
  BY <1>1, <1>2, <1>3, TypeCorrect, PTL DEF Spec

-----------------------------------------------------------------------------
(* What a person is told                                                   *)

\* The strengthening.  A comment that is recorded, or about to be, is of an episode
\* that has begun, and while that episode lasts its reason has been told; the comment
\* of a flag under way is the one of the flag as it stands; a flag that stands has been
\* told, or its comment is under way.
Written == IF pc = "commented" THEN done \cup {frame.key} ELSE done
EpisodesTold ==
    \A k \in Written :
        k[1] = "flag" =>
            /\ k[4] <= issue[k[2]].episode
            /\ k[4] = issue[k[2]].episode /\ issue[k[2]].reason # None
               => k[3] \in told[k[2]]
FlagUnderWay ==
    pc = "comment" /\ frame.key[1] = "flag" =>
        /\ frame.key[3] = issue[frame.key[2]].reason
        /\ frame.key[4] = issue[frame.key[2]].episode
FlagsTold ==
    \A n \in Issues :
        issue[n].reason # None =>
            \/ issue[n].reason \in told[n]
            \/ pc = "comment" /\ frame.key[1] = "flag" /\ frame.key[2] = n
MessageUnderWay == pc \in Messaging => frame.key[1] # "flag"
ToldInv == EpisodesTold /\ FlagUnderWay /\ FlagsTold /\ MessageUnderWay

\* Who writes the flag's columns and what was told.
LEMMA FlagSteps ==
    ASSUME TypeOK, Next, ~Flag, ~ClearFlag, ~RetryClearsFlag, NEW n \in Issues
    PROVE  issue'[n].reason = issue[n].reason /\ issue'[n].episode = issue[n].episode
  BY IssueSteps, AskingKeeps, ReservingKeeps

LEMMA ToldSteps ==
    ASSUME Next PROVE told' = told \/ Comment \/ ClearFlag \/ RetryClearsFlag
<1>1. CASE EffectSteps
  BY <1>1 DEF EffectSteps, Flag, CommentRecorded, SendMessage, MessageRecorded,
              MessageStamped, NudgeCounted, CiRoundCounted, BudgetsReset, CreateSession,
              SessionRecorded
<1>2. CASE DrainInbox
  BY <1>2 DEF DrainInbox, HandleLabeled, HandleCiFailed, HandleReview, HandleReply,
              HandlePullClosed, SupersedeOpenSessions, Dispatched, DispatchFailed, history
<1>3. CASE \/ StartSessions \/ TrackSessions \/ RefreshInsights
           \/ \E p \in Pulls : TrackPull(p)
           \/ \E n \in Issues : RecoverIssue(n)
  BY <1>3 DEF StartSessions, StartDeferred, StartOverBudget, ReserveAttempt, TrackSessions,
              TimeOut, PollFails, Poll, ActOnPoll, RefreshInsights, TrackPull, RecoverIssue,
              history
<1>4. CASE TickBegins \/ PassEnds \/ World \/ Crash
  BY <1>4 DEF TickBegins, PassEnds, World, Arrive, GraceElapses, SessionAges,
              PullGoesStale, Crash, history
<1> QED
  BY <1>1, <1>2, <1>3, <1>4 DEF Next, Loop

\* A comment follows its flag at once, and its record follows at once.
LEMMA CommentStep ==
    ASSUME Next, pc \in Commenting, ~Crash PROVE Comment \/ CommentRecorded
<1> USE DEF Commenting
<1>1. ~TickBegins /\ ~PassEnds /\ ~RefreshInsights /\ ~World
  BY DEF TickBegins, PassEnds, RefreshInsights, World, Arrive, GraceElapses, SessionAges,
         PullGoesStale, BetweenHandlers
<1>2. ~StartSessions /\ ~TrackSessions
  BY DEF StartSessions, StartDeferred, StartOverBudget, ReserveAttempt, FirstQueued,
         TrackSessions, TimeOut, PollFails, Poll, TakesSession, Takes, ActOnPoll
<1>3. ~DrainInbox
  BY DEF DrainInbox, HandleLabeled, HandleCiFailed, HandleReview, HandleReply,
         HandlePullClosed, TakesEvent, Takes, RetryClearsFlag, SupersedeOpenSessions,
         Dispatched, DispatchFailed
<1>4. (\A p \in Pulls : ~TrackPull(p)) /\ \A n \in Issues : ~RecoverIssue(n)
  BY DEF TrackPull, TakesPull, RecoverIssue, TakesUnknownIssue, Takes
<1>5. EffectSteps => Comment \/ CommentRecorded
  BY DEF EffectSteps, Flag, ClearFlag, SendMessage, MessageRecorded, MessageStamped,
         NudgeCounted, CiRoundCounted, BudgetsReset, CreateSession, SessionRecorded
<1> QED
  BY <1>1, <1>2, <1>3, <1>4, <1>5 DEF Next, Loop

LEMMA MessageUnderWayKept ==
    ASSUME TypeOK, MessageUnderWay, Next PROVE MessageUnderWay'
<1> SUFFICES ASSUME pc' \in Messaging PROVE frame'.key[1] # "flag"
  BY DEF MessageUnderWay
<1>1. CASE Sends
  BY <1>1 DEF Sends, Asks, NudgeKey
<1>2. CASE pc \in Messaging /\ frame' = frame
  BY <1>2 DEF MessageUnderWay
<1> QED
  BY <1>1, <1>2, UnderWaySteps

\* The flag goes up.
LEMMA FlagTold ==
    ASSUME TypeOK, ToldInv, Flag
    PROVE  (EpisodesTold /\ FlagUnderWay /\ FlagsTold)'
<1> DEFINE n == frame.issue
           r == frame.reason
           key == FlagKey(n, r)
<1>1. /\ pc = "flag" /\ n \in Issues /\ r \in Reasons
      /\ told' = told /\ done' = done
      /\ issue \in [Issues -> IssueRow]
  BY DEF Flag, TypeOK, StoreTypeOK, HandlerTypeOK, InHandler, Steps
<1>2. Written = done /\ Written' = done
  BY <1>1, FlagTurnsToComment DEF Written, Commenting
<1>3. /\ \A k \in done : k[1] = "flag" => /\ k[2] \in Issues /\ k[4] \in Nat
                                          /\ k[4] <= issue[k[2]].episode
      /\ \A m \in Issues : issue[m].episode \in Nat
      /\ \A m \in Issues : issue[m].reason # None => issue[m].reason \in told[m]
  BY <1>1, <1>2, KeyParts DEF TypeOK, StoreTypeOK, IssueRow, ToldInv, EpisodesTold, FlagsTold
<1>4. key[1] = "flag" /\ key[2] = n /\ key[3] = r /\ key[4] = EpisodeOf(n)
  BY DEF FlagKey
<1>5. CASE ~FlagIsNews(n, r)
  <2>1. issue' = issue /\ pc' \notin Commenting
    BY <1>1, <1>5 DEF Flag, FlagForHuman, Finish, Commenting
  <2> QED
    BY <1>1, <1>2, <1>3, <2>1 DEF ToldInv, EpisodesTold, FlagUnderWay, FlagsTold, Commenting
<1>6. CASE FlagIsNews(n, r)
  <2>1. issue' = [issue EXCEPT ![n].episode = EpisodeOf(n), ![n].reason = r]
    BY <1>6 DEF Flag, FlagForHuman
  <2>2. /\ issue'[n].reason = r /\ issue'[n].episode = EpisodeOf(n)
        /\ \A m \in Issues \ {n} : issue'[m] = issue[m]
    <3> HIDE DEF n, r, key
    <3> DEFINE e == EpisodeOf(n)
    <3>1. issue' = [issue EXCEPT ![n].episode = e, ![n].reason = r]
      BY <2>1
    <3> HIDE DEF e
    <3>2. issue'[n].reason = r /\ issue'[n].episode = e
      BY <1>1, <3>1 DEF IssueRow
    <3> QED
      BY <1>1, <3>1, <3>2 DEF e
  <2>3. /\ issue[n].episode <= EpisodeOf(n)
        /\ EpisodeOf(n) <= issue[n].episode
           => EpisodeOf(n) = issue[n].episode /\ issue[n].reason # None
    BY <1>1, <1>3 DEF EpisodeOf
  <2> HIDE DEF n, r, key
  <2>4. EpisodesTold'
    <3> SUFFICES ASSUME NEW k \in done, k[1] = "flag"
                 PROVE  /\ k[4] <= issue'[k[2]].episode
                        /\ k[4] = issue'[k[2]].episode /\ issue'[k[2]].reason # None
                           => k[3] \in told[k[2]]
      BY <1>1, <1>2 DEF EpisodesTold
    <3>1. /\ k[2] \in Issues /\ k[4] \in Nat /\ k[4] <= issue[k[2]].episode
          /\ k[4] = issue[k[2]].episode /\ issue[k[2]].reason # None
             => k[3] \in told[k[2]]
      BY <1>2, <1>3 DEF ToldInv, EpisodesTold
    <3>2. EpisodeOf(n) \in Nat
      BY <1>1, <1>3 DEF EpisodeOf
    <3>3. CASE k[2] = n
      <4>1. k[4] <= EpisodeOf(n) /\ (k[4] = EpisodeOf(n) => EpisodeOf(n) <= issue[n].episode)
        BY <1>1, <1>3, <2>3, <3>1, <3>2, <3>3
      <4> QED
        BY <2>2, <2>3, <3>1, <3>3, <4>1
    <3> QED
      BY <2>2, <3>1, <3>3
  <2>5. \/ key \in done /\ pc' \notin Commenting
        \/ pc' = "comment" /\ frame'.key = key
    BY <1>6 DEF Flag, CallComment, AfterComment, Finish, NoFrame, Commenting, None, n, r, key
  <2>6. FlagUnderWay'
    BY <1>1, <1>4, <2>2, <2>5 DEF FlagUnderWay, Commenting
  <2>7. FlagsTold'
    <3> SUFFICES ASSUME NEW m \in Issues, issue'[m].reason # None
                 PROVE  \/ issue'[m].reason \in told[m]
                        \/ pc' = "comment" /\ frame'.key[1] = "flag" /\ frame'.key[2] = m
      BY <1>1 DEF FlagsTold
    <3>1. CASE m = n /\ key \in done
      <4>1. EpisodeOf(n) <= issue[n].episode
        BY <1>3, <1>4, <3>1
      <4>2. r \in told[n]
        BY <1>2, <1>4, <2>3, <3>1, <4>1 DEF ToldInv, EpisodesTold
      <4> QED
        BY <2>2, <3>1, <4>2
    <3> QED
      BY <1>3, <1>4, <2>2, <2>5, <3>1
  <2> QED
    BY <2>4, <2>6, <2>7
<1> QED
  BY <1>5, <1>6

\* The comment is made, and recorded.
LEMMA CommentTold ==
    ASSUME "comment" \notin Failing, TypeOK, ToldInv, Comment \/ CommentRecorded
    PROVE  (EpisodesTold /\ FlagUnderWay /\ FlagsTold)'
<1>1. issue' = issue /\ told \in [Issues -> SUBSET Reasons]
  BY DEF Comment, CommentRecorded, TypeOK, storeVars
<1>2. \A k \in Written : k[1] = "flag" => k[2] \in Issues
  BY KeyParts DEF Written, TypeOK, StoreTypeOK, HandlerTypeOK
<1>3. CASE Comment
  <2>1. /\ pc = "comment" /\ pc' = "commented" /\ frame' = frame /\ done' = done
        /\ Announce(frame.key)
    BY <1>3 DEF Comment, storeVars
  <2>2. Written' = done \cup {frame.key} /\ Written = done
    BY <2>1 DEF Written
  <2>3. frame.key \in Keys
    BY <2>1 DEF TypeOK, HandlerTypeOK
  <2>4. /\ \A m \in Issues : told[m] \subseteq told'[m]
        /\ frame.key[1] = "flag" => frame.key[3] \in told'[frame.key[2]]
    BY <1>1, <2>1, <2>3, KeyParts DEF Announce
  <2>5. EpisodesTold'
    <3> SUFFICES ASSUME NEW k \in done \cup {frame.key}, k[1] = "flag"
                 PROVE  /\ k[4] <= issue[k[2]].episode
                        /\ k[4] = issue[k[2]].episode /\ issue[k[2]].reason # None
                           => k[3] \in told'[k[2]]
      BY <1>1, <2>2 DEF EpisodesTold
    <3>1. CASE k \in done
      BY <1>2, <2>2, <2>4, <3>1 DEF ToldInv, EpisodesTold
    <3>2. CASE k = frame.key
      <4>1. k[4] = issue[k[2]].episode /\ k[4] \in Nat
        BY <2>1, <2>3, <3>2, KeyParts DEF ToldInv, FlagUnderWay
      <4> QED
        BY <2>4, <3>2, <4>1
    <3> QED
      BY <3>1, <3>2
  <2>6. FlagUnderWay'
    BY <2>1 DEF FlagUnderWay
  <2>7. FlagsTold'
    BY <1>1, <2>1, <2>4 DEF ToldInv, FlagsTold, FlagUnderWay
  <2> QED
    BY <2>5, <2>6, <2>7
<1>4. CASE CommentRecorded
  <2>1. /\ pc = "commented" /\ pc' \notin Commenting /\ done' = done \cup {frame.key}
        /\ told' = told
    BY <1>4 DEF CommentRecorded, MarkDone, AfterComment, CallFlag, Finish, Commenting
  <2>2. Written' = Written
    BY <2>1 DEF Written, Commenting
  <2> QED
    BY <1>1, <2>1, <2>2 DEF ToldInv, EpisodesTold, FlagUnderWay, FlagsTold, Commenting
<1> QED
  BY <1>3, <1>4

\* The flag comes down.
LEMMA ClearedTold ==
    ASSUME TypeOK, ToldInv, ClearFlag \/ RetryClearsFlag
    PROVE  (EpisodesTold /\ FlagUnderWay /\ FlagsTold)'
<1> DEFINE n == frame.issue
<1>1. /\ pc \in {"clear", "retry"} /\ pc' \notin Commenting /\ done' = done
      /\ TakeFlagDown(n)
      /\ issue \in [Issues -> IssueRow] /\ told \in [Issues -> SUBSET Reasons]
  BY DEF ClearFlag, RetryClearsFlag, Finish, Commenting, TypeOK, StoreTypeOK
<1>2. n \in Issues
  BY <1>1 DEF TypeOK, HandlerTypeOK, InHandler, Steps
<1>3. Written' = done /\ Written = done
  BY <1>1 DEF Written, Commenting
<1> HIDE DEF n
<1>4. /\ issue'[n].reason = None /\ issue'[n].episode = issue[n].episode
      /\ \A m \in Issues \ {n} : issue'[m] = issue[m] /\ told'[m] = told[m]
  BY <1>1, <1>2 DEF TakeFlagDown, ClearHumanFlag, IssueRow
<1>5. \A k \in done : k[1] = "flag" => k[2] \in Issues
  BY KeyParts DEF TypeOK, StoreTypeOK
<1>6. EpisodesTold'
  BY <1>3, <1>4, <1>5 DEF ToldInv, EpisodesTold
<1>7. FlagUnderWay' /\ FlagsTold'
  BY <1>1, <1>4 DEF ToldInv, FlagUnderWay, FlagsTold, Commenting
<1> QED
  BY <1>6, <1>7

LEMMA ToldInvKept ==
    ASSUME MaxCrashes = 0, "comment" \notin Failing, TypeOK, ToldInv, Next
    PROVE  ToldInv'
<1>1. ~Crash
  BY DEF Crash, TypeOK
<1>2. MessageUnderWay'
  BY MessageUnderWayKept DEF ToldInv
<1>3. CASE ~Flag /\ ~Comment /\ ~CommentRecorded /\ ~ClearFlag /\ ~RetryClearsFlag
  <2>1. /\ told' = told /\ pc \notin Commenting
        /\ \A n \in Issues : /\ issue'[n].reason = issue[n].reason
                             /\ issue'[n].episode = issue[n].episode
    BY <1>1, <1>3, ToldSteps, CommentStep, FlagSteps
  <2>2. Notifies
    BY <1>3, NoticeSteps
  <2>3. done' = done \/ (MessageRecorded /\ done' = done \cup {frame.key})
    BY <1>3, KeySteps
  <2>4. \A k \in Written' : k[1] = "flag" => k \in Written /\ k[2] \in Issues
    <3>1. Written' = done' /\ Written = done
      BY <2>1, <2>2 DEF Written, Notifies, Commenting
    <3>2. MessageRecorded => frame.key[1] # "flag"
      BY DEF MessageRecorded, ToldInv, MessageUnderWay, Messaging
    <3> QED
      BY <2>3, <3>1, <3>2, KeyParts DEF TypeOK, StoreTypeOK
  <2>5. EpisodesTold'
    BY <2>1, <2>4 DEF ToldInv, EpisodesTold
  <2>6. FlagUnderWay'
    BY <2>2 DEF FlagUnderWay, Notifies, Commenting, Notices
  <2>7. FlagsTold'
    BY <2>1 DEF ToldInv, FlagsTold, Commenting
  <2> QED
    BY <1>2, <2>5, <2>6, <2>7 DEF ToldInv
<1> QED
  BY <1>2, <1>3, FlagTold, CommentTold, ClearedTold DEF ToldInv

\* While the process stays up and no comment fails, a flag that stands has been
\* announced on its issue under its reason, since it last went up, however often it is
\* raised, changed and cleared (effects.py:140-176, repo.py:205-240).
THEOREM FlagsAnnounced ==
    ASSUME MaxCrashes = 0, "comment" \notin Failing
    PROVE  Spec => []FlagAnnounced
<1>1. Init => ToldInv
  BY DEF Init, StoreInit, EffectsInit, NoIssue, ToldInv, EpisodesTold, FlagUnderWay,
         FlagsTold, MessageUnderWay, Written, Messaging
<1>2. TypeOK /\ ToldInv /\ [Next]_vars => ToldInv'
  <2>1. ToldInv /\ UNCHANGED vars => ToldInv'
    BY DEF vars, storeVars, ToldInv, EpisodesTold, FlagUnderWay, FlagsTold,
           MessageUnderWay, Written
  <2> QED
    BY <2>1, ToldInvKept
<1>3. ToldInv => FlagAnnounced
  BY DEF ToldInv, FlagsTold, FlagAnnounced, Idle
<1> QED
  BY <1>1, <1>2, <1>3, TypeCorrect, PTL DEF Spec

\* The strengthening: the comment of every flag that stands has been written or is under
\* way, and so has that of every closure whose flag is not still to be raised.
Noticed(n, r) ==
    \/ \E k \in done : k[1] = "flag" /\ k[2] = n /\ k[3] = r
    \/ /\ pc \in Commenting
       /\ frame.key[1] = "flag" /\ frame.key[2] = n /\ frame.key[3] = r
FlagsNoticed ==
    \A n \in Issues : issue[n].reason # None => Noticed(n, issue[n].reason)
ClosuresNoticed ==
    \A p \in Pulls :
        pull[p].closed =>
            \/ Noticed(pull[p].issue, "pr_closed_unmerged")
            \/ /\ pc = "flag" /\ frame.issue = pull[p].issue
               /\ frame.reason = "pr_closed_unmerged"
ClosureInv == FlagsNoticed /\ ClosuresNoticed

LEMMA NoticedStays ==
    ASSUME "comment" \notin Failing, Next, ~Crash, NEW n, NEW r, Noticed(n, r)
    PROVE  Noticed(n, r)'
<1> SUFFICES \/ \E k \in done' : k[1] = "flag" /\ k[2] = n /\ k[3] = r
             \/ /\ pc' \in Commenting
                /\ frame'.key[1] = "flag" /\ frame'.key[2] = n /\ frame'.key[3] = r
  BY DEF Noticed
<1>1. CASE \E k \in done : k[1] = "flag" /\ k[2] = n /\ k[3] = r
  BY <1>1, KeySteps
<1>2. CASE /\ pc \in Commenting
           /\ frame.key[1] = "flag" /\ frame.key[2] = n /\ frame.key[3] = r
  <2>1. CASE Comment
    BY <1>2, <2>1 DEF Comment, Commenting
  <2>2. CASE CommentRecorded
    BY <1>2, <2>2 DEF CommentRecorded, MarkDone
  <2> QED
    BY <1>2, <2>1, <2>2, CommentStep
<1> QED
  BY <1>1, <1>2 DEF Noticed

LEMMA FlagNotices ==
    ASSUME "comment" \notin Failing, TypeOK, FlagsNoticed, Next, ~Crash, Flag,
           NEW n, n = frame.issue, issue[n].known, NEW r, r = frame.reason
    PROVE  Noticed(n, r)'
<1> DEFINE key == FlagKey(n, r)
<1>1. pc = "flag" /\ n \in Issues /\ r \in Reasons /\ done' = done
  BY DEF Flag, TypeOK, HandlerTypeOK, InHandler, Steps
<1>2. key[1] = "flag" /\ key[2] = n /\ key[3] = r
  BY DEF FlagKey
<1>3. CASE ~FlagIsNews(n, r)
  <2>1. issue[n].reason = r /\ r # None
    BY <1>1, <1>3 DEF FlagIsNews, Reasons, None
  <2> QED
    BY <1>1, <2>1, NoticedStays DEF FlagsNoticed
<1>4. CASE FlagIsNews(n, r)
  <2>1. \/ key \in done
        \/ pc' = "comment" /\ frame'.key = key
    BY <1>4 DEF Flag, CallComment, NoFrame
  <2> HIDE DEF key
  <2> QED
    BY <1>1, <1>2, <2>1 DEF Noticed, Commenting
<1> QED
  BY <1>3, <1>4

LEMMA FlagsNoticedKept ==
    ASSUME "comment" \notin Failing, TypeOK, FlagsNoticed, Next, ~Crash
    PROVE  FlagsNoticed'
<1> SUFFICES ASSUME NEW n \in Issues, NEW r, r = issue'[n].reason, r # None
             PROVE  Noticed(n, r)'
  BY DEF FlagsNoticed, Noticed
<1>1. CASE issue[n].reason = r
  BY <1>1, NoticedStays DEF FlagsNoticed
<1>2. CASE issue[n].reason # r
  <2>1. issue \in [Issues -> IssueRow]
    BY DEF TypeOK, StoreTypeOK
  <2>2. ~ClearFlag /\ ~RetryClearsFlag
    BY <1>2, <2>1 DEF ClearFlag, RetryClearsFlag, TakeFlagDown, ClearHumanFlag, IssueRow
  <2>3. Flag
    BY <1>2, <2>2, FlagSteps
  <2>4. FlagMoved
    BY <1>2, <2>3, IssueSteps DEF FlagMoved, Flag, TypeOK, HandlerTypeOK, InHandler, Steps
  <2>5. n = frame.issue
    BY <1>2, <2>4, FlagMovesReason
  <2>6. /\ FlagIsNews(n, frame.reason)
        /\ issue' = [issue EXCEPT ![n].episode = EpisodeOf(n), ![n].reason = frame.reason]
    BY <1>2, <2>3, <2>5 DEF Flag, FlagForHuman
  <2>7. r = frame.reason /\ issue[n].known
    BY <2>1, <2>6 DEF IssueRow, FlagIsNews
  <2> QED
    BY <2>3, <2>5, <2>7, FlagNotices
<1> QED
  BY <1>1, <1>2

\* Who finds a pull request closed raises its flag.
LEMMA ClosureSteps ==
    ASSUME TypeOK, Next, NEW p \in Pulls, pull'[p].closed
    PROVE  \/ pull[p].closed /\ pull'[p].issue = pull[p].issue
           \/ /\ pc' = "flag" /\ frame'.issue = pull'[p].issue
              /\ frame'.reason = "pr_closed_unmerged"
<1>1. pull \in [Pulls -> PullRow]
  BY DEF TypeOK, StoreTypeOK
<1>2. CASE PullKept(p)
  BY <1>2 DEF PullKept
<1>3. CASE ActOnPoll
  <2>1. pull'[p].closed => pull'[p] = pull[p]
    BY <1>3 DEF ActOnPoll, UpsertPulls, NoPull
  <2> QED
    BY <2>1
<1>4. ASSUME NEW q \in Pulls, AdvancePull(q)
      PROVE  \/ pull[p].closed /\ pull'[p].issue = pull[p].issue
             \/ /\ pc' = "flag" /\ frame'.issue = pull'[p].issue
                /\ frame'.reason = "pr_closed_unmerged"
  <2>1. CASE pull' = pull
    BY <2>1
  <2>2. CASE MarkMerged(q)
    BY <1>1, <2>2 DEF MarkMerged, PullRow
  <2>3. CASE MarkClosed(q) /\ CallFlag(pull[q].issue, "pr_closed_unmerged")
    <3>1. pull'[p].issue = pull[p].issue /\ (p # q => pull'[p] = pull[p])
      BY <1>1, <2>3 DEF MarkClosed, PullRow
    <3>2. /\ pc' = "flag" /\ frame'.issue = pull[q].issue
          /\ frame'.reason = "pr_closed_unmerged"
      BY <2>3 DEF CallFlag, NoFrame
    <3> QED
      BY <3>1, <3>2
  <2> QED
    BY <1>4, <2>1, <2>2, <2>3 DEF AdvancePull, SettleMerged, SettleClosed
<1> QED
  BY <1>2, <1>3, <1>4, PullSteps DEF PullWriter

\* A flag that is to be raised is raised next.
LEMMA FlagStep ==
    ASSUME Next, pc = "flag", ~Crash PROVE Flag
<1>1. ~TickBegins /\ ~PassEnds /\ ~RefreshInsights /\ ~World
  BY DEF TickBegins, PassEnds, RefreshInsights, World, Arrive, GraceElapses, SessionAges,
         PullGoesStale, BetweenHandlers
<1>2. ~StartSessions /\ ~TrackSessions
  BY DEF StartSessions, StartDeferred, StartOverBudget, ReserveAttempt, FirstQueued,
         TrackSessions, TimeOut, PollFails, Poll, TakesSession, Takes, ActOnPoll
<1>3. ~DrainInbox
  BY DEF DrainInbox, HandleLabeled, HandleCiFailed, HandleReview, HandleReply,
         HandlePullClosed, TakesEvent, Takes, RetryClearsFlag, SupersedeOpenSessions,
         Dispatched, DispatchFailed
<1>4. (\A p \in Pulls : ~TrackPull(p)) /\ \A n \in Issues : ~RecoverIssue(n)
  BY DEF TrackPull, TakesPull, RecoverIssue, TakesUnknownIssue, Takes
<1>5. EffectSteps => Flag
  BY DEF EffectSteps, Comment, CommentRecorded, ClearFlag, SendMessage, MessageRecorded,
         MessageStamped, NudgeCounted, CiRoundCounted, BudgetsReset, CreateSession,
         SessionRecorded
<1> QED
  BY <1>1, <1>2, <1>3, <1>4, <1>5 DEF Next, Loop

LEMMA ClosuresNoticedKept ==
    ASSUME "comment" \notin Failing, TypeOK, LifeInv, ClosureInv, Next, ~Crash
    PROVE  ClosuresNoticed'
<1> SUFFICES ASSUME NEW p \in Pulls, pull'[p].closed, NEW n, n = pull'[p].issue
             PROVE  \/ Noticed(n, "pr_closed_unmerged")'
                    \/ /\ pc' = "flag" /\ frame'.issue = n
                       /\ frame'.reason = "pr_closed_unmerged"
  BY DEF ClosuresNoticed, Noticed
<1>1. CASE pull[p].closed /\ n = pull[p].issue /\ Noticed(n, "pr_closed_unmerged")
  BY <1>1, NoticedStays
<1>2. CASE /\ pull[p].closed /\ n = pull[p].issue
           /\ pc = "flag" /\ frame.issue = n /\ frame.reason = "pr_closed_unmerged"
  <2>1. Flag /\ n \in Issues
    BY <1>2, FlagStep DEF TypeOK, HandlerTypeOK, InHandler, Steps
  <2>2. issue[n].known
    BY <1>2, <2>1, StoreAssumption DEF LifeInv, RowsKnown
  <2> QED
    BY <1>2, <2>1, <2>2, FlagNotices DEF ClosureInv
<1> QED
  BY <1>1, <1>2, ClosureSteps DEF ClosureInv, ClosuresNoticed

\* While the process stays up and no comment fails, a pull request that was closed
\* without merging has been announced, whatever else was flagged before and since
\* (orchestrator.py:556-569, effects.py:140-176).
THEOREM ClosuresAnnounced ==
    ASSUME MaxCrashes = 0, "comment" \notin Failing
    PROVE  Spec => []ClosureAnnounced
<1> DEFINE Inv == StartsFresh /\ LifeInv /\ ClosureInv
<1>1. Init => Inv
  <2>1. Init => StartsFresh /\ ClosureInv
    BY DEF Init, StoreInit, EffectsInit, NoIssue, NoPull, StartsFresh, ClosureInv,
           FlagsNoticed, ClosuresNoticed
  <2> QED
    BY <2>1, LifeInvInit
<1>2. TypeOK /\ Inv /\ [Next]_vars => Inv'
  <2>1. ASSUME ClosureInv, UNCHANGED vars PROVE ClosureInv'
    <3>1. UNCHANGED <<issue, pull, done, pc, frame>>
      BY <2>1 DEF vars, storeVars
    <3> QED
      BY <2>1, <3>1 DEF ClosureInv, FlagsNoticed, ClosuresNoticed, Noticed
  <2>2. TypeOK => ~Crash
    BY DEF Crash, TypeOK
  <2> QED
    BY <2>1, <2>2, StartsFreshKept, LifeInvKept, FlagsNoticedKept, ClosuresNoticedKept
       DEF ClosureInv
<1>3. Inv => ClosureAnnounced
  BY DEF ClosureInv, ClosuresNoticed, Noticed, ClosureAnnounced, Idle, Commenting
<1> HIDE DEF Inv
<1> QED
  BY <1>1, <1>2, <1>3, TypeCorrect, PTL DEF Spec

-----------------------------------------------------------------------------
(* What becomes of a person's comment                                      *)

\* The strengthening: while a comment that has an addressee is handled, the handler is
\* about to deliver it, has delivered it, is saying that it cannot, or has failed.
RowKey(e) == <<IF e.kind = "issue_comment" THEN "reply" ELSE "review", e.id>>
Undelivered(e) == <<"undelivered", e.id>>
Addressed(e) ==
    \/ e.kind = "issue_comment" /\ LatestSession(e.issue) # 0
    \/ e.kind = "review_comment" /\ SessionOfPull(e.pull) # 0
Handles(e) == pass = "drain" /\ pc # "next" /\ cur = e /\ inbox[e].state = "pending"
Accounted(e) ==
    \/ pc = "failed"
    \/ pc \in {"send", "mark"} /\ frame.key = RowKey(e)
    \/ pc \in {"stamp", "follow", "clear"} /\ RowKey(e) \in done
    \/ /\ pc \in Commenting
       /\ frame.key = Undelivered(e) /\ frame.reason = None
    \/ pc = "dispatch" /\ (RowKey(e) \in done \/ Undelivered(e) \in done)
RowAccounted == \A e \in Events : Handles(e) /\ Addressed(e) => Accounted(e)
AttemptsLeft ==
    \A e \in Events : inbox[e].state = "pending" => inbox[e].attempts < MaxInboxAttempts
HandlersPass ==
    /\ pc \in Calling => pass = "start"
    /\ pc = "act" => pass = "track"
AccountInv == RowAccounted /\ AttemptsLeft /\ HandlersPass

\* Between two rows the pass, the row at hand and the inbox stay.
Resting == {"idle", "next", "dispatch", "failed"}

LEMMA RowAtHand ==
    ASSUME Next, ~Crash, pc \notin Resting PROVE UNCHANGED <<pass, cur, inbox>>
<1> USE DEF Resting
<1>1. ~TickBegins /\ ~PassEnds /\ ~RefreshInsights /\ ~World /\ ~StartSessions
  BY DEF TickBegins, PassEnds, RefreshInsights, World, Arrive, GraceElapses, SessionAges,
         PullGoesStale, BetweenHandlers, StartSessions, StartDeferred, StartOverBudget,
         ReserveAttempt, FirstQueued
<1>2. CASE EffectSteps
  BY <1>2 DEF EffectSteps, Flag, Comment, CommentRecorded, ClearFlag, SendMessage,
     MessageRecorded, MessageStamped, NudgeCounted, CiRoundCounted, BudgetsReset,
     CreateSession, SessionRecorded, storeVars
<1>3. CASE DrainInbox \/ TrackSessions
  BY <1>3 DEF DrainInbox, HandleLabeled, HandleCiFailed, HandleReview, HandleReply,
     HandlePullClosed, TakesEvent, Takes, RetryClearsFlag, SupersedeOpenSessions,
     Dispatched, DispatchFailed, TrackSessions, TimeOut, PollFails, Poll, TakesSession,
     ActOnPoll
<1>4. (\A p \in Pulls : ~TrackPull(p)) /\ \A n \in Issues : ~RecoverIssue(n)
  BY DEF TrackPull, TakesPull, RecoverIssue, TakesUnknownIssue, Takes
<1> QED
  BY <1>1, <1>2, <1>3, <1>4 DEF Next, Loop

LEMMA HandlersPassKept ==
    ASSUME TypeOK, HandlersPass, Next PROVE HandlersPass'
<1>1. ASSUME pc' = "act" PROVE pass' = "track"
  <2>1. \E s \in SessionIds, o \in Observations : Poll(s, o)
    BY <1>1, ActsOnPolls
  <2> QED
    BY <2>1 DEF Poll, TakesSession, Takes
<1>2. ASSUME pc' \in Calling PROVE pass' = "start"
  <2>1. CreateSession \/ \E n \in Issues : ReserveAttempt(n)
    BY <1>2, StartsNothingElsewhere DEF StartsNothing
  <2>2. CASE CreateSession
    BY <2>2 DEF CreateSession, HandlersPass, Calling
  <2>3. CASE \E n \in Issues : ReserveAttempt(n)
    BY <2>3 DEF ReserveAttempt, FirstQueued
  <2> QED
    BY <2>1, <2>2, <2>3
<1> QED
  BY <1>1, <1>2 DEF HandlersPass

\* Who is addressed is not changed by the steps of the drain.
LEMMA AddresseeStays ==
    ASSUME TypeOK, FinalInv, Next, ~SessionRecorded, ~ActOnPoll,
           NEW e \in Events, Addressed(e)'
    PROVE  Addressed(e)
<1>1. \A s \in SessionIds : session'[s].issue = session[s].issue
  BY NextOpensNone DEF NoneOpened, StaysOrCloses
<1>2. ASSUME NEW p \in Pulls
      PROVE  pull'[p].issue = pull[p].issue /\ pull'[p].session = pull[p].session
  <2>1. pull \in [Pulls -> PullRow]
    BY DEF TypeOK, StoreTypeOK
  <2> QED
    BY <2>1, RoundsStay DEF RoundsSame, PullRow
<1>3. \A n : LatestSession(n)' = LatestSession(n)
  <2>1. \A n : SessionsOf(n)' = SessionsOf(n)
    BY <1>1 DEF SessionsOf
  <2> QED
    BY <2>1 DEF LatestSession
<1>4. \A p : SessionOfPull(p)' = SessionOfPull(p)
  <2>1. \A p \in Pulls : pull[p].issue # 0 => pull[p].session \in SessionIds
    BY DEF TypeOK, StoreTypeOK
  <2> QED
    BY <1>1, <1>2, <2>1 DEF SessionOfPull, KnownPull
<1> QED
  BY <1>3, <1>4 DEF Addressed

\* A comment is taken up.
LEMMA TakenUp ==
    ASSUME DrainInbox, pc = "next", NEW e \in Events, cur' = e, Addressed(e)'
    PROVE  \/ pc' = "next"
           \/ pc' \in {"send", "mark"} /\ frame'.key = RowKey(e)
           \/ /\ pc' \in Commenting
              /\ frame'.key = Undelivered(e) /\ frame'.reason = None
           \/ pc' = "dispatch" /\ (RowKey(e) \in done' \/ Undelivered(e) \in done')
<1>1. PICK f \in Events : \/ HandleLabeled(f) \/ HandleCiFailed(f) \/ HandleReview(f)
                          \/ HandleReply(f) \/ HandlePullClosed(f)
  BY DEF DrainInbox, RetryClearsFlag, SupersedeOpenSessions, Dispatched, DispatchFailed
<1>2. f = e
  BY <1>1 DEF HandleLabeled, HandleCiFailed, HandleReview, HandleReply, HandlePullClosed,
              TakesEvent
<1>3. e.kind \in {"issue_comment", "review_comment"}
  BY DEF Addressed
<1>4. ASSUME NEW s, NEW n,
             CallMessage(s, n, RowKey(e), FALSE, CallComment(n, Undelivered(e), None)),
             pass = "drain", done' = done
      PROVE  \/ pc' = "send" /\ frame'.key = RowKey(e)
             \/ /\ pc' \in Commenting
                /\ frame'.key = Undelivered(e) /\ frame'.reason = None
             \/ pc' = "dispatch" /\ (RowKey(e) \in done' \/ Undelivered(e) \in done')
  <2>1. CASE MayMessage(s, RowKey(e), FALSE)
    BY <1>4, <2>1 DEF CallMessage, CallSend, NoFrame
  <2>2. CASE ~MayMessage(s, RowKey(e), FALSE) /\ IsClosed(session[s])
    <3>1. CallComment(n, Undelivered(e), None)
      BY <1>4, <2>2 DEF CallMessage
    <3> QED
      BY <1>4, <3>1 DEF CallComment, AfterComment, Finish, NoFrame, Commenting
  <2>3. CASE ~MayMessage(s, RowKey(e), FALSE) /\ ~IsClosed(session[s])
    BY <1>4, <2>3 DEF CallMessage, MayMessage, Finish
  <2> QED
    BY <2>1, <2>2, <2>3
<1>5. CASE HandleReview(e)
  <2>1. e.kind = "review_comment" /\ pass = "drain" /\ UNCHANGED <<session, pull, done>>
    BY <1>5 DEF HandleReview, TakesEvent, Takes, storeVars
  <2>2. SessionOfPull(e.pull) # 0
    BY <2>1 DEF Addressed, SessionOfPull, KnownPull
  <2>3. RowKey(e) = <<"review", e.id>> /\ Undelivered(e) = <<"undelivered", e.id>>
    BY <2>1 DEF RowKey, Undelivered
  <2>4. CallMessage(SessionOfPull(e.pull), pull[e.pull].issue, RowKey(e), FALSE,
                    CallComment(pull[e.pull].issue, Undelivered(e), None))
    BY <1>5, <2>2, <2>3 DEF HandleReview
  <2> QED
    BY <1>4, <2>1, <2>4
<1>6. CASE HandleReply(e)
  <2>1. e.kind = "issue_comment" /\ pass = "drain" /\ UNCHANGED <<session, pull, done>>
    BY <1>6 DEF HandleReply, TakesEvent, Takes, storeVars
  <2>2. LatestSession(e.issue) # 0
    BY <2>1 DEF Addressed, LatestSession, SessionsOf
  <2>3. RowKey(e) = <<"reply", e.id>> /\ Undelivered(e) = <<"undelivered", e.id>>
    BY <2>1 DEF RowKey, Undelivered
  <2>4. CallMessage(LatestSession(e.issue), e.issue, RowKey(e), FALSE,
                    CallComment(e.issue, Undelivered(e), None))
    BY <1>6, <2>2, <2>3 DEF HandleReply
  <2> QED
    BY <1>4, <2>1, <2>4
<1> QED
  BY <1>1, <1>2, <1>3, <1>5, <1>6 DEF HandleLabeled, HandleCiFailed, HandlePullClosed

\* It is delivered, or its author is told that it cannot be.
LEMMA GoesOnAccounted ==
    ASSUME "comment" \notin Failing, TypeOK, Next, ~Crash, pass = "drain",
           NEW e \in Events, Accounted(e), pc \notin Resting
    PROVE  Accounted(e)'
<1>1. RowKey(e)' = RowKey(e) /\ Undelivered(e)' = Undelivered(e)
  BY DEF RowKey, Undelivered
<1> SUFFICES \/ pc' = "failed"
             \/ pc' \in {"send", "mark"} /\ frame'.key = RowKey(e)
             \/ pc' \in {"stamp", "follow", "clear"} /\ RowKey(e) \in done'
             \/ /\ pc' \in Commenting
                /\ frame'.key = Undelivered(e) /\ frame'.reason = None
             \/ pc' = "dispatch" /\ (RowKey(e) \in done' \/ Undelivered(e) \in done')
  BY <1>1 DEF Accounted
<1>2. CASE pc \in {"send", "mark"} /\ frame.key = RowKey(e)
  BY <1>2, MessageStep DEF Messaging, SendMessage, Raise, MessageRecorded, MarkDone,
     MessageStamped, NudgeCounted, CiRoundCounted, BudgetsReset
<1>3. CASE pc \in {"stamp", "follow"} /\ RowKey(e) \in done
  BY <1>3, MessageStep DEF Messaging, SendMessage, MessageRecorded, MessageStamped,
     NudgeCounted, CiRoundCounted, BudgetsReset, Finish
<1>4. CASE pc = "clear" /\ RowKey(e) \in done
  <2>1. ClearFlag
    <3>1. ~TickBegins /\ ~PassEnds /\ ~RefreshInsights /\ ~World /\ ~StartSessions
      BY <1>4 DEF TickBegins, PassEnds, RefreshInsights, World, Arrive, GraceElapses,
         SessionAges, PullGoesStale, BetweenHandlers, StartSessions, StartDeferred,
         StartOverBudget, ReserveAttempt, FirstQueued
    <3>2. ~DrainInbox /\ ~TrackSessions
      BY <1>4 DEF DrainInbox, HandleLabeled, HandleCiFailed, HandleReview, HandleReply,
         HandlePullClosed, TakesEvent, Takes, RetryClearsFlag, SupersedeOpenSessions,
         Dispatched, DispatchFailed, TrackSessions, TimeOut, PollFails, Poll,
         TakesSession, ActOnPoll
    <3>3. (\A p \in Pulls : ~TrackPull(p)) /\ \A n \in Issues : ~RecoverIssue(n)
      BY <1>4 DEF TrackPull, TakesPull, RecoverIssue, TakesUnknownIssue, Takes
    <3>4. EffectSteps => ClearFlag
      BY <1>4 DEF EffectSteps, Flag, Comment, CommentRecorded, SendMessage,
         MessageRecorded, MessageStamped, NudgeCounted, CiRoundCounted, BudgetsReset,
         CreateSession, SessionRecorded
    <3> QED
      BY <3>1, <3>2, <3>3, <3>4 DEF Next, Loop
  <2> QED
    BY <1>4, <2>1 DEF ClearFlag, Finish
<1>5. CASE pc \in Commenting /\ frame.key = Undelivered(e) /\ frame.reason = None
  BY <1>5, CommentStep DEF Comment, CommentRecorded, MarkDone, AfterComment, Finish,
     Commenting
<1> QED
  BY <1>2, <1>3, <1>4, <1>5 DEF Accounted, Resting

LEMMA RowAccountedKept ==
    ASSUME "comment" \notin Failing, TypeOK, FinalInv, AccountInv, Next PROVE RowAccounted'
<1> SUFFICES ASSUME NEW e \in Events, Handles(e)', Addressed(e)' PROVE Accounted(e)'
  BY DEF RowAccounted
<1>1. /\ pass' = "drain" /\ pc' # "next" /\ cur' = e /\ inbox'[e].state = "pending"
      /\ RowKey(e)' = RowKey(e) /\ Undelivered(e)' = Undelivered(e)
  BY DEF Handles, RowKey, Undelivered
<1>2. ~Crash
  BY <1>1 DEF Crash
<1>3. CASE pc \in {"idle", "next"}
  <2>1. ~TickBegins /\ ~PassEnds /\ ~RefreshInsights
    BY <1>1 DEF TickBegins, PassEnds, PassAfter, RefreshInsights, BeginPass
  <2>2. ~World
    BY <1>1, <1>3 DEF World, Arrive, GraceElapses, SessionAges, PullGoesStale, TypeOK,
                      HandlerTypeOK
  <2>3. ~StartSessions /\ ~TrackSessions
    BY <1>1, <1>3 DEF StartSessions, StartDeferred, StartOverBudget, ReserveAttempt,
       FirstQueued, TrackSessions, TimeOut, PollFails, Poll, TakesSession, Takes, ActOnPoll
  <2>4. (\A p \in Pulls : ~TrackPull(p)) /\ \A n \in Issues : ~RecoverIssue(n)
    BY <1>1 DEF TrackPull, TakesPull, RecoverIssue, TakesUnknownIssue, Takes
  <2>5. ~EffectSteps
    BY <1>3 DEF EffectSteps, Flag, Comment, CommentRecorded, ClearFlag, SendMessage,
       MessageRecorded, MessageStamped, NudgeCounted, CiRoundCounted, BudgetsReset,
       CreateSession, SessionRecorded
  <2>6. DrainInbox
    BY <1>2, <2>1, <2>2, <2>3, <2>4, <2>5 DEF Next, Loop
  <2>7. pc = "next"
    BY <1>3, <2>6 DEF DrainInbox, HandleLabeled, HandleCiFailed, HandleReview, HandleReply,
       HandlePullClosed, TakesEvent, Takes, RetryClearsFlag, SupersedeOpenSessions,
       Dispatched, DispatchFailed
  <2> QED
    BY <1>1, <2>6, <2>7, TakenUp DEF Accounted
<1>4. CASE pc \in {"dispatch", "failed"}
  <2>1. Dispatched \/ DispatchFailed
    <3>1. ~TickBegins /\ ~PassEnds /\ ~RefreshInsights /\ ~World /\ ~StartSessions
      BY <1>4 DEF TickBegins, PassEnds, RefreshInsights, World, Arrive, GraceElapses,
         SessionAges, PullGoesStale, BetweenHandlers, StartSessions, StartDeferred,
         StartOverBudget, ReserveAttempt, FirstQueued
    <3>2. ~TrackSessions /\ ~EffectSteps
      BY <1>4 DEF TrackSessions, TimeOut, PollFails, Poll, TakesSession, Takes, ActOnPoll,
         EffectSteps, Flag, Comment, CommentRecorded, ClearFlag, SendMessage,
         MessageRecorded, MessageStamped, NudgeCounted, CiRoundCounted, BudgetsReset,
         CreateSession, SessionRecorded
    <3>3. (\A p \in Pulls : ~TrackPull(p)) /\ \A n \in Issues : ~RecoverIssue(n)
      BY <1>4 DEF TrackPull, TakesPull, RecoverIssue, TakesUnknownIssue, Takes
    <3> QED
      BY <1>2, <1>4, <3>1, <3>2, <3>3
         DEF Next, Loop, DrainInbox, HandleLabeled, HandleCiFailed, HandleReview,
             HandleReply, HandlePullClosed, TakesEvent, Takes, RetryClearsFlag,
             SupersedeOpenSessions
  <2>2. ~Dispatched
    BY <1>1 DEF Dispatched
  <2>3. DispatchFailed /\ cur = e
    BY <1>1, <2>1, <2>2 DEF DispatchFailed, loopVars
  <2>4. inbox \in [Events -> InboxRow]
    BY DEF TypeOK, StoreTypeOK
  <2>5. ~GivesUp(e)
    BY <1>1, <2>3, <2>4 DEF DispatchFailed, RecordInboxFailure, InboxRow
  <2> QED
    BY <1>1, <2>3, <2>5 DEF DispatchFailed
<1>5. CASE pc \notin Resting
  <2>1. Handles(e) /\ pass = "drain"
    BY <1>1, <1>2, <1>5, RowAtHand DEF Handles, Resting
  <2>2. ~SessionRecorded /\ ~ActOnPoll
    BY <2>1 DEF SessionRecorded, ActOnPoll, AccountInv, HandlersPass, Calling
  <2>3. Accounted(e)
    BY <2>1, <2>2, AddresseeStays DEF AccountInv, RowAccounted
  <2> QED
    BY <1>2, <1>5, <2>1, <2>3, GoesOnAccounted
<1> QED
  BY <1>3, <1>4, <1>5 DEF Resting

\* Who writes to the inbox.
LEMMA InboxSteps ==
    ASSUME Next
    PROVE  \/ inbox' = inbox \/ Dispatched \/ DispatchFailed
           \/ \E e \in Events : Arrive(e)
<1>1. CASE EffectSteps
  BY <1>1 DEF EffectSteps, Flag, Comment, CommentRecorded, ClearFlag, SendMessage,
     MessageRecorded, MessageStamped, NudgeCounted, CiRoundCounted, BudgetsReset,
     CreateSession, SessionRecorded, storeVars
<1>2. CASE DrainInbox
  BY <1>2 DEF DrainInbox, HandleLabeled, HandleCiFailed, HandleReview, HandleReply,
     HandlePullClosed, RetryClearsFlag, SupersedeOpenSessions, storeVars
<1>3. CASE StartSessions \/ TrackSessions
  BY <1>3 DEF StartSessions, StartDeferred, StartOverBudget, ReserveAttempt, TrackSessions,
     TimeOut, PollFails, Poll, ActOnPoll, storeVars
<1>4. CASE \/ \E p \in Pulls : TrackPull(p)
           \/ \E n \in Issues : RecoverIssue(n)
           \/ TickBegins \/ PassEnds \/ RefreshInsights \/ Crash \/ World
  BY <1>4 DEF TrackPull, RecoverIssue, TickBegins, PassEnds, RefreshInsights, Crash, World,
     Arrive, GraceElapses, SessionAges, PullGoesStale, storeVars
<1> QED
  BY <1>1, <1>2, <1>3, <1>4 DEF Next, Loop

LEMMA AttemptsLeftKept ==
    ASSUME TypeOK, AttemptsLeft, Next PROVE AttemptsLeft'
<1> SUFFICES ASSUME NEW e \in Events, inbox'[e].state = "pending"
             PROVE  inbox'[e].attempts < MaxInboxAttempts
  BY DEF AttemptsLeft
<1>1. inbox \in [Events -> InboxRow] /\ inbox[e].attempts \in Nat
  BY DEF TypeOK, StoreTypeOK, InboxRow
<1>2. CASE inbox' = inbox
  BY <1>2 DEF AttemptsLeft
<1>3. CASE Dispatched
  BY <1>1, <1>3 DEF Dispatched, MarkDispatched, AttemptsLeft, InboxRow
<1>4. CASE DispatchFailed
  <2>1. CASE e = cur
    <3> DEFINE tries == inbox[e].attempts + 1
    <3>1. inbox'[e] = [inbox[e] EXCEPT !.attempts = tries,
                                       !.state = IF GivesUp(e) THEN "dispatched" ELSE @,
                                       !.id = IF GivesUp(e) THEN 0 ELSE @]
      BY <1>1, <1>4, <2>1 DEF DispatchFailed, RecordInboxFailure
    <3>2. ~GivesUp(e)
      BY <1>1, <3>1 DEF InboxRow
    <3> HIDE DEF tries
    <3>3. inbox'[e].attempts = tries
      BY <1>1, <3>1, <3>2 DEF InboxRow
    <3> QED
      BY <1>1, <3>2, <3>3 DEF tries, GivesUp, MaxInboxAttempts
  <2>2. CASE e # cur
    BY <1>1, <1>4, <2>2 DEF DispatchFailed, RecordInboxFailure, AttemptsLeft
  <2> QED
    BY <2>1, <2>2
<1>5. ASSUME NEW f \in Events, Arrive(f) PROVE inbox'[e].attempts < MaxInboxAttempts
  BY <1>1, <1>5 DEF Arrive, Enqueue, AttemptsLeft, MaxInboxAttempts
<1> QED
  BY <1>2, <1>3, <1>4, <1>5, InboxSteps

LEMMA RowsAccounted ==
    ASSUME TypeOK, AccountInv, Next, NEW e \in Events,
           inbox[e].state = "pending", inbox'[e].state = "dispatched", Addressed(e)
    PROVE  \/ RowKey(e) \in done \/ Undelivered(e) \in done
           \/ inbox'[e].attempts = MaxInboxAttempts /\ pc' = "flag"
<1>1. inbox \in [Events -> InboxRow] /\ inbox[e].attempts \in Nat
  BY DEF TypeOK, StoreTypeOK, InboxRow
<1>2. CASE Dispatched
  <2>1. e = cur /\ pc = "dispatch" /\ pass = "drain"
    BY <1>1, <1>2 DEF Dispatched, MarkDispatched, TypeOK, HandlerTypeOK
  <2> QED
    BY <2>1 DEF AccountInv, RowAccounted, Handles, Accounted, Commenting
<1>3. CASE DispatchFailed
  <2>1. e = cur
    BY <1>1, <1>3 DEF DispatchFailed, RecordInboxFailure
  <2> DEFINE tries == inbox[e].attempts + 1
  <2>2. inbox'[e] = [inbox[e] EXCEPT !.attempts = tries,
                                     !.state = IF GivesUp(e) THEN "dispatched" ELSE @,
                                     !.id = IF GivesUp(e) THEN 0 ELSE @]
    BY <1>1, <1>3, <2>1 DEF DispatchFailed, RecordInboxFailure
  <2>3. GivesUp(e)
    BY <1>1, <2>2 DEF InboxRow
  <2> HIDE DEF tries
  <2>4. inbox'[e].attempts = tries
    BY <1>1, <2>2, <2>3 DEF InboxRow
  <2>5. inbox'[e].attempts = MaxInboxAttempts
    BY <1>1, <2>3, <2>4 DEF tries, GivesUp, MaxInboxAttempts, AccountInv, AttemptsLeft
  <2>6. IssueFor(e) # 0
    <3>1. CASE e.kind = "issue_comment"
      BY <3>1, EventType, StoreAssumption DEF IssueFor
    <3>2. CASE e.kind = "review_comment" /\ SessionOfPull(e.pull) # 0
      BY <3>2 DEF IssueFor, SessionOfPull, KnownPull
    <3> QED
      BY <3>1, <3>2 DEF Addressed
  <2> QED
    BY <1>3, <2>1, <2>3, <2>5, <2>6 DEF DispatchFailed, CallFlag
<1>4. CASE \E f \in Events : Arrive(f)
  BY <1>1, <1>4 DEF Arrive, Enqueue
<1> QED
  BY <1>2, <1>3, <1>4, InboxSteps

\* Where comments do not fail, a comment of a person that has an addressee is done with
\* only when Devin has it, its author was told that it cannot be delivered, or it has
\* failed three times and the issue is flagged: through crashes, and rows that fail and
\* are handled again (orchestrator.py:136-184, 734-808).
THEOREM CommentsAccounted == ASSUME "comment" \notin Failing PROVE Spec => CommentAccounted
<1> DEFINE Inv == FinalInv /\ AccountInv
<1>1. Init => Inv
  <2>1. Init => AccountInv
    <3>1. SUFFICES ASSUME Init PROVE AccountInv
      OBVIOUS
    <3>2. \A e \in Events : inbox[e].state = "unseen"
      BY <3>1 DEF Init, StoreInit, Unseen
    <3> QED
      BY <3>1, <3>2 DEF Init, EffectsInit, AccountInv, RowAccounted, Handles, AttemptsLeft,
                        HandlersPass, Calling
  <2> QED
    BY <2>1, FinalInvInit
<1>2. TypeOK /\ Inv /\ [Next]_vars => Inv'
  <2>1. ASSUME AccountInv, UNCHANGED vars PROVE AccountInv'
    <3>1. UNCHANGED <<session, pull, done, inbox, pc, pass, cur, frame>>
      BY <2>1 DEF vars, storeVars
    <3>2. \A e : /\ Handles(e)' = Handles(e) /\ Accounted(e)' = Accounted(e)
                 /\ Addressed(e)' = Addressed(e)
      BY <3>1 DEF Handles, Accounted, Addressed, RowKey, Undelivered, LatestSession,
                  SessionsOf, SessionOfPull, KnownPull
    <3> QED
      BY <2>1, <3>1, <3>2 DEF AccountInv, RowAccounted, AttemptsLeft, HandlersPass
  <2> QED
    BY <2>1, FinalInvKept, RowAccountedKept, AttemptsLeftKept, HandlersPassKept
       DEF AccountInv
<1> DEFINE Step == \A e \in Events :
                       /\ inbox[e].state = "pending" /\ inbox'[e].state = "dispatched"
                       /\ Addressed(e)
                       => \/ RowKey(e) \in done \/ Undelivered(e) \in done
                          \/ inbox'[e].attempts = MaxInboxAttempts /\ pc' = "flag"
<1>3. TypeOK /\ Inv /\ [Next]_vars
      => [\A e \in Events :
          /\ inbox[e].state = "pending" /\ inbox'[e].state = "dispatched"
          => /\ e.kind = "issue_comment" /\ LatestSession(e.issue) # 0
                => \/ <<"reply", e.id>> \in done \/ Told(e, e.issue)
                   \/ inbox'[e].attempts = MaxInboxAttempts /\ pc' = "flag"
             /\ e.kind = "review_comment" /\ SessionOfPull(e.pull) # 0
                => \/ <<"review", e.id>> \in done \/ Told(e, pull[e.pull].issue)
                   \/ inbox'[e].attempts = MaxInboxAttempts /\ pc' = "flag"]_vars
  <2>1. TypeOK /\ Inv /\ Next => Step
    BY RowsAccounted
  <2> QED
    BY <2>1 DEF Addressed, RowKey, Undelivered, Told
<1> HIDE DEF Inv
<1> QED
  BY <1>1, <1>2, <1>3, TypeCorrect, PTL DEF Spec, CommentAccounted

-----------------------------------------------------------------------------
(* No dead end without a flag                                              *)

\* As long as no session lists a pull request there is none: what follows is about
\* the issues that are attempted, fail, time out, stop, ask and are answered.
NoPullSeen == \A p \in Pulls : pull[p].issue = 0

\* The handler is about to open a session for n or to raise its flag.
AtIt(n) ==
    /\ frame.issue = n
    /\ \/ pc \in {"create", "record", "flag"}
       \/ pc \in Commenting /\ frame.reason # None
       \/ pc = "act" /\ ClosingReason(frame.poll.status, frame.poll.detail) # None

HasOpen(n) == \E s \in SessionIds : session[s].issue = n /\ session[s].closed = None

\* An issue that waits for no session and has no flag has an open one, or the
\* handler is at it.
Attended ==
    \A n \in Issues :
        /\ issue[n].known /\ ~WantsSession(issue[n]) /\ issue[n].reason = None
        => AtIt(n) \/ HasOpen(n)

\* What the handler holds: a message, the answer to a poll and the flag an answer takes
\* down are about the issue of the session at hand; a retry has been asked for.
OnRow ==
    pc \in Messaging \cup {"clear", "act"} => session[frame.session].issue = frame.issue
ClearsOpen ==
    pc = "clear" => frame.session \in SessionIds /\ session[frame.session].closed = None
RetriesAsked == pc \in Retrying => issue[frame.issue].retry

AttendInv == NoPullSeen /\ Attended /\ OnRow /\ ClearsOpen /\ RetriesAsked

LEMMA WithoutPulls ==
    ASSUME TypeOK, NoPullSeen
    PROVE  /\ \A p : ~KnownPull(p) /\ SessionOfPull(p) = 0
           /\ \A p \in Pulls : ~TrackPull(p)
           /\ \A n \in Issues : ~Terminal(n)
<1>1. \A p : ~KnownPull(p)
  BY DEF NoPullSeen, KnownPull
<1>2. \A p : SessionOfPull(p) = 0
  BY <1>1 DEF SessionOfPull
<1>3. \A p \in Pulls : ~TrackPull(p)
  BY <1>1 DEF TrackPull, TakesPull, Takes, TypeOK, TodoTypeOK
<1>4. ASSUME NEW n \in Issues PROVE ~Terminal(n)
  <2>1. PullsOf(n) = {}
    BY StoreAssumption DEF NoPullSeen, PullsOf
  <2> QED
    BY <2>1 DEF Terminal, StatusOf, IssueStatus
<1> QED
  BY <1>1, <1>2, <1>3, <1>4

LEMMA NoPullSeenKept ==
    ASSUME \A o \in Observations : ~HasPull(o), TypeOK, NoPullSeen, Next
    PROVE  NoPullSeen'
<1>1. CASE \A p \in Pulls : PullKept(p)
  BY <1>1 DEF NoPullSeen, PullKept
<1>2. CASE ActOnPoll
  <2>1. frame.poll \in Observations
    BY <1>2 DEF ActOnPoll, TypeOK, HandlerTypeOK
  <2>2. frame.poll.pulls = {}
    BY <2>1 DEF HasPull
  <2>3. \A p \in Pulls : pull'[p] = pull[p]
    BY <1>2, <2>2 DEF ActOnPoll, UpsertPulls
  <2> QED
    BY <2>3 DEF NoPullSeen
<1>3. ASSUME NEW q \in Pulls, AdvancePull(q) PROVE NoPullSeen'
  <2>1. \/ pull' = pull
        \/ pull' = [pull EXCEPT ![q].merged = TRUE]
        \/ pull' = [pull EXCEPT ![q].closed = TRUE]
    BY <1>3 DEF AdvancePull, SettleMerged, SettleClosed, MarkMerged, MarkClosed
  <2>2. \A p \in Pulls : RoundsSame(p)
    BY <2>1, OnePullField
  <2> QED
    BY <2>2 DEF NoPullSeen, RoundsSame
<1> QED
  BY <1>1, <1>2, <1>3, PullSteps DEF PullWriter

LEMMA PollStep ==
    ASSUME Next, pc = "act", ~Crash PROVE ActOnPoll
<1>1. ~TickBegins /\ ~PassEnds /\ ~RefreshInsights /\ ~World
  BY DEF TickBegins, PassEnds, RefreshInsights, World, Arrive, GraceElapses, SessionAges,
         PullGoesStale, BetweenHandlers
<1>2. ~StartSessions /\ (TrackSessions => ActOnPoll)
  BY DEF StartSessions, StartDeferred, StartOverBudget, ReserveAttempt, FirstQueued,
         TrackSessions, TimeOut, PollFails, Poll, TakesSession, Takes
<1>3. ~DrainInbox
  BY DEF DrainInbox, HandleLabeled, HandleCiFailed, HandleReview, HandleReply,
         HandlePullClosed, TakesEvent, Takes, RetryClearsFlag, SupersedeOpenSessions,
         Dispatched, DispatchFailed
<1>4. (\A p \in Pulls : ~TrackPull(p)) /\ \A n \in Issues : ~RecoverIssue(n)
  BY DEF TrackPull, TakesPull, RecoverIssue, TakesUnknownIssue, Takes
<1>5. ~EffectSteps
  BY DEF EffectSteps, Flag, Comment, CommentRecorded, ClearFlag, SendMessage,
         MessageRecorded, MessageStamped, NudgeCounted, CiRoundCounted, BudgetsReset,
         CreateSession, SessionRecorded
<1> QED
  BY <1>1, <1>2, <1>3, <1>4, <1>5 DEF Next, Loop

LEMMA RecordStep ==
    ASSUME Next, pc = "record", ~Crash PROVE SessionRecorded
<1>1. ~TickBegins /\ ~PassEnds /\ ~RefreshInsights /\ ~World
  BY DEF TickBegins, PassEnds, RefreshInsights, World, Arrive, GraceElapses, SessionAges,
         PullGoesStale, BetweenHandlers
<1>2. ~StartSessions /\ ~TrackSessions
  BY DEF StartSessions, StartDeferred, StartOverBudget, ReserveAttempt, FirstQueued,
         TrackSessions, TimeOut, PollFails, Poll, TakesSession, Takes, ActOnPoll
<1>3. ~DrainInbox
  BY DEF DrainInbox, HandleLabeled, HandleCiFailed, HandleReview, HandleReply,
         HandlePullClosed, TakesEvent, Takes, RetryClearsFlag, SupersedeOpenSessions,
         Dispatched, DispatchFailed
<1>4. (\A p \in Pulls : ~TrackPull(p)) /\ \A n \in Issues : ~RecoverIssue(n)
  BY DEF TrackPull, TakesPull, RecoverIssue, TakesUnknownIssue, Takes
<1>5. EffectSteps => SessionRecorded
  BY DEF EffectSteps, Flag, Comment, CommentRecorded, ClearFlag, SendMessage,
         MessageRecorded, MessageStamped, NudgeCounted, CiRoundCounted, BudgetsReset,
         CreateSession
<1> QED
  BY <1>1, <1>2, <1>3, <1>4, <1>5 DEF Next, Loop

\* Where a handler goes, and about which issue.
RowMet ==
    pc' \in Messaging \cup {"clear", "act"} => session'[frame'.session].issue = frame'.issue

LEMMA CallsMeetRow ==
    /\ Finish \/ Raise => RowMet
    /\ \A n, r : CallFlag(n, r) \/ AfterComment(n, r) => RowMet
    /\ \A n, key, r : CallComment(n, key, r) => RowMet
    /\ \A s, n, key : session'[s].issue = n /\ CallSend(s, n, key) => RowMet
<1>1. Finish \/ Raise => RowMet
  BY DEF Finish, Raise, RowMet, Messaging
<1>2. \A n, r : CallFlag(n, r) => RowMet
  BY DEF CallFlag, RowMet, Messaging
<1>3. \A n, r : AfterComment(n, r) => RowMet
  BY <1>1, <1>2 DEF AfterComment
<1>4. \A n, key, r : CallComment(n, key, r) => RowMet
  BY <1>3 DEF CallComment, RowMet, Messaging
<1>5. \A s, n, key : session'[s].issue = n /\ CallSend(s, n, key) => RowMet
  BY DEF CallSend, RowMet, NoFrame
<1> QED
  BY <1>1, <1>2, <1>3, <1>4, <1>5

LEMMA EffectsMeetRow ==
    ASSUME TypeOK, OnRow, EffectSteps PROVE RowMet
<1>1. CASE Flag \/ CommentRecorded \/ ClearFlag \/ NudgeCounted \/ CiRoundCounted
           \/ SessionRecorded
  BY <1>1, CallsMeetRow DEF Flag, CommentRecorded, ClearFlag, NudgeCounted,
     CiRoundCounted, SessionRecorded
<1>2. CASE Comment
  BY <1>2, CallsMeetRow DEF Comment, RowMet, Messaging
<1>3. CASE CreateSession
  BY <1>3, CallsMeetRow DEF CreateSession, RowMet, Messaging
<1>4. CASE SendMessage \/ MessageRecorded
  BY <1>4, CallsMeetRow DEF SendMessage, MessageRecorded, storeVars, OnRow, RowMet,
     Messaging
<1>5. CASE MessageStamped \/ BudgetsReset
  <2>1. frame.session \in SessionIds /\ session \in [SessionIds -> SessionRow]
    BY <1>5 DEF MessageStamped, BudgetsReset, TypeOK, StoreTypeOK, HandlerTypeOK
  <2>2. session'[frame.session].issue = session[frame.session].issue
    BY <1>5, <2>1 DEF MessageStamped, BudgetsReset, MarkMessageSent, ResetBudgets,
       SessionRow
  <2>3. pc \in Messaging
    BY <1>5 DEF MessageStamped, BudgetsReset, Messaging
  <2>4. frame' = frame \/ Finish
    BY <1>5 DEF MessageStamped, BudgetsReset
  <2> QED
    BY <2>2, <2>3, <2>4, CallsMeetRow DEF OnRow, RowMet
<1> QED
  BY <1>1, <1>2, <1>3, <1>4, <1>5 DEF EffectSteps
LEMMA OnRowKept ==
    ASSUME TypeOK, NoPullSeen, OnRow, Next PROVE OnRow'
<1> SUFFICES RowMet
  BY DEF OnRow, RowMet
<1>1. CASE EffectSteps
  BY <1>1, EffectsMeetRow
<1>2. CASE DrainInbox
  <2>1. ASSUME NEW e \in Events, HandleReply(e) PROVE RowMet
    <3> DEFINE s == LatestSession(e.issue)
    <3>1. s # 0 => s \in SessionIds /\ session[s].issue = e.issue
      BY LatestIsSession
    <3>2. session' = session
      BY <2>1 DEF HandleReply, storeVars
    <3> HIDE DEF s
    <3> QED
      BY <2>1, <3>1, <3>2, CallsMeetRow DEF HandleReply, CallMessage, s
  <2>2. ASSUME NEW e \in Events,
               HandleCiFailed(e) \/ HandleReview(e) \/ HandlePullClosed(e)
        PROVE  RowMet
    BY <2>2, WithoutPulls, CallsMeetRow DEF HandleCiFailed, HandleReview, HandlePullClosed
  <2>3. ASSUME NEW e \in Events, HandleLabeled(e) PROVE RowMet
    BY <2>3, CallsMeetRow DEF HandleLabeled, RegisterIssueVerified, RowMet, Messaging
  <2>4. CASE RetryClearsFlag \/ SupersedeOpenSessions \/ Dispatched \/ DispatchFailed
    BY <2>4, CallsMeetRow DEF RetryClearsFlag, SupersedeOpenSessions, Dispatched,
       DispatchFailed, RowMet, Messaging
  <2> QED
    BY <1>2, <2>1, <2>2, <2>3, <2>4 DEF DrainInbox
<1>3. CASE StartSessions
  BY <1>3, CallsMeetRow DEF StartSessions, StartDeferred, StartOverBudget, ReserveAttempt,
     FirstQueued, RowMet, Messaging
<1>4. CASE TrackSessions
  <2>1. ASSUME NEW s \in SessionIds, NEW o \in Observations, Poll(s, o) PROVE RowMet
    <3>1. session'[s].issue = session[s].issue
      BY <2>1 DEF Poll, RecordPoll, TypeOK, StoreTypeOK, SessionRow
    <3>2. frame'.session = s /\ frame'.issue = session[s].issue
      BY <2>1 DEF Poll, NoFrame
    <3> QED
      BY <3>1, <3>2 DEF RowMet
  <2>2. ASSUME NEW s \in SessionIds, TimeOut(s) \/ PollFails(s) PROVE RowMet
    BY <2>2, CallsMeetRow DEF TimeOut, PollFails
  <2>3. CASE ActOnPoll
    <3> DEFINE s == frame.session
               n == frame.issue
    <3>1. session'[s].issue = n
      BY <2>3 DEF ActOnPoll, OnRow
    <3>2. ActOn(s, n, frame.poll)
      BY <2>3 DEF ActOnPoll
    <3> HIDE DEF s, n
    <3>3. HandleBlocked(s, n) => RowMet
      BY <3>1, CallsMeetRow DEF HandleBlocked, CallMessage
    <3> QED
      BY <3>2, <3>3, CallsMeetRow DEF ActOn, ReportCompletion, FlagEnd
  <2> QED
    BY <1>4, <2>1, <2>2, <2>3 DEF TrackSessions
<1>5. ASSUME NEW n \in Issues, RecoverIssue(n) PROVE RowMet
  BY <1>5, CallsMeetRow DEF RecoverIssue, RegisterIssueVerified, RowMet, Messaging
<1>6. CASE TickBegins \/ PassEnds \/ RefreshInsights \/ Crash
  BY <1>6 DEF TickBegins, PassEnds, RefreshInsights, Crash, BeginPass, RowMet, Messaging
<1>7. CASE World
  BY <1>7 DEF World, Arrive, GraceElapses, SessionAges, PullGoesStale, BetweenHandlers,
     RowMet, Messaging
<1> QED
  BY <1>1, <1>2, <1>3, <1>4, <1>5, <1>6, <1>7, WithoutPulls DEF Next, Loop

\* A flag is taken down for an answer or for a merge.
LEMMA ClearComesFrom ==
    ASSUME TypeOK, Next, pc' = "clear"
    PROVE  BudgetsReset \/ \E p : KnownPull(p) /\ ~pull[p].merged /\ SettleMerged(p)
<1> DEFINE Settles == \E p : KnownPull(p) /\ ~pull[p].merged /\ SettleMerged(p)
<1>1. /\ Finish \/ Raise => pc' # "clear"
      /\ \A n, r : CallFlag(n, r) \/ AfterComment(n, r) => pc' # "clear"
      /\ \A n, key, r : CallComment(n, key, r) => pc' # "clear"
      /\ \A s, n, key : CallSend(s, n, key) => pc' # "clear"
  BY DEF Finish, Raise, CallFlag, AfterComment, CallComment, CallSend
<1>2. EffectSteps => BudgetsReset
  BY <1>1 DEF EffectSteps, Flag, Comment, CommentRecorded, ClearFlag, SendMessage,
     MessageRecorded, MessageStamped, NudgeCounted, CiRoundCounted, CreateSession,
     SessionRecorded
<1>3. ASSUME NEW p, AdvancePull(p), KnownPull(p) PROVE Settles
  <2>1. \A sha : ~FeedCiFailure(p, sha) /\ ~FeedMergeConflict(p, sha)
    BY <1>1 DEF FeedCiFailure, FeedMergeConflict, CallMessage
  <2>2. ~WatchPull(p) /\ ~SettleClosed(p)
    BY <1>1 DEF WatchPull, SettleClosed
  <2>3. SettleMerged(p) /\ ~pull[p].merged
    BY <1>1, <1>3, <2>1, <2>2 DEF AdvancePull, SettleMerged
  <2> QED
    BY <1>3, <2>3
<1>4. ASSUME DrainInbox PROVE Settles
  <2>1. PICK e \in Events : HandlePullClosed(e)
    BY <1>1, <1>4 DEF DrainInbox, HandleLabeled, HandleCiFailed, HandleReview,
       HandleReply, RegisterIssueVerified, CallMessage, FeedCiFailure, RetryClearsFlag,
       SupersedeOpenSessions, Dispatched, DispatchFailed
  <2> QED
    BY <1>1, <1>3, <2>1 DEF HandlePullClosed
<1>5. ~StartSessions
  BY <1>1 DEF StartSessions, StartDeferred, StartOverBudget, ReserveAttempt, FirstQueued
<1>6. ~TrackSessions
  <2>1. \A s, n, o : ActOn(s, n, o) => pc' # "clear"
    BY <1>1 DEF ActOn, ReportCompletion, FlagEnd, HandleBlocked, CallMessage
  <2> QED
    BY <1>1, <2>1 DEF TrackSessions, TimeOut, PollFails, Poll, ActOnPoll
<1>7. \A n \in Issues : ~RecoverIssue(n)
  BY <1>1 DEF RecoverIssue, RegisterIssueVerified
<1>8. ASSUME NEW p \in Pulls, TrackPull(p) PROVE Settles
  BY <1>3, <1>8 DEF TrackPull, TakesPull, Takes, TypeOK, TodoTypeOK
<1>9. ~TickBegins /\ ~PassEnds /\ ~RefreshInsights /\ ~Crash /\ ~World
  BY DEF TickBegins, PassEnds, RefreshInsights, Crash, BeginPass, World, Arrive,
     GraceElapses, SessionAges, PullGoesStale, BetweenHandlers
<1> QED
  BY <1>2, <1>4, <1>5, <1>6, <1>7, <1>8, <1>9 DEF Next, Loop

\* So without a pull request the session that received the answer is open.
LEMMA ClearsOpenKept ==
    ASSUME TypeOK, FinalInv, NoPullSeen, Next PROVE ClearsOpen'
<1> SUFFICES ASSUME pc' = "clear"
             PROVE  frame'.session \in SessionIds /\ session'[frame'.session].closed = None
  BY DEF ClearsOpen, SessionIds
<1>1. BudgetsReset
  BY ClearComesFrom, WithoutPulls
<1>2. frame' = frame /\ frame.session \in SessionIds /\ session[frame.session].closed = None
  BY <1>1 DEF BudgetsReset, FinalInv, MessagesOpen, Messaging, TypeOK, HandlerTypeOK
<1>3. EffectSteps
  BY <1>1 DEF EffectSteps
<1> QED
  BY <1>2, <1>3, EffectsOnRows

LEMMA RetriesAskedKept ==
    ASSUME TypeOK, RetriesAsked, Next PROVE RetriesAsked'
<1> SUFFICES ASSUME pc' \in Retrying PROVE issue'[frame'.issue].retry
  BY DEF RetriesAsked
<1>1. CASE pc \in Retrying
  <2>1. RetryClearsFlag
    BY <1>1, GoesOnAtOnce DEF Retrying, CreateSession, SupersedeOpenSessions, Crash, Finish
  <2>2. frame' = frame /\ frame.issue \in Issues
    BY <2>1 DEF RetryClearsFlag, TypeOK, HandlerTypeOK, InHandler, Steps
  <2>3. FlagMoved
    BY <2>1, <2>2 DEF FlagMoved, RetryClearsFlag, TakeFlagDown
  <2> QED
    BY <1>1, <2>2, <2>3, FlagMovesReason DEF RetriesAsked
<1>2. CASE pc \notin Retrying
  <2>1. Finish \/ Raise => pc' \notin Retrying
    BY DEF Finish, Raise, Retrying
  <2>2. ASSUME NEW n \in Issues, RegisterIssueVerified(n) PROVE issue'[frame'.issue].retry
    <3>1. RequestRetry(n) /\ frame'.issue = n
      BY <1>2, <2>1, <2>2 DEF RegisterIssueVerified, NoFrame
    <3> QED
      BY <3>1 DEF RequestRetry, TypeOK, StoreTypeOK, IssueRow
  <2>3. ASSUME NEW e \in Events, HandleLabeled(e) PROVE issue'[frame'.issue].retry
    BY <2>2, <2>3, EventType DEF HandleLabeled
  <2>4. ASSUME NEW n \in Issues, RecoverIssue(n) PROVE issue'[frame'.issue].retry
    BY <2>2, <2>4 DEF RecoverIssue
  <2> QED
    BY <1>2, <2>3, <2>4, RetryingSteps
<1> QED
  BY <1>1, <1>2
\* Nobody gives an issue up in silence: whoever leaves it alone raises its flag first.
LEMMA RaisesReason ==
    ASSUME TypeOK, Flag, NEW n, n = frame.issue, issue[n].known
    PROVE  issue'[n].reason # None
<1>1. issue \in [Issues -> IssueRow] /\ n \in Issues /\ frame.reason \in Reasons
  BY DEF Flag, TypeOK, StoreTypeOK, HandlerTypeOK, InHandler, Steps
<1>2. frame.reason # None
  BY <1>1 DEF Reasons, None
<1>3. CASE FlagIsNews(n, frame.reason)
  <2> DEFINE k == EpisodeOf(n)
  <2>1. issue' = [issue EXCEPT ![n].episode = k, ![n].reason = frame.reason]
    BY <1>3 DEF Flag, FlagForHuman
  <2> HIDE DEF k
  <2> QED
    BY <1>1, <1>2, <2>1 DEF IssueRow
<1>4. CASE ~FlagIsNews(n, frame.reason)
  BY <1>2, <1>4 DEF Flag, FlagForHuman, FlagIsNews
<1> QED
  BY <1>3, <1>4

\* The handler that is at it opens a session, raises the flag or stays at it.
LEMMA GoesOnAttending ==
    ASSUME \A o \in Observations : ~HasPull(o), TypeOK, NoPullSeen, Next, ~Crash,
           NEW n \in Issues, AtIt(n), issue[n].known, issue'[n].reason = None
    PROVE  AtIt(n)' \/ HasOpen(n)'
<1>1. CASE pc = "create"
  <2>1. CreateSession
    BY <1>1, GoesOnAtOnce DEF RetryClearsFlag, SupersedeOpenSessions
  <2>2. ASSUME NEW s, frame' = [frame EXCEPT !.session = s]
        PROVE  frame'.issue = frame.issue
    BY <2>2 DEF TypeOK, HandlerTypeOK, Frame
  <2>3. /\ pc' \in {"record", "flag"}
        /\ CallFlag(frame.issue, "start_failed")
           \/ \E s : frame' = [frame EXCEPT !.session = s]
    BY <2>1 DEF CreateSession, CallFlag
  <2> QED
    BY <2>2, <2>3 DEF CallFlag, NoFrame, AtIt
<1>2. CASE pc = "record"
  <2>1. SessionRecorded /\ frame.session \in SessionIds
    BY <1>2, RecordStep DEF TypeOK, HandlerTypeOK
  <2>2. session'[frame.session] = [NoSession EXCEPT !.issue = frame.issue,
                                       !.attempt = issue[frame.issue].attempts]
    BY <2>1 DEF SessionRecorded, CreateSessionRow, TypeOK, StoreTypeOK
  <2>3. session'[frame.session].issue = n /\ session'[frame.session].closed = None
    BY <2>2 DEF NoSession, AtIt
  <2> QED
    BY <2>1, <2>3 DEF HasOpen
<1>3. CASE pc = "flag"
  BY <1>3, FlagStep, RaisesReason DEF AtIt
<1>4. CASE pc \in Commenting /\ frame.reason # None
  BY <1>4, CommentStep DEF Comment, CommentRecorded, AfterComment, CallFlag, NoFrame,
     Commenting, AtIt
<1>5. CASE pc = "act" /\ ClosingReason(frame.poll.status, frame.poll.detail) # None
  <2> DEFINE o == frame.poll
             s == frame.session
  <2>1. ActOn(s, n, o) /\ o \in Observations
    BY <1>5, PollStep DEF ActOnPoll, AtIt, TypeOK, HandlerTypeOK
  <2>2. ~HasPull(o) /\ ClosingReason(o.status, o.detail) # None
    BY <1>5, <2>1
  <2> HIDE DEF o, s
  <2>3. ASSUME NEW r, CallFlag(n, r) PROVE AtIt(n)'
    BY <2>3 DEF CallFlag, NoFrame, AtIt
  <2>4. ReportCompletion(s, n, o) => AtIt(n)'
    BY <2>2, <2>3 DEF ReportCompletion, CallComment, AfterComment, NoFrame, AtIt,
       Commenting, None
  <2>5. FlagEnd(n, ClosingReason(o.status, o.detail)) => AtIt(n)'
    BY <2>3 DEF FlagEnd
  <2> QED
    BY <2>1, <2>2, <2>4, <2>5, WithoutPulls DEF ActOn
<1> QED
  BY <1>1, <1>2, <1>3, <1>4, <1>5 DEF AtIt

\* An open session closes for a retry, or the handler is at it.
LEMMA OpenStaysOrAtIt ==
    ASSUME TypeOK, FinalInv, RetriesAsked, Next, NEW n \in Issues, HasOpen(n),
           ~issue[n].retry
    PROVE  AtIt(n)' \/ HasOpen(n)'
<1>1. PICK s \in SessionIds : session[s].issue = n /\ session[s].closed = None
  BY DEF HasOpen
<1>2. n # 0
  BY StoreAssumption
<1>3. session'[s].issue = n
  BY <1>1, <1>2, RowsStay
<1>4. CASE EffectSteps
  BY <1>1, <1>3, <1>4, EffectsOnRows DEF HasOpen
<1>5. CASE session'[s].closed = None
  BY <1>3, <1>5 DEF HasOpen
<1>6. CASE SupersedeOpenSessions /\ session[s].issue = frame.issue
  BY <1>1, <1>6 DEF SupersedeOpenSessions, RetriesAsked, Retrying
<1>7. CASE TimeOut(s)
  BY <1>1, <1>7 DEF TimeOut, CallFlag, NoFrame, AtIt
<1>8. ASSUME NEW o \in Observations, Poll(s, o), session'[s].closed # None
      PROVE  AtIt(n)'
  <2>1. session'[s].closed = ClosingReason(o.status, o.detail)
    BY <1>1, <1>8 DEF Poll, RecordPoll, TypeOK, StoreTypeOK, SessionRow
  <2>2. pc' = "act" /\ frame'.issue = n /\ frame'.poll = o
    BY <1>1, <1>8 DEF Poll, NoFrame
  <2> QED
    BY <1>8, <2>1, <2>2 DEF AtIt
<1> QED
  BY <1>1, <1>4, <1>5, <1>6, <1>7, <1>8, OthersOnRows

LEMMA AttendedKept ==
    ASSUME \A o \in Observations : ~HasPull(o), TypeOK, FinalInv, UnknownBlank, AttendInv,
           Next, ~Crash
    PROVE  Attended'
<1> SUFFICES ASSUME NEW n \in Issues, issue'[n].known, ~WantsSession(issue'[n]),
                    issue'[n].reason = None
             PROVE  AtIt(n)' \/ HasOpen(n)'
  BY DEF Attended, AtIt, HasOpen
<1>1. CASE /\ issue[n].known /\ ~WantsSession(issue[n]) /\ issue[n].reason = None
  <2>1. AtIt(n) \/ HasOpen(n)
    BY <1>1 DEF AttendInv, Attended
  <2>2. ~issue[n].retry
    BY <1>1 DEF WantsSession
  <2> QED
    BY <1>1, <2>1, <2>2, GoesOnAttending, OpenStaysOrAtIt DEF AttendInv
<1>2. CASE FlagMoved /\ (Flag \/ ClearFlag \/ RetryClearsFlag)
  <2>1. CASE n # frame.issue
    BY <1>1, <1>2, <2>1, FlagMovesReason
  <2>2. CASE n = frame.issue /\ Flag
    BY <1>2, <2>2, FlagMovesReason, RaisesReason
  <2>3. CASE n = frame.issue /\ ClearFlag
    <3>1. /\ frame.session \in SessionIds /\ session[frame.session].closed = None
          /\ session[frame.session].issue = n /\ session' = session
      BY <2>3 DEF ClearFlag, AttendInv, OnRow, ClearsOpen
    <3> QED
      BY <3>1 DEF HasOpen
  <2>4. CASE n = frame.issue /\ RetryClearsFlag
    BY <1>2, <2>4, FlagMovesReason DEF RetryClearsFlag, AttendInv, RetriesAsked, Retrying,
       WantsSession
  <2> QED
    BY <1>2, <2>1, <2>2, <2>3, <2>4
<1>3. ASSUME NEW m \in Issues, Asked(m) PROVE AtIt(n)' \/ HasOpen(n)'
  <2>1. CASE n # m
    BY <1>1, <1>3, <2>1, AskingKeeps
  <2>2. CASE n = m /\ ~issue[n].known
    BY <1>3, <2>2, AskingKeeps DEF UnknownBlank, WantsSession
  <2>3. CASE n = m /\ issue[n].known
    BY <1>3, <2>3, AskingKeeps DEF WantsSession
  <2> QED
    BY <2>1, <2>2, <2>3
<1>4. ASSUME NEW m \in Issues, ReserveAttempt(m) PROVE AtIt(n)' \/ HasOpen(n)'
  <2>1. CASE n # m
    BY <1>1, <1>4, <2>1, ReservingKeeps
  <2>2. CASE n = m
    BY <1>4, <2>2 DEF ReserveAttempt, NoFrame, AtIt
  <2> QED
    BY <2>1, <2>2
<1>5. CASE issue' = issue
  BY <1>1, <1>5
<1> QED
  BY <1>2, <1>3, <1>4, <1>5, IssueSteps

\* Every dead end of an issue without a pull request is flagged (orchestrator.py:25): the
\* failed start, the watchdog, the session that ended, stopped or reported that it is
\* done, the answer that took a flag down, the label that asked for another attempt.
\* With pull requests it is not so (reply_dead_end), nor if the process may die between
\* an attempt and its session (orchestrator.py:297-337, 356-441, 552-585).
THEOREM NoneGivenUpInSilence ==
    ASSUME MaxCrashes = 0, \A o \in Observations : ~HasPull(o)
    PROVE  Spec => []NoSilentDeadEnd
<1> DEFINE Inv == StartsFresh /\ FinalInv /\ LifeInv /\ AttendInv
<1>1. Init => Inv
  <2> SUFFICES ASSUME Init PROVE Inv
    OBVIOUS
  <2>1. AttendInv
    BY DEF Init, StoreInit, EffectsInit, NoIssue, NoPull, AttendInv, NoPullSeen, Attended,
       OnRow, ClearsOpen, RetriesAsked, Messaging, Retrying
  <2>2. StartsFresh
    BY DEF Init, EffectsInit, StartsFresh
  <2> QED
    BY <2>1, <2>2, FinalInvInit, LifeInvInit
<1>2. TypeOK /\ Inv /\ [Next]_vars => Inv'
  <2> SUFFICES ASSUME TypeOK, Inv, [Next]_vars PROVE Inv'
    OBVIOUS
  <2>1. CASE UNCHANGED vars
    <3>1. AttendInv'
      BY <2>1 DEF vars, storeVars, AttendInv, NoPullSeen, Attended, AtIt, HasOpen, OnRow,
         ClearsOpen, RetriesAsked
    <3> QED
      BY <3>1, StartsFreshKept, FinalInvKept, LifeInvKept
  <2>2. CASE Next
    <3>1. ~Crash
      BY DEF Crash, TypeOK
    <3>2. AttendInv'
      BY <2>2, <3>1, NoPullSeenKept, AttendedKept, OnRowKept, ClearsOpenKept,
         RetriesAskedKept DEF AttendInv, LifeInv
    <3> QED
      BY <3>2, StartsFreshKept, FinalInvKept, LifeInvKept
  <2> QED
    BY <2>1, <2>2
<1>3. Inv => NoSilentDeadEnd
  <2> SUFFICES ASSUME Inv, Idle, NEW n \in Issues, issue[n].known,
                      StatusOf(n) = "exhausted"
               PROVE  \E s \in SessionsOf(n) : session[s].closed = None
    BY DEF NoSilentDeadEnd
  <2>1. ~WantsSession(issue[n]) /\ issue[n].reason = None
    BY DEF StatusOf, IssueStatus, NeedsHuman
  <2>2. ~AtIt(n)
    BY DEF Idle, AtIt, Commenting
  <2>3. HasOpen(n)
    BY <2>1, <2>2 DEF AttendInv, Attended
  <2> QED
    BY <2>3 DEF HasOpen, SessionsOf
<1> QED
  BY <1>1, <1>2, <1>3, TypeCorrect, PTL DEF Spec

-----------------------------------------------------------------------------
(* The budget                                                              *)

\* The sessions that have not been polled yet: what they spend is not recorded, so
\* they count for all they may spend.
Fresh ==
    {t \in SessionIds : /\ session[t].issue # 0
                        /\ session[t].status = None /\ session[t].closed = None}

Committed == TotalAcus + SessionCap * Cardinality(Fresh)

\* What start_sessions counts covers what is recorded and what its own starts may
\* spend, and as a session is created that count was below the budget before it.
BlankSpend == \A s \in SessionIds : session[s].issue = 0 => session[s].acus = 0
Ahead(c) == c + SessionCap <= spent /\ spent < Budget + SessionCap
StartCovers ==
    pass = "start" => Committed <= spent /\ (pc \in Calling => Ahead(Committed))

\* The pass that follows polls them all, so no other pass meets one.
TrackPolls == pass = "track" => Fresh \subseteq todo
PolledElsewhere == pass \notin {"start", "track"} => Fresh = {}

BudgetInv == BlankSpend /\ StartCovers /\ TrackPolls /\ PolledElsewhere

\* Who writes the polled status and the figure of a session.
LEMMA PollWrites ==
    ASSUME TypeOK, NEW s \in SessionIds, NEW o \in Observations, Poll(s, o)
    PROVE  /\ session'[s].status = o.status
           /\ \A t \in SessionIds \ {s} : session'[t] = session[t]
<1>1. PICK acus, produced, closed :
         session' = [session EXCEPT ![s].status = o.status, ![s].detail = o.detail,
                                    ![s].acus = acus, ![s].produced = produced,
                                    ![s].closed = closed]
  BY DEF Poll, RecordPoll
<1>2. session \in [SessionIds -> SessionRow]
  BY DEF TypeOK, StoreTypeOK
<1> QED
  BY <1>1, <1>2 DEF SessionRow

LEMMA SpendSteps ==
    ASSUME TypeOK, Next, ~SessionRecorded, NEW s \in SessionIds
    PROVE  \/ /\ session'[s].status = session[s].status
              /\ session'[s].acus = session[s].acus
           \/ \E o \in Observations : Poll(s, o)
           \/ /\ RefreshInsights
              /\ session'[s].status = session[s].status
              /\ session[s].issue = 0 => session'[s].acus = session[s].acus
<1> DEFINE Kept == /\ session'[s].status = session[s].status
                   /\ session'[s].acus = session[s].acus
<1>1. session \in [SessionIds -> SessionRow] /\ session[s] \in SessionRow
  BY DEF TypeOK, StoreTypeOK
<1>2. ASSUME session'[s] = session[s] PROVE Kept
  BY <1>2
<1>3. ASSUME NEW v, NEW t,
             \/ session' = [session EXCEPT ![t].grace = v]
             \/ session' = [session EXCEPT ![t].aged = v]
             \/ session' = [session EXCEPT ![t].closed = v]
             \/ session' = [session EXCEPT ![t].nudges = v]
             \/ session' = [session EXCEPT ![t].nudge_base = v]
      PROVE  Kept
  BY <1>1, <1>3 DEF SessionRow
<1>4. CASE EffectSteps
  <2>1. CASE MessageStamped
    BY <1>3, <2>1 DEF MessageStamped, MarkMessageSent
  <2>2. CASE NudgeCounted \/ BudgetsReset
    BY <1>3, <2>2 DEF NudgeCounted, BumpNudges, BudgetsReset, ResetBudgets
  <2> QED
    BY <1>2, <1>4, <2>1, <2>2, EffectsOnRows DEF Same
<1>5. CASE SupersedeOpenSessions
  <2>1. \/ session'[s] = session[s]
        \/ session'[s] = [session[s] EXCEPT !.closed = "superseded"]
    BY <1>5 DEF SupersedeOpenSessions
  <2> QED
    BY <1>1, <2>1 DEF SessionRow
<1>6. ASSUME NEW t \in SessionIds, TimeOut(t) PROVE Kept
  BY <1>3, <1>6 DEF TimeOut, CloseSession
<1>7. ASSUME NEW t \in SessionIds, NEW o \in Observations, Poll(t, o), s # t PROVE Kept
  BY <1>7, PollWrites
<1>8. CASE RefreshInsights
  <2>1. PICK a : \/ session'[s] = session[s]
                 \/ session[s].issue # 0 /\ session'[s] = [session[s] EXCEPT !.acus = a]
    BY <1>2, <1>8 DEF RefreshInsights, ApplyInsights
  <2> QED
    BY <1>1, <1>8, <2>1 DEF SessionRow
<1>9. CASE World
  <2>1. CASE \E t \in SessionIds : GraceElapses(t) \/ SessionAges(t)
    BY <1>3, <2>1 DEF GraceElapses, SessionAges
  <2> QED
    BY <1>2, <1>9, <2>1 DEF World, Arrive, PullGoesStale
<1> HIDE DEF Kept
<1>10. CASE DrainInbox
  BY <1>2, <1>5, <1>10 DEF DrainInbox, HandleLabeled, HandleCiFailed, HandleReview,
     HandleReply, HandlePullClosed, RetryClearsFlag, Dispatched, DispatchFailed, storeVars
<1>11. CASE TrackSessions
  <2>1. ASSUME NEW t \in SessionIds, NEW o \in Observations, Poll(t, o)
        PROVE  Kept \/ Poll(s, o)
    BY <1>7, <2>1
  <2>2. ActOnPoll => Kept
    BY <1>2 DEF ActOnPoll
  <2>3. \A t \in SessionIds : PollFails(t) => Kept
    BY <1>2 DEF PollFails, storeVars
  <2>4. Kept \/ \E o \in Observations : Poll(s, o)
    BY <1>6, <1>11, <2>1, <2>2, <2>3 DEF TrackSessions
  <2> QED
    BY <2>4 DEF Kept
<1>12. CASE \/ StartSessions \/ TickBegins \/ PassEnds \/ Crash
            \/ \E p \in Pulls : TrackPull(p)
            \/ \E n \in Issues : RecoverIssue(n)
  BY <1>2, <1>12 DEF StartSessions, StartDeferred, StartOverBudget, ReserveAttempt,
     TickBegins, PassEnds, Crash, TrackPull, RecoverIssue, storeVars
<1> QED
  BY <1>4, <1>8, <1>9, <1>10, <1>11, <1>12 DEF Next, Loop, Kept

LEMMA FreshOnly ==
    ASSUME \A o \in Observations : o.status # None, TypeOK, Next, ~SessionRecorded
    PROVE  Fresh' \subseteq Fresh
<1> SUFFICES ASSUME NEW t \in SessionIds, session'[t].issue # 0,
                    session'[t].status = None, session'[t].closed = None
             PROVE  t \in Fresh
  BY DEF Fresh, SessionIds
<1>1. session[t].issue # 0 /\ session[t].closed = None
  BY NextOpensNone DEF NoneOpened, StaysOrCloses
<1>2. \A o \in Observations : ~Poll(t, o)
  BY PollWrites
<1>3. session[t].status = None
  BY <1>2, SpendSteps
<1> QED
  BY <1>1, <1>3 DEF Fresh

LEMMA TotalStays ==
    ASSUME \A s \in SessionIds : session'[s].acus = session[s].acus
    PROVE  TotalAcus' = TotalAcus
<1>1. [s \in SessionIds |-> session'[s].acus] = [s \in SessionIds |-> session[s].acus]
  OBVIOUS
<1> QED
  BY <1>1 DEF TotalAcus, SessionIds

LEMMA FreshFinite ==
    IsFiniteSet(Fresh) /\ Cardinality(Fresh) \in Nat /\ Cardinality(Fresh') \in Nat
<1>1. Fresh \subseteq SessionIds /\ Fresh' \subseteq SessionIds
  BY DEF Fresh, SessionIds
<1> QED
  BY <1>1, SessionIdsFinite, FS_Subset, FS_CardinalityType

LEMMA CommittedType ==
    ASSUME TypeOK, TypeOK' PROVE Committed \in Nat /\ Committed' \in Nat
<1>1. /\ SessionCap \in Nat /\ TotalAcus \in Nat /\ TotalAcus' \in Nat
      /\ Cardinality(Fresh) \in Nat /\ Cardinality(Fresh)' \in Nat
  BY OrchestratorAssumption, TotalIsNat, FreshFinite
<1>2. SessionCap * Cardinality(Fresh) \in Nat /\ SessionCap * Cardinality(Fresh)' \in Nat
  BY <1>1, Times
<1> QED
  BY <1>1, <1>2 DEF Committed

LEMMA CommittedSteps ==
    ASSUME TypeOK, TypeOK', NEW k \in {0, 1}, TotalAcus' = TotalAcus,
           Cardinality(Fresh)' <= Cardinality(Fresh) + k
    PROVE  Committed' <= Committed + (IF k = 0 THEN 0 ELSE SessionCap)
<1> DEFINE c == Cardinality(Fresh)
           d == Cardinality(Fresh)'
           x == SessionCap * c
           y == SessionCap * d
           z == SessionCap * (c + k)
<1>1. c \in Nat /\ d \in Nat /\ SessionCap \in Nat /\ TotalAcus \in Nat
  BY FreshFinite, TotalIsNat, OrchestratorAssumption
<1>2. y <= z /\ x \in Nat /\ y \in Nat
  <2>1. d <= c + k /\ c + k \in Nat
    BY <1>1
  <2> HIDE DEF c, d
  <2> QED
    BY <1>1, <2>1, Times
<1>3. z = x + (IF k = 0 THEN 0 ELSE SessionCap)
  <2> HIDE DEF c
  <2> QED
    BY <1>1, Times
<1>4. Committed = TotalAcus + x /\ Committed' = TotalAcus' + y
  BY DEF Committed
<1> HIDE DEF x, y, z
<1> QED
  BY <1>1, <1>2, <1>3, <1>4
LEMMA BlankSpendKept ==
    ASSUME TypeOK, FinalInv, BlankSpend, Next PROVE BlankSpend'
<1> SUFFICES ASSUME NEW s \in SessionIds, session'[s].issue = 0
             PROVE  session'[s].acus = 0
  BY DEF BlankSpend, SessionIds
<1>1. CASE SessionRecorded
  <2>1. CASE s = frame.session
    BY <1>1, <2>1 DEF SessionRecorded, CreateSessionRow, NoSession, TypeOK, StoreTypeOK
  <2>2. CASE s # frame.session
    BY <1>1, <2>2 DEF SessionRecorded, CreateSessionRow, BlankSpend, TypeOK, StoreTypeOK
  <2> QED
    BY <2>1, <2>2
<1>2. CASE ~SessionRecorded
  <2>1. session[s].issue = 0
    BY <1>2, NextOpensNone DEF NoneOpened, StaysOrCloses
  <2>2. \A o \in Observations : ~Poll(s, o)
    BY <2>1 DEF Poll, TakesSession, Takes, TypeOK, TodoTypeOK
  <2>3. session'[s].acus = session[s].acus
    BY <1>2, <2>1, <2>2, SpendSteps
  <2> QED
    BY <2>1, <2>3 DEF BlankSpend
<1> QED
  BY <1>1, <1>2

LEMMA StartSpendsNothing ==
    ASSUME TypeOK, FinalInv, StartsFresh, BlankSpend, Next, pass' = "start"
    PROVE  TotalAcus' = TotalAcus
<1>1. ASSUME NEW s \in SessionIds PROVE session'[s].acus = session[s].acus
  <2>1. CASE SessionRecorded
    <3>1. CASE s = frame.session
      <4>1. session[s].issue = 0
        BY <2>1, <3>1 DEF SessionRecorded, FinalInv, RecordsBlank
      <4>2. session'[s].acus = 0
        BY <2>1, <3>1 DEF SessionRecorded, CreateSessionRow, NoSession, TypeOK, StoreTypeOK
      <4> QED
        BY <4>1, <4>2 DEF BlankSpend
    <3>2. CASE s # frame.session
      BY <2>1, <3>2 DEF SessionRecorded, CreateSessionRow, TypeOK, StoreTypeOK
    <3> QED
      BY <3>1, <3>2
  <2>2. CASE ~SessionRecorded
    <3>1. \A o \in Observations : ~Poll(s, o)
      BY DEF Poll, TakesSession, Takes
    <3>2. ~RefreshInsights
      BY DEF RefreshInsights, BeginPass
    <3> QED
      BY <2>2, <3>1, <3>2, SpendSteps
  <2> QED
    BY <2>1, <2>2
<1> QED
  BY <1>1, TotalStays

LEMMA RecordingAddsOne ==
    ASSUME TypeOK, SessionRecorded
    PROVE  Cardinality(Fresh)' <= Cardinality(Fresh) + 1
<1> DEFINE r == frame.session
<1>1. \A s \in SessionIds \ {r} : session'[s] = session[s]
  BY DEF SessionRecorded, CreateSessionRow, TypeOK, StoreTypeOK
<1>2. Fresh' \subseteq Fresh \cup {r}
  BY <1>1 DEF Fresh, SessionIds
<1>3. /\ IsFiniteSet(Fresh \cup {r})
      /\ Cardinality(Fresh \cup {r}) \in Nat
      /\ Cardinality(Fresh \cup {r}) <= Cardinality(Fresh) + 1
  <2>1. IsFiniteSet(Fresh) /\ Cardinality(Fresh) \in Nat
    BY FreshFinite
  <2>2. IsFiniteSet(Fresh \cup {r})
    BY <2>1, FS_AddElement
  <2>3. \/ Cardinality(Fresh \cup {r}) = Cardinality(Fresh)
        \/ Cardinality(Fresh \cup {r}) = Cardinality(Fresh) + 1
    BY <2>1, FS_AddElement
  <2> HIDE DEF r
  <2> QED
    BY <2>1, <2>2, <2>3, FS_CardinalityType
<1>4. Cardinality(Fresh') <= Cardinality(Fresh \cup {r})
  BY <1>2, <1>3, FS_Subset
<1> QED
  BY <1>3, <1>4, FreshFinite

LEMMA FreshShrinks ==
    ASSUME \A o \in Observations : o.status # None, TypeOK, Next, ~SessionRecorded
    PROVE  Cardinality(Fresh)' <= Cardinality(Fresh) + 0
<1>1. Fresh' \subseteq Fresh
  BY FreshOnly
<1>2. Cardinality(Fresh') <= Cardinality(Fresh)
  BY <1>1, FreshFinite, FS_Subset
<1> QED
  BY <1>2, FreshFinite

LEMMA StartCoversKept ==
    ASSUME \A o \in Observations : o.status # None, MaxCrashes = 0,
           TypeOK, TypeOK', FinalInv, StartsFresh, HandlersPass, BudgetInv, Next
    PROVE  StartCovers'
<1>1. PICK c \in Nat : c = Committed
  BY CommittedType
<1>2. PICK d \in Nat : d = Committed'
  BY CommittedType
<1> SUFFICES ASSUME pass' = "start"
             PROVE  d <= spent' /\ (pc' \in Calling => Ahead(d)')
  BY <1>2 DEF StartCovers, Ahead
<1>3. spent \in Nat /\ spent' \in Nat /\ SessionCap \in Nat /\ Budget \in Nat
  BY OrchestratorAssumption DEF TypeOK
<1>4. TotalAcus' = TotalAcus
  BY StartSpendsNothing DEF BudgetInv
<1>5. ~SessionRecorded => d <= c
  <2>1. ~SessionRecorded => d <= c + 0
    BY <1>1, <1>2, <1>4, FreshShrinks, CommittedSteps
  <2> QED
    BY <1>1, <1>2, <2>1
<1>6. SessionRecorded => d <= c + SessionCap
  BY <1>1, <1>2, <1>4, RecordingAddsOne, CommittedSteps
<1>7. pass = "start" => c <= spent /\ (pc \in Calling => Ahead(c))
  BY <1>1 DEF BudgetInv, StartCovers, Ahead
<1>8. CASE PassEnds
  <2>1. pass = "drain"
    BY <1>8 DEF PassEnds, BeginPass, PassAfter
  <2>2. Fresh = {}
    BY <2>1 DEF BudgetInv, PolledElsewhere
  <2>3. c = TotalAcus + SessionCap * 0
    BY <1>1, <2>2, FS_EmptySet DEF Committed
  <2>4. c = TotalAcus
    BY <1>3, <2>3, TotalIsNat
  <2>5. spent' = TotalAcus /\ pc' = "next"
    BY <1>8 DEF PassEnds, BeginPass
  <2>6. ~SessionRecorded
    BY <1>8 DEF PassEnds, SessionRecorded
  <2> QED
    BY <1>5, <2>4, <2>5, <2>6 DEF Calling
<1>9. CASE pass = "start" /\ World
  <2>1. spent' = spent /\ pc' \notin Calling
    BY <1>9 DEF World, Arrive, GraceElapses, SessionAges, PullGoesStale, BetweenHandlers,
       loopVars, Calling
  <2>2. ~SessionRecorded
    BY <1>9 DEF World, Arrive, GraceElapses, SessionAges, PullGoesStale, BetweenHandlers,
       SessionRecorded
  <2> QED
    BY <1>3, <1>5, <1>7, <1>9, <2>1, <2>2
<1>10. CASE pass = "start" /\ StartSessions
  <2>1. ~SessionRecorded
    BY <1>10 DEF StartSessions, StartDeferred, StartOverBudget, ReserveAttempt, FirstQueued,
       SessionRecorded
  <2>2. d <= spent
    BY <1>3, <1>5, <1>7, <1>10, <2>1
  <2>3. CASE StartDeferred \/ StartOverBudget
    <3>1. spent' = spent /\ pc' \notin Calling
      BY <2>3 DEF StartDeferred, StartOverBudget, FirstQueued, CallFlag, Calling
    <3> QED
      BY <2>2, <3>1
  <2>4. ASSUME NEW n \in Issues, ReserveAttempt(n)
        PROVE  d <= spent' /\ Ahead(d)'
    <3>1. spent' = spent + SessionCap /\ spent < Budget
      BY <2>4 DEF ReserveAttempt, Commit, MayStart
    <3> QED
      BY <1>3, <2>2, <3>1 DEF Ahead
  <2> QED
    BY <1>10, <2>3, <2>4 DEF StartSessions
<1>11. CASE /\ pass = "start" /\ UNCHANGED loopVars
            /\ Flag \/ Comment \/ CommentRecorded \/ CreateSession \/ SessionRecorded
  <2>1. spent' = spent /\ c <= spent
    BY <1>7, <1>11 DEF loopVars
  <2>2. CASE SessionRecorded
    <3>1. Ahead(c)
      BY <1>7, <1>11, <2>2 DEF SessionRecorded, Calling
    <3>2. pc' \notin Calling
      BY <2>2, GoesElsewhere DEF SessionRecorded
    <3>3. d <= spent'
      BY <1>3, <1>6, <2>1, <2>2, <3>1 DEF Ahead
    <3> QED
      BY <3>2, <3>3
  <2>3. CASE ~SessionRecorded
    <3>1. pc' \in Calling => pc \in Calling
      <4>1. ASSUME NEW n, ReserveAttempt(n) PROVE spent' = spent + SessionCap /\ pc = "next"
        BY <4>1 DEF ReserveAttempt, Commit, FirstQueued
      <4>2. CreateSession \/ \A n \in Issues : ~ReserveAttempt(n)
        BY <1>11, <2>3, <4>1 DEF Flag, Comment, CommentRecorded
      <4> QED
        BY <4>2, StartsNothingElsewhere DEF StartsNothing, CreateSession, Calling
    <3>2. Ahead(c) => Ahead(d)'
      BY <1>3, <1>5, <2>1, <2>3 DEF Ahead
    <3>3. d <= spent'
      BY <1>3, <1>5, <2>1, <2>3
    <3> QED
      BY <1>7, <1>11, <3>1, <3>2, <3>3
  <2> QED
    BY <2>2, <2>3
<1> QED
  BY <1>8, <1>9, <1>10, <1>11, StartPassActions

\* The pass over the sessions leaves a row out only as it takes it.
LEMMA TrackTakes ==
    ASSUME Next, pass' = "track", ~PassEnds
    PROVE  /\ pass = "track"
           /\ \/ todo' = todo
              \/ \E s \in SessionIds :
                    /\ todo' = todo \ {s}
                    /\ \/ TimeOut(s) \/ PollFails(s)
                       \/ \E o \in Observations : Poll(s, o)
<1>1. pass = "track"
  BY RowsLeftOnly
<1>2. CASE DrainInbox
  BY <1>1, <1>2 DEF DrainInbox, HandleLabeled, HandleCiFailed, HandleReview, HandleReply,
     HandlePullClosed, TakesEvent, Takes, RetryClearsFlag, SupersedeOpenSessions,
     Dispatched, DispatchFailed, loopVars
<1>3. CASE TrackSessions
  <2>1. ASSUME NEW s \in SessionIds,
               TimeOut(s) \/ PollFails(s) \/ \E o \in Observations : Poll(s, o)
        PROVE  todo' = todo \ {s}
    BY <2>1 DEF TimeOut, PollFails, Poll, TakesSession, Takes
  <2> QED
    BY <1>1, <1>3, <2>1 DEF TrackSessions, ActOnPoll, loopVars
<1>4. ~StartSessions /\ ~TickBegins /\ ~RefreshInsights /\ ~Crash
  BY <1>1 DEF StartSessions, StartDeferred, StartOverBudget, ReserveAttempt, FirstQueued,
     TickBegins, RefreshInsights, Crash, BeginPass
<1>5. (\A p \in Pulls : ~TrackPull(p)) /\ \A n \in Issues : ~RecoverIssue(n)
  BY <1>1 DEF TrackPull, TakesPull, RecoverIssue, TakesUnknownIssue, Takes
<1>6. CASE World
  BY <1>1, <1>6 DEF World, Arrive, GraceElapses, SessionAges, PullGoesStale, loopVars
<1>7. CASE EffectSteps /\ UNCHANGED loopVars
  BY <1>1, <1>7 DEF loopVars
<1> QED
  BY <1>2, <1>3, <1>4, <1>5, <1>6, <1>7 DEF Next, Loop

LEMMA TrackPollsKept ==
    ASSUME \A o \in Observations : o.status # None, "get_session" \notin Failing,
           TypeOK, HandlersPass, BudgetInv, Next
    PROVE  TrackPolls'
<1> SUFFICES ASSUME pass' = "track" PROVE Fresh' \subseteq todo'
  BY DEF TrackPolls
<1>1. CASE PassEnds
  <2>1. todo' = Work("track") /\ session' = session
    BY <1>1 DEF PassEnds, BeginPass, storeVars
  <2>2. \A s : session[s].status = None /\ session[s].closed = None => ~IsClosed(session[s])
    BY DEF IsClosed, Liveness, None
  <2> QED
    BY <2>1, <2>2 DEF Work, Fresh, SessionIds
<1>2. CASE ~PassEnds
  <2>1. pass = "track" /\ Fresh \subseteq todo
    BY <1>2, TrackTakes DEF BudgetInv, TrackPolls
  <2>2. ~SessionRecorded
    BY <2>1 DEF SessionRecorded, HandlersPass, Calling
  <2>3. Fresh' \subseteq Fresh
    BY <2>2, FreshOnly
  <2>4. ASSUME NEW s \in SessionIds,
               \/ TimeOut(s) \/ PollFails(s)
               \/ \E o \in Observations : Poll(s, o)
        PROVE  s \notin Fresh'
    <3>1. ASSUME NEW o \in Observations, Poll(s, o) PROVE s \notin Fresh'
      BY <3>1, PollWrites DEF Fresh
    <3>2. CASE TimeOut(s)
      <4>1. session'[s].closed # None
        BY <3>2 DEF TimeOut, CloseSession, TypeOK, StoreTypeOK, SessionRow, None
      <4> QED
        BY <4>1 DEF Fresh
    <3> QED
      BY <2>4, <3>1, <3>2 DEF PollFails
  <2> QED
    BY <1>2, <2>1, <2>3, <2>4, TrackTakes
<1> QED
  BY <1>1, <1>2

LEMMA PolledElsewhereKept ==
    ASSUME \A o \in Observations : o.status # None,
           TypeOK, StartsFresh, HandlersPass, BudgetInv, Next, ~Crash
    PROVE  PolledElsewhere'
<1> SUFFICES ASSUME pass' \notin {"start", "track"} PROVE Fresh' = {}
  BY DEF PolledElsewhere
<1>1. ~SessionRecorded
  BY DEF SessionRecorded, HandlersPass, Calling
<1>2. Fresh' \subseteq Fresh
  BY <1>1, FreshOnly
<1>3. Fresh = {}
  <2>1. CASE pass \notin {"start", "track"}
    BY <2>1 DEF BudgetInv, PolledElsewhere
  <2>2. CASE pass \in {"start", "track"}
    <3>1. PassEnds
      <4>1. ~TickBegins /\ ~RefreshInsights
        BY <2>2 DEF TickBegins, RefreshInsights, TypeOK, HandlerTypeOK
      <4> QED
        BY <2>2, <4>1, QuietStep
    <3>2. pass = "track" /\ todo = {}
      BY <2>2, <3>1 DEF PassEnds, BeginPass, PassAfter
    <3> QED
      BY <3>2 DEF BudgetInv, TrackPolls
  <2> QED
    BY <2>1, <2>2
<1> QED
  BY <1>2, <1>3

\* Nothing is billed any more once what is recorded and what the starts of this tick
\* may spend reach the budget: every session a tick opens is polled in that tick, so
\* the next one finds its spend recorded.  A poll that fails, or a crash before it,
\* leaves a start out of the next count (orchestrator.py:263-298, 345-411).
THEOREM StartsWithinBudget ==
    ASSUME MaxCrashes = 0, "get_session" \notin Failing,
           \A o \in Observations : o.status # None
    PROVE  Spec => BudgetStopsStarts
<1> DEFINE Inv == FinalInv /\ StartsFresh /\ HandlersPass /\ BudgetInv
           Covered == \A s \in SessionIds : billed'[s] # billed[s] => Committed < Budget
<1>1. Init => Inv
  <2> SUFFICES ASSUME Init PROVE Inv
    OBVIOUS
  <2>1. BudgetInv
    BY DEF Init, StoreInit, EffectsInit, NoSession, BudgetInv, BlankSpend, StartCovers,
       TrackPolls, PolledElsewhere, Fresh
  <2>2. StartsFresh /\ HandlersPass
    BY DEF Init, EffectsInit, StartsFresh, HandlersPass, Calling
  <2> QED
    BY <2>1, <2>2, FinalInvInit
<1>2. TypeOK /\ TypeOK' /\ Inv /\ [Next]_vars => Inv'
  <2> SUFFICES ASSUME TypeOK, TypeOK', Inv, [Next]_vars PROVE Inv'
    OBVIOUS
  <2>1. FinalInv' /\ StartsFresh'
    BY FinalInvKept, StartsFreshKept
  <2>2. CASE UNCHANGED vars
    <3>1. Fresh' = Fresh
      BY <2>2 DEF vars, storeVars, Fresh, SessionIds
    <3>2. TotalAcus' = TotalAcus
      BY <2>2, TotalStays DEF vars, storeVars
    <3>3. Committed' = Committed
      BY <3>1, <3>2 DEF Committed
    <3>4. StartCovers'
      BY <2>2, <3>3 DEF vars, loopVars, BudgetInv, StartCovers, Ahead
    <3>5. BlankSpend' /\ TrackPolls' /\ PolledElsewhere'
      BY <2>2, <3>1 DEF vars, storeVars, loopVars, BudgetInv, BlankSpend, TrackPolls,
         PolledElsewhere, SessionIds
    <3>6. HandlersPass'
      BY <2>2 DEF vars, loopVars, HandlersPass
    <3> QED
      BY <2>1, <3>4, <3>5, <3>6 DEF BudgetInv
  <2>3. CASE Next
    <3>1. ~Crash
      BY DEF Crash, TypeOK
    <3>2. BudgetInv'
      BY <2>3, <3>1, BlankSpendKept, StartCoversKept, TrackPollsKept, PolledElsewhereKept
         DEF BudgetInv
    <3> QED
      BY <2>1, <2>3, <3>2, HandlersPassKept
  <2> QED
    BY <2>2, <2>3
<1>3. TypeOK /\ TypeOK' /\ Inv /\ [Next]_vars => Covered
  <2> SUFFICES ASSUME TypeOK, TypeOK', Inv, Next, NEW s \in SessionIds, billed'[s] # billed[s]
               PROVE  Committed < Budget
    BY DEF vars
  <2>1. CreateSession
    <3>1. \A n \in Issues : ReserveAttempt(n) => billed' = billed
      BY DEF ReserveAttempt, history
    <3> QED
      BY <3>1, StartsNothingElsewhere DEF StartsNothing
  <2>2. pc = "create" /\ pass = "start"
    BY <2>1 DEF CreateSession, HandlersPass, Calling
  <2>3. PICK c \in Nat : c = Committed
    BY CommittedType
  <2>4. Ahead(c)
    BY <2>2, <2>3 DEF BudgetInv, StartCovers, Calling
  <2>5. c < Budget
    BY <2>4, OrchestratorAssumption DEF Ahead, TypeOK
  <2> QED
    BY <2>3, <2>5
<1>4. Covered =>
        \A s \in SessionIds :
          billed'[s] # billed[s]
          => TotalAcus + SessionCap *
               Cardinality({t \in SessionIds : session[t].issue # 0
                                /\ session[t].status = None /\ session[t].closed = None})
             < Budget
  BY DEF Committed, Fresh
<1> QED
  BY <1>1, <1>2, <1>3, <1>4, TypeCorrect, PTL DEF Spec, BudgetStopsStarts

-----------------------------------------------------------------------------
(* Earning an escalation                                                   *)

\* A handler that acts on a poll, or delivers an answer, works on the issue of the
\* session at hand.
OwnRow ==
    pc = "act" \/ (pc \in Messaging /\ frame.key[1] = "reply")
    => session[frame.session].issue = frame.issue

LEMMA CallsOnOwnRow ==
    /\ Finish \/ Raise => OwnRow'
    /\ \A n, r : CallFlag(n, r) \/ AfterComment(n, r) => OwnRow'
    /\ \A n, key, r : CallComment(n, key, r) => OwnRow'
    /\ \A s, n, key :
          (key[1] # "reply" \/ session'[s].issue = n) /\ CallSend(s, n, key) => OwnRow'
<1>1. Finish \/ Raise => OwnRow'
  BY DEF Finish, Raise, OwnRow, Messaging
<1>2. \A n, r : CallFlag(n, r) => OwnRow'
  BY DEF CallFlag, OwnRow, Messaging
<1>3. \A n, r : AfterComment(n, r) => OwnRow'
  BY <1>1, <1>2 DEF AfterComment
<1>4. \A n, key, r : CallComment(n, key, r) => OwnRow'
  BY <1>3 DEF CallComment, OwnRow, Messaging
<1>5. ASSUME NEW s, NEW n, NEW key, key[1] # "reply" \/ session'[s].issue = n,
             CallSend(s, n, key)
      PROVE  OwnRow'
  <2>1. pc' = "send" /\ frame'.key = key /\ frame'.session = s /\ frame'.issue = n
    BY <1>5 DEF CallSend, NoFrame
  <2> QED
    BY <1>5, <2>1 DEF OwnRow
<1> QED
  BY <1>1, <1>2, <1>3, <1>4, <1>5

LEMMA EffectsOnOwnRow ==
    ASSUME TypeOK, OwnRow, EffectSteps PROVE OwnRow'
<1>1. CASE Flag \/ CommentRecorded \/ ClearFlag \/ NudgeCounted \/ CiRoundCounted
           \/ SessionRecorded
  BY <1>1, CallsOnOwnRow DEF Flag, CommentRecorded, ClearFlag, NudgeCounted,
     CiRoundCounted, SessionRecorded
<1>2. CASE Comment
  BY <1>2, CallsOnOwnRow DEF Comment, OwnRow, Messaging
<1>3. CASE CreateSession
  BY <1>3, CallsOnOwnRow DEF CreateSession, OwnRow, Messaging
<1>4. CASE SendMessage \/ MessageRecorded
  BY <1>4, CallsOnOwnRow DEF SendMessage, MessageRecorded, storeVars, OwnRow, Messaging
<1>5. CASE MessageStamped
  <2>1. frame.session \in SessionIds /\ session \in [SessionIds -> SessionRow]
    BY <1>5 DEF MessageStamped, TypeOK, StoreTypeOK, HandlerTypeOK
  <2>2. session'[frame.session].issue = session[frame.session].issue
    BY <1>5, <2>1 DEF MessageStamped, MarkMessageSent, SessionRow
  <2>3. pc \in Messaging
    BY <1>5 DEF MessageStamped, Messaging
  <2>4. Finish \/ (pc' = "follow" /\ frame' = frame)
    BY <1>5 DEF MessageStamped
  <2> QED
    BY <2>2, <2>3, <2>4, CallsOnOwnRow DEF OwnRow
<1>6. CASE BudgetsReset
  BY <1>6 DEF BudgetsReset, OwnRow, Messaging
<1> QED
  BY <1>1, <1>2, <1>3, <1>4, <1>5, <1>6 DEF EffectSteps

LEMMA PullsOnOwnRow ==
    /\ \A p, sha : FeedCiFailure(p, sha) => OwnRow'
    /\ \A p : AdvancePull(p) => OwnRow'
<1>1. \A p, sha : FeedCiFailure(p, sha) => OwnRow'
  BY CallsOnOwnRow DEF FeedCiFailure, CallMessage
<1>2. \A p, sha : FeedMergeConflict(p, sha) => OwnRow'
  BY CallsOnOwnRow DEF FeedMergeConflict, CallMessage
<1>3. \A p : SettleMerged(p) \/ SettleClosed(p) \/ WatchPull(p) => OwnRow'
  BY CallsOnOwnRow DEF SettleMerged, SettleClosed, WatchPull, OwnRow, Messaging
<1> QED
  BY <1>1, <1>2, <1>3, CallsOnOwnRow DEF AdvancePull

LEMMA OwnRowKept ==
    ASSUME TypeOK, OwnRow, Next PROVE OwnRow'
<1>1. CASE EffectSteps
  BY <1>1, EffectsOnOwnRow
<1>2. CASE DrainInbox
  <2>1. ASSUME NEW e \in Events, HandleReply(e) PROVE OwnRow'
    <3> DEFINE s == LatestSession(e.issue)
    <3>1. s # 0 => s \in SessionIds /\ session[s].issue = e.issue
      BY LatestIsSession
    <3>2. session' = session
      BY <2>1 DEF HandleReply, storeVars
    <3> HIDE DEF s
    <3> QED
      BY <2>1, <3>1, <3>2, CallsOnOwnRow DEF HandleReply, CallMessage, s
  <2>2. ASSUME NEW e \in Events, HandleCiFailed(e) \/ HandlePullClosed(e)
        PROVE  OwnRow'
    BY <2>2, PullsOnOwnRow, CallsOnOwnRow DEF HandleCiFailed, HandlePullClosed
  <2>3. ASSUME NEW e \in Events, HandleReview(e) PROVE OwnRow'
    BY <2>3, CallsOnOwnRow DEF HandleReview, CallMessage
  <2>4. ASSUME NEW e \in Events, HandleLabeled(e) PROVE OwnRow'
    BY <2>4, CallsOnOwnRow DEF HandleLabeled, RegisterIssueVerified, OwnRow, Messaging
  <2>5. CASE RetryClearsFlag \/ SupersedeOpenSessions \/ Dispatched \/ DispatchFailed
    BY <2>5, CallsOnOwnRow DEF RetryClearsFlag, SupersedeOpenSessions, Dispatched,
       DispatchFailed, OwnRow, Messaging
  <2> QED
    BY <1>2, <2>1, <2>2, <2>3, <2>4, <2>5 DEF DrainInbox
<1>3. CASE StartSessions
  BY <1>3, CallsOnOwnRow DEF StartSessions, StartDeferred, StartOverBudget, ReserveAttempt,
     FirstQueued, OwnRow, Messaging
<1>4. CASE TrackSessions
  <2>1. ASSUME NEW s \in SessionIds, NEW o \in Observations, Poll(s, o) PROVE OwnRow'
    <3>1. session'[s].issue = session[s].issue
      BY <2>1 DEF Poll, RecordPoll, TypeOK, StoreTypeOK, SessionRow
    <3>2. frame'.session = s /\ frame'.issue = session[s].issue
      BY <2>1 DEF Poll, NoFrame
    <3> QED
      BY <3>1, <3>2 DEF OwnRow
  <2>2. ASSUME NEW s \in SessionIds, TimeOut(s) \/ PollFails(s) PROVE OwnRow'
    BY <2>2, CallsOnOwnRow DEF TimeOut, PollFails
  <2>3. \A s, n : HandleBlocked(s, n) => OwnRow'
    BY CallsOnOwnRow DEF HandleBlocked, CallMessage, NudgeKey
  <2>4. ActOnPoll => OwnRow'
    BY <2>3, CallsOnOwnRow DEF ActOnPoll, ActOn, ReportCompletion, FlagEnd
  <2> QED
    BY <1>4, <2>1, <2>2, <2>4 DEF TrackSessions
<1>5. ASSUME NEW n \in Issues, RecoverIssue(n) PROVE OwnRow'
  BY <1>5, CallsOnOwnRow DEF RecoverIssue, RegisterIssueVerified, OwnRow, Messaging
<1>6. ASSUME NEW p \in Pulls, TrackPull(p) PROVE OwnRow'
  BY <1>6, PullsOnOwnRow DEF TrackPull
<1>7. CASE TickBegins \/ PassEnds \/ RefreshInsights \/ Crash
  BY <1>7 DEF TickBegins, PassEnds, RefreshInsights, Crash, BeginPass, OwnRow, Messaging
<1>8. CASE World
  BY <1>8 DEF World, Arrive, GraceElapses, SessionAges, PullGoesStale, BetweenHandlers,
     OwnRow, Messaging
<1> QED
  BY <1>1, <1>2, <1>3, <1>4, <1>5, <1>6, <1>7, <1>8 DEF Next, Loop

\* Nobody asks for a retry: no issue waits for a second attempt, and no handler is in
\* the middle of giving it one.
NoneAskedAgain == \A n \in Issues : ~issue[n].retry
NoneRetries == NoneAskedAgain /\ pc \notin Retrying

LEMMA NoneRetriesKept ==
    ASSUME TypeOK, NoneRetries, NoneAskedAgain', Next PROVE NoneRetries'
<1> SUFFICES ASSUME pc' \in Retrying PROVE FALSE
  BY DEF NoneRetries
<1>1. PICK n \in Issues : RequestRetry(n)
  <2>1. \/ \E e \in Events : HandleLabeled(e)
        \/ \E n \in Issues : RecoverIssue(n)
    BY RetryingSteps DEF NoneRetries
  <2>2. \E n \in Issues : RegisterIssueVerified(n)
    BY <2>1, StoreAssumption DEF HandleLabeled, RecoverIssue, TakesUnknownIssue, Takes
  <2> QED
    BY <2>2 DEF RegisterIssueVerified, Finish, Raise, Retrying
<1>2. issue'[n].retry
  BY <1>1 DEF RequestRetry, TypeOK, StoreTypeOK, IssueRow
<1> QED
  BY <1>2 DEF NoneAskedAgain

\* So an issue is attempted once, and has at most one session.
SessionAlone ==
    /\ \A s, t \in SessionIds :
          session[s].issue # 0 /\ session[s].issue = session[t].issue => s = t
    /\ \A s \in SessionIds : session[s].issue # 0 => issue[session[s].issue].attempts # 0
    /\ pc \in Calling =>
          /\ issue[frame.issue].attempts # 0
          /\ \A s \in SessionIds : session[s].issue # frame.issue

LEMMA AttemptsStand ==
    ASSUME TypeOK, Next, NEW n \in Issues
    PROVE  /\ issue[n].attempts # 0 => issue'[n].attempts # 0
           /\ ReserveAttempt(n) => issue'[n].attempts # 0
<1>1. ASSUME NEW m \in Issues, ReserveAttempt(m)
      PROVE  /\ n = m => issue'[n].attempts # 0
             /\ n # m => issue'[n] = issue[n]
  <2> DEFINE a == issue[m].attempts + 1
  <2>1. issue \in [Issues -> IssueRow]
    BY DEF TypeOK, StoreTypeOK
  <2>2. a # 0
    BY <2>1 DEF IssueRow
  <2>3. issue' = [issue EXCEPT ![m] = [issue[m] EXCEPT !.attempts = a, !.retry = FALSE]]
    BY <1>1, <2>1 DEF ReserveAttempt, BeginAttempt
  <2> HIDE DEF a
  <2> QED
    BY <2>1, <2>2, <2>3 DEF IssueRow
<1>2. ASSUME NEW m \in Issues, Asked(m) PROVE issue'[n].attempts = issue[n].attempts
  BY <1>2, AskingKeeps
<1> QED
  BY <1>1, <1>2, IssueSteps, FlagMovesReason

LEMMA SessionAloneKept ==
    ASSUME TypeOK, LifeInv, NoneRetries, SessionAlone, Next PROVE SessionAlone'
<1>1. \A s \in SessionIds : session[s].issue \in Issues \cup {0}
  BY DEF TypeOK, StoreTypeOK, SessionRow
<1>2. CASE SessionRecorded
  <2>1. /\ pc = "record" /\ pc' \notin Calling /\ issue' = issue
    BY <1>2, GoesElsewhere DEF SessionRecorded
  <2>2. /\ frame.issue \in Issues /\ issue[frame.issue].attempts # 0
        /\ \A s \in SessionIds : session[s].issue # frame.issue
    BY <2>1 DEF SessionAlone, Calling, TypeOK, HandlerTypeOK, InHandler, Steps
  <2>3. \A s \in SessionIds :
           session'[s].issue = IF s = frame.session THEN frame.issue ELSE session[s].issue
    BY <1>2 DEF SessionRecorded, CreateSessionRow, NoSession, TypeOK, StoreTypeOK
  <2>4. ASSUME NEW s \in SessionIds, NEW t \in SessionIds,
               session'[s].issue # 0, session'[s].issue = session'[t].issue
        PROVE  s = t
    BY <2>2, <2>3, <2>4 DEF SessionAlone
  <2>5. ASSUME NEW s \in SessionIds, session'[s].issue # 0
        PROVE  issue'[session'[s].issue].attempts # 0
    BY <2>1, <2>2, <2>3, <2>5 DEF SessionAlone
  <2> QED
    BY <2>1, <2>4, <2>5 DEF SessionAlone, SessionIds
<1>3. CASE ~SessionRecorded
  <2>1. \A s \in SessionIds : session'[s].issue = session[s].issue
    BY <1>3, NextOpensNone DEF NoneOpened, StaysOrCloses
  <2>2. ASSUME NEW s \in SessionIds, session'[s].issue # 0
        PROVE  issue'[session'[s].issue].attempts # 0
    BY <1>1, <2>1, <2>2, AttemptsStand DEF SessionAlone
  <2>3. ASSUME pc' \in Calling
        PROVE  /\ issue'[frame'.issue].attempts # 0
               /\ \A s \in SessionIds : session'[s].issue # frame'.issue
    <3>1. ASSUME NEW n \in Issues, ReserveAttempt(n)
          PROVE  /\ issue'[frame'.issue].attempts # 0
                 /\ \A s \in SessionIds : session'[s].issue # frame'.issue
      <4>1. frame'.issue = n /\ pass = "start" /\ n \in todo
        BY <3>1 DEF ReserveAttempt, FirstQueued, NoFrame
      <4>2. issue[n].attempts = 0
        BY <4>1 DEF LifeInv, PassWants, WantsSession, NoneRetries, NoneAskedAgain
      <4>3. n # 0
        BY StoreAssumption
      <4>4. \A s \in SessionIds : session[s].issue # n
        BY <4>2, <4>3 DEF SessionAlone
      <4> QED
        BY <2>1, <3>1, <4>1, <4>4, AttemptsStand
    <3>2. CASE CreateSession
      <4>1. pc \in Calling /\ issue' = issue /\ frame'.issue = frame.issue
        <5>1. pc' = "record"
          BY <2>3, <3>2, GoesElsewhere DEF CreateSession
        <5>2. frame'.issue = frame.issue
          BY <3>2, <5>1 DEF CreateSession, CallFlag, TypeOK, HandlerTypeOK, Frame
        <5> QED
          BY <3>2, <5>2 DEF CreateSession, storeVars, Calling
      <4> QED
        BY <2>1, <4>1 DEF SessionAlone
    <3> QED
      BY <2>3, <3>1, <3>2, StartsNothingElsewhere DEF StartsNothing
  <2> QED
    BY <2>1, <2>2, <2>3 DEF SessionAlone, SessionIds
<1> QED
  BY <1>2, <1>3

\* Every nudge that is counted has reached Devin.
NudgesReceived ==
    \A s \in SessionIds : \A k \in 1 .. session[s].nudges : <<"nudge", s, k>> \in sent

LEMMA NudgesReceivedKept ==
    ASSUME TypeOK, KeysInv, NudgesReceived, Next PROVE NudgesReceived'
<1> SUFFICES ASSUME NEW s \in SessionIds, NEW k \in 1 .. session'[s].nudges
             PROVE  <<"nudge", s, k>> \in sent'
  BY Zenon DEF NudgesReceived, SessionIds
<1>1. sent \subseteq sent'
  BY KeySteps DEF SendMessage, Received
<1>2. session \in [SessionIds -> SessionRow]
  BY DEF TypeOK, StoreTypeOK
<1>3. CASE session'[s].nudges = session[s].nudges
  BY <1>1, <1>3 DEF NudgesReceived
<1>4. CASE SessionRecorded
  <2>1. session'[s].nudges = session[s].nudges \/ session'[s].nudges = 0
    BY <1>2, <1>4 DEF SessionRecorded, CreateSessionRow, NoSession
  <2> QED
    BY <1>3, <2>1
<1>5. CASE NudgeCounted /\ s = frame.session
  <2>1. pc = "follow" /\ frame.key = NudgeKey(s) /\ frame.key \in sent
    BY <1>5 DEF NudgeCounted, KeysInv, NudgeUnderWay, KeyUnderWay, Messaging
  <2> DEFINE c == session[s].nudges
             b == c + 1
  <2>2. c \in Nat /\ frame.key = <<"nudge", s, b>>
    BY <1>2, <2>1 DEF SessionRow, NudgeKey
  <2>3. session' = [session EXCEPT ![s] = [session[s] EXCEPT !.nudges = b]]
    BY <1>2, <1>5 DEF NudgeCounted, BumpNudges
  <2>4. session'[s].nudges = b
    <3> HIDE DEF b
    <3> QED
      BY <1>2, <2>3 DEF SessionRow
  <2>5. k \in 1 .. c \/ k = b
    BY <2>2, <2>4
  <2> QED
    BY <1>1, <2>1, <2>2, <2>5 DEF NudgesReceived
<1>6. BudgetsReset => session'[s].nudges = session[s].nudges
  <2> DEFINE r == frame.session
             v == session[r].nudges
  <2>1. BudgetsReset => session' = [session EXCEPT ![r].nudge_base = v]
    BY DEF BudgetsReset, ResetBudgets
  <2> HIDE DEF r, v
  <2> QED
    BY <1>2, <2>1 DEF SessionRow
<1>7. CountersSame(s) => session'[s].nudges = session[s].nudges
  BY DEF CountersSame
<1>8. ~SessionRecorded =>
         \/ CountersSame(s)
         \/ s = frame.session /\ (NudgeCounted \/ BudgetsReset)
  BY ColumnsStay
<1> QED
  BY <1>3, <1>4, <1>5, <1>6, <1>7, <1>8, Zenon

\* What a person is asked about a blocked session: the announcement under way, and
\* where one comes from.
Merged(n) == \E p \in Pulls : pull[p].issue = n /\ pull[p].merged
Asking == "blocked_on_question"
Escalation(n) == <<"flag", n, Asking, issue[n].episode>>
Escalating ==
    \/ pc = "flag" /\ frame.reason = Asking
    \/ pc \in Commenting /\ frame.key[1] = "flag" /\ frame.key[3] = Asking
OwedLater == pc \in Commenting => frame.reason # Asking
Quiet == pc' \in {"flag"} \cup Commenting => frame'.reason # Asking

LEMMA CallsQuiet ==
    /\ Finish \/ Raise => Quiet
    /\ \A n, r : r # Asking /\ CallFlag(n, r) => Quiet
    /\ \A n, r : r # Asking /\ AfterComment(n, r) => Quiet
    /\ \A n, key, r : r # Asking /\ CallComment(n, key, r) => Quiet
    /\ \A s, n, key : CallSend(s, n, key) => Quiet
<1>1. Finish \/ Raise => Quiet
  BY DEF Finish, Raise, Quiet, Commenting
<1>2. \A n, r : r # Asking /\ CallFlag(n, r) => Quiet
  BY DEF CallFlag, NoFrame, Quiet
<1>3. \A n, r : r # Asking /\ AfterComment(n, r) => Quiet
  BY <1>1, <1>2 DEF AfterComment
<1>4. \A n, key, r : r # Asking /\ CallComment(n, key, r) => Quiet
  BY <1>3 DEF CallComment, NoFrame, Quiet
<1>5. \A s, n, key : CallSend(s, n, key) => Quiet
  BY DEF CallSend, Quiet, Commenting
<1> QED
  BY <1>1, <1>2, <1>3, <1>4, <1>5

LEMMA EffectsQuiet ==
    ASSUME OwedLater, EffectSteps PROVE Quiet
<1>1. CASE Flag
  BY <1>1, CallsQuiet DEF Flag, None, Asking
<1>2. CASE ClearFlag \/ NudgeCounted \/ CiRoundCounted \/ SessionRecorded
  BY <1>2, CallsQuiet DEF ClearFlag, NudgeCounted, CiRoundCounted, SessionRecorded, None, Asking
<1>3. CASE Comment \/ CommentRecorded
  <2>1. frame.reason # Asking
    BY <1>3 DEF Comment, CommentRecorded, OwedLater, Commenting
  <2>2. CASE frame' = frame
    BY <2>1, <2>2 DEF Quiet
  <2> QED
    BY <1>3, <2>1, <2>2, CallsQuiet DEF Comment, CommentRecorded
<1>4. CASE CreateSession
  BY <1>4, CallsQuiet DEF CreateSession, Quiet, Commenting, Asking
<1>5. CASE SendMessage \/ MessageRecorded \/ MessageStamped \/ BudgetsReset
  BY <1>5, CallsQuiet DEF SendMessage, MessageRecorded, MessageStamped, BudgetsReset,
     Quiet, Commenting
<1> QED
  BY <1>1, <1>2, <1>3, <1>4, <1>5 DEF EffectSteps

LEMMA PullsQuiet ==
    /\ \A p, sha : FeedCiFailure(p, sha) => Quiet
    /\ \A p : AdvancePull(p) => Quiet
<1>1. \A p, sha : FeedCiFailure(p, sha) => Quiet
  BY CallsQuiet DEF FeedCiFailure, CallMessage, Asking
<1>2. \A p, sha : FeedMergeConflict(p, sha) => Quiet
  BY CallsQuiet DEF FeedMergeConflict, CallMessage, Asking
<1>3. \A p : SettleMerged(p) \/ SettleClosed(p) \/ WatchPull(p) => Quiet
  BY CallsQuiet DEF SettleMerged, SettleClosed, WatchPull, Quiet, Commenting, Asking
<1> QED
  BY <1>1, <1>2, <1>3, CallsQuiet DEF AdvancePull

LEMMA AsksAboutBlocked ==
    ASSUME OwedLater, Next
    PROVE  \/ Quiet
           \/ /\ ActOnPoll /\ ~Terminal(frame.issue) /\ ~NudgeAllowed(frame.session)
              /\ CallFlag(frame.issue, Asking)
<1>1. CASE EffectSteps
  BY <1>1, EffectsQuiet
<1>2. CASE DrainInbox
  <2>1. ASSUME NEW e \in Events, HandleReply(e) PROVE Quiet
    <3> DEFINE s == LatestSession(e.issue)
    <3> HIDE DEF s
    <3> QED
      BY <2>1, CallsQuiet DEF HandleReply, CallMessage, s, None, Asking
  <2>2. ASSUME NEW e \in Events, HandleCiFailed(e) \/ HandlePullClosed(e) PROVE Quiet
    BY <2>2, PullsQuiet, CallsQuiet DEF HandleCiFailed, HandlePullClosed
  <2>3. ASSUME NEW e \in Events, HandleReview(e) PROVE Quiet
    BY <2>3, CallsQuiet DEF HandleReview, CallMessage, None, Asking
  <2>4. ASSUME NEW e \in Events, HandleLabeled(e) PROVE Quiet
    BY <2>4, CallsQuiet DEF HandleLabeled, RegisterIssueVerified, Quiet, Commenting
  <2>5. CASE RetryClearsFlag \/ SupersedeOpenSessions \/ Dispatched \/ DispatchFailed
    BY <2>5, CallsQuiet DEF RetryClearsFlag, SupersedeOpenSessions, Dispatched,
       DispatchFailed, Quiet, Commenting, Asking
  <2> QED
    BY <1>2, <2>1, <2>2, <2>3, <2>4, <2>5 DEF DrainInbox
<1>3. CASE StartSessions
  BY <1>3, CallsQuiet DEF StartSessions, StartDeferred, StartOverBudget, ReserveAttempt,
     FirstQueued, Quiet, Commenting, Asking
<1>4. ASSUME NEW s \in SessionIds, TimeOut(s) \/ PollFails(s) PROVE Quiet
  BY <1>4, CallsQuiet DEF TimeOut, PollFails, Asking
<1>5. ASSUME NEW s \in SessionIds, NEW o \in Observations, Poll(s, o) PROVE Quiet
  BY <1>5 DEF Poll, Quiet, Commenting
<1>6. ASSUME ActOnPoll
      PROVE  \/ Quiet
             \/ /\ ~Terminal(frame.issue) /\ ~NudgeAllowed(frame.session)
                /\ CallFlag(frame.issue, Asking)
  <2> DEFINE s == frame.session
             n == frame.issue
             o == frame.poll
  <2>1. ActOn(s, n, o)
    BY <1>6 DEF ActOnPoll
  <2> HIDE DEF s, n, o
  <2>2. ReportCompletion(s, n, o) => Quiet
    BY CallsQuiet DEF ReportCompletion, None, Asking
  <2>3. \A r : FlagEnd(n, r) => Quiet
    BY CallsQuiet DEF FlagEnd, Asking
  <2>4. HandleBlocked(s, n) => Quiet \/ (~NudgeAllowed(s) /\ CallFlag(n, Asking))
    BY CallsQuiet DEF HandleBlocked, CallMessage, Asking
  <2>5. Quiet \/ (~Terminal(n) /\ ~NudgeAllowed(s) /\ CallFlag(n, Asking))
    BY <2>1, <2>2, <2>3, <2>4, CallsQuiet DEF ActOn
  <2> QED
    BY <2>5 DEF s, n
<1>7. ASSUME NEW n \in Issues, RecoverIssue(n) PROVE Quiet
  BY <1>7, CallsQuiet DEF RecoverIssue, RegisterIssueVerified, Quiet, Commenting
<1>8. ASSUME NEW p \in Pulls, TrackPull(p) PROVE Quiet
  BY <1>8, PullsQuiet DEF TrackPull
<1>9. CASE TickBegins \/ PassEnds \/ RefreshInsights \/ Crash
  BY <1>9 DEF TickBegins, PassEnds, RefreshInsights, Crash, BeginPass, Quiet, Commenting
<1>10. CASE World
  BY <1>10 DEF World, Arrive, GraceElapses, SessionAges, PullGoesStale, BetweenHandlers,
     Quiet, Commenting
<1> QED
  BY <1>1, <1>2, <1>3, <1>4, <1>5, <1>6, <1>7, <1>8, <1>9, <1>10
     DEF Next, Loop, TrackSessions

LEMMA MergedStays ==
    ASSUME TypeOK, Next, NEW n, n # 0, Merged(n) PROVE Merged(n)'
<1>1. MergesStand
  BY NextKeepsMerges
<1>2. PICK p \in Pulls : pull[p].issue = n /\ pull[p].merged
  BY DEF Merged
<1>3. pull'[p].issue = n /\ pull'[p].merged
  BY <1>1, <1>2 DEF MergesStand
<1> QED
  BY <1>3 DEF Merged

LEMMA TerminalIsMerged ==
    ASSUME NEW n PROVE Terminal(n) <=> Merged(n)
<1>1. Terminal(n) <=> \E row \in {pull[p] : p \in PullsOf(n)} : row.merged
  BY DEF Terminal, StatusOf, IssueStatus
<1>2. (\E row \in {pull[p] : p \in PullsOf(n)} : row.merged) <=> Merged(n)
  BY DEF PullsOf, Merged
<1> QED
  BY <1>1, <1>2

\* A person is asked while the issue is open, after MAX_NUDGES nudges nobody answered;
\* the announcement that follows is a new one, of the flag that stands.
NudgedOut(n) ==
    \E s \in SessionIds :
        session[s].issue = n /\ session[s].nudges - session[s].nudge_base >= MaxNudges
EscalationDue ==
    Escalating =>
        /\ ~Merged(frame.issue) /\ NudgedOut(frame.issue)
        /\ pc # "flag" => /\ frame.key = Escalation(frame.issue) /\ frame.key \notin done
                          /\ issue[frame.issue].reason # None

LEMMA FlagEscalates ==
    ASSUME TypeOK, Flag, pc' \in Commenting, frame'.key[3] = Asking,
           NEW n, n = frame.issue
    PROVE  /\ frame.reason = Asking /\ frame'.issue = n
           /\ frame'.key = <<"flag", n, Asking, issue'[n].episode>>
           /\ frame'.key \notin done' /\ issue'[n].reason # None
<1> DEFINE k == EpisodeOf(n)
<1>1. issue \in [Issues -> IssueRow] /\ n \in Issues
  BY DEF Flag, TypeOK, StoreTypeOK, HandlerTypeOK, InHandler, Steps
<1>2. /\ frame'.key = <<"flag", n, frame.reason, k>> /\ FlagIsNews(n, frame.reason)
      /\ frame'.key \notin done
  BY FlagTurnsToComment DEF FlagKey
<1>3. issue' = [issue EXCEPT ![n].episode = k, ![n].reason = frame.reason]
  BY <1>2 DEF Flag, FlagForHuman
<1>4. done' = done
  BY DEF Flag
<1>5. frame'.issue = n
  BY DEF Flag, CallComment, AfterComment, Finish, NoFrame, Commenting
<1> HIDE DEF k
<1>6. issue'[n].episode = k /\ issue'[n].reason = frame.reason
  BY <1>1, <1>3 DEF IssueRow
<1> QED
  BY <1>2, <1>4, <1>5, <1>6 DEF Asking, None

LEMMA EscalationDueKept ==
    ASSUME TypeOK, OwnRow, OwedLater, EscalationDue, Next PROVE EscalationDue'
<1> SUFFICES ASSUME Escalating', NEW m, m = frame'.issue
             PROVE  /\ ~Merged(m)' /\ NudgedOut(m)'
                    /\ pc' # "flag" =>
                          /\ frame'.key = <<"flag", m, Asking, issue'[m].episode>>
                          /\ frame'.key \notin done' /\ issue'[m].reason # None
  BY DEF EscalationDue, Escalation, Merged, NudgedOut
<1>1. CASE pc' = "flag"
  <2>1. frame'.reason = Asking
    BY <1>1 DEF Escalating, Commenting
  <2>2. /\ ActOnPoll /\ ~Terminal(frame.issue) /\ ~NudgeAllowed(frame.session)
        /\ frame'.issue = frame.issue
    BY <1>1, <2>1, AsksAboutBlocked DEF Quiet, CallFlag, NoFrame
  <2> DEFINE s == frame.session
             n == frame.issue
  <2>3. pc = "act" /\ s \in SessionIds /\ session' = session
    BY <2>2 DEF ActOnPoll, TypeOK, HandlerTypeOK
  <2>4. session[s].issue = n
    BY <2>3 DEF OwnRow
  <2>5. session[s].nudges - session[s].nudge_base >= MaxNudges
    <3>1. /\ session[s].nudges \in Nat /\ session[s].nudge_base \in Nat
          /\ MaxNudges \in Nat
      BY <2>3, OrchestratorAssumption DEF TypeOK, StoreTypeOK, SessionRow
    <3>2. ~(session[s].nudges - session[s].nudge_base < MaxNudges)
      BY <2>2 DEF NudgeAllowed
    <3> QED
      BY <3>1, <3>2
  <2>6. \A p \in Pulls : pull'[p] = pull[p] \/ ~pull'[p].merged
    BY <2>2 DEF ActOnPoll, UpsertPulls, NoPull
  <2>7. ~Merged(n)
    BY <2>2, TerminalIsMerged
  <2>8. m = n
    BY <2>2
  <2> HIDE DEF s, n
  <2>9. ~Merged(m)' /\ NudgedOut(m)'
    BY <2>3, <2>4, <2>5, <2>6, <2>7, <2>8 DEF Merged, NudgedOut
  <2> QED
    BY <1>1, <2>9
<1>2. CASE pc' # "flag"
  <2>1. pc' \in Commenting /\ frame'.key[1] = "flag" /\ frame'.key[3] = Asking
    BY <1>2 DEF Escalating
  <2>2. CASE Flag
    <3> DEFINE n == frame.issue
    <3>1. /\ frame.reason = Asking /\ frame'.issue = n
          /\ frame'.key = <<"flag", n, Asking, issue'[n].episode>>
          /\ frame'.key \notin done' /\ issue'[n].reason # None
      BY <2>1, <2>2, FlagEscalates
    <3>2. ~Merged(n) /\ NudgedOut(n)
      BY <2>2, <3>1 DEF EscalationDue, Escalating, Flag
    <3>3. session' = session /\ pull' = pull
      BY <2>2 DEF Flag
    <3> HIDE DEF n
    <3> QED
      BY <3>1, <3>2, <3>3 DEF Merged, NudgedOut
  <2>3. CASE Comment /\ UNCHANGED frame
    <3>1. pc \in Commenting /\ UNCHANGED <<issue, session, pull, done>>
      BY <2>3 DEF Comment, Commenting, storeVars
    <3>2. /\ ~Merged(frame.issue) /\ NudgedOut(frame.issue)
          /\ frame.key = Escalation(frame.issue) /\ frame.key \notin done
          /\ issue[frame.issue].reason # None
      BY <2>1, <2>3, <3>1 DEF EscalationDue, Escalating, Commenting
    <3> QED
      BY <2>3, <3>1, <3>2 DEF Merged, NudgedOut, Escalation
  <2>4. ~Notifies
    BY <2>1 DEF Notifies, Notices
  <2> QED
    BY <2>2, <2>3, <2>4, NoticeSteps
<1> QED
  BY <1>1, <1>2

\* The invariant: for every announcement MAX_NUDGES nudges were counted before the
\* base the next ones are counted from, once nothing of the last announcement is open:
\* its flag is down, and no merge has ended the matter.
Escalated(n) == Cardinality(EscalationsOf(n))
Warranted(n, count) == MaxNudges * Escalated(n) <= count
EarnedBy(n) ==
    /\ (\A s \in SessionIds : session[s].issue # n) => EscalationsOf(n) = {}
    /\ \A s \in SessionIds :
          session[s].issue = n =>
              /\ Warranted(n, session[s].nudges)
              /\ \/ Warranted(n, session[s].nudge_base)
                 \/ Merged(n)
                 \/ issue[n].reason # None /\ Escalation(n) \in done
ClearsEarned ==
    pc = "clear" =>
        \/ Merged(frame.issue)
        \/ \A s \in SessionIds :
              session[s].issue = frame.issue
              => Warranted(frame.issue, session[s].nudge_base)
EarnInv ==
    /\ OwnRow /\ NoneRetries /\ SessionAlone /\ NudgesReceived /\ MessageUnderWay
    /\ OwedLater /\ EscalationDue /\ ClearsEarned
    /\ \A n \in Issues : EarnedBy(n)

LEMMA EscalatedType ==
    ASSUME KeysFinite, NEW n
    PROVE  IsFiniteSet(EscalationsOf(n)) /\ Escalated(n) \in Nat
<1>1. EscalationsOf(n) \subseteq done
  BY DEF EscalationsOf
<1>2. IsFiniteSet(EscalationsOf(n))
  BY <1>1, FS_Subset DEF KeysFinite
<1> QED
  BY <1>2, FS_CardinalityType DEF Escalated

LEMMA EscalationSteps ==
    ASSUME MessageUnderWay, Next, NEW n
    PROVE  \/ EscalationsOf(n)' = EscalationsOf(n)
           \/ /\ CommentRecorded /\ frame.key[1] = "flag" /\ frame.key[2] = n
              /\ frame.key[3] = Asking
              /\ EscalationsOf(n)' = EscalationsOf(n) \cup {frame.key}
<1>1. MessageRecorded => frame.key[1] # "flag"
  BY DEF MessageRecorded, MessageUnderWay, Messaging
<1>2. done' = done => EscalationsOf(n)' = EscalationsOf(n)
  BY DEF EscalationsOf
<1>3. ASSUME done' = done \cup {frame.key}
      PROVE  IF /\ frame.key[1] = "flag" /\ frame.key[2] = n /\ frame.key[3] = Asking
             THEN EscalationsOf(n)' = EscalationsOf(n) \cup {frame.key}
             ELSE EscalationsOf(n)' = EscalationsOf(n)
  BY <1>3 DEF EscalationsOf, Asking
<1> QED
  BY <1>1, <1>2, <1>3, KeySteps

LEMMA ClearsEarnedKept ==
    ASSUME TypeOK, EarnInv, Next PROVE ClearsEarned'
<1> SUFFICES ASSUME pc' = "clear", NEW n, n = frame'.issue
             PROVE  \/ Merged(n)'
                    \/ \A s \in SessionIds :
                          session'[s].issue = n
                          => MaxNudges * Escalated(n)' <= session'[s].nudge_base
  BY DEF ClearsEarned, Warranted
<1>1. CASE BudgetsReset
  <2> DEFINE r == frame.session
  <2>1. /\ r \in SessionIds /\ n = frame.issue /\ n \in Issues
        /\ session[r].issue = n
    BY <1>1 DEF BudgetsReset, TypeOK, HandlerTypeOK, InHandler, Steps, EarnInv, OwnRow,
       Messaging
  <2>2. \A s \in SessionIds : session'[s].issue = session[s].issue
    <3>1. ~SessionRecorded
      BY <1>1 DEF BudgetsReset, SessionRecorded
    <3> QED
      BY <3>1, NextOpensNone DEF NoneOpened, StaysOrCloses
  <2>3. session'[r].nudge_base = session[r].nudges
    BY <1>1, <2>1 DEF BudgetsReset, ResetBudgets, TypeOK, StoreTypeOK, SessionRow
  <2>4. EscalationsOf(n)' = EscalationsOf(n)
    BY <1>1 DEF BudgetsReset, EscalationsOf
  <2>5. Warranted(n, session[r].nudges)
    BY <2>1 DEF EarnInv, EarnedBy
  <2> HIDE DEF r
  <2>6. MaxNudges * Escalated(n)' <= session'[r].nudge_base
    BY <2>3, <2>4, <2>5 DEF Warranted, Escalated
  <2>7. ASSUME NEW s \in SessionIds, session'[s].issue = n PROVE s = r
    BY <2>1, <2>2, <2>7, StoreAssumption DEF EarnInv, SessionAlone
  <2> QED
    BY <2>6, <2>7
<1>2. ASSUME NEW p, KnownPull(p), ~pull[p].merged, SettleMerged(p) PROVE Merged(n)'
  <2>1. pull' = [pull EXCEPT ![p].merged = TRUE] /\ n = pull[p].issue
    BY <1>2 DEF SettleMerged, MarkMerged, NoFrame
  <2>2. pull'[p].merged /\ pull'[p].issue = pull[p].issue /\ p \in Pulls
    BY <1>2, <2>1 DEF KnownPull, TypeOK, StoreTypeOK, PullRow
  <2> QED
    BY <2>1, <2>2 DEF Merged
<1> QED
  BY <1>1, <1>2, ClearComesFrom

\* An announcement: the session was nudged out, and nothing of the one before is open.
LEMMA AnnouncedEarned ==
    ASSUME TypeOK, KeysInv, EarnInv, CommentRecorded, frame.key[1] = "flag",
           frame.key[3] = Asking, NEW n \in Issues, frame.key[2] = n,
           EscalationsOf(n)' = EscalationsOf(n) \cup {frame.key}
    PROVE  EarnedBy(n)'
<1> DEFINE E == Escalated(n)
           w == MaxNudges * E
<1>1. /\ ~Merged(frame.issue) /\ NudgedOut(frame.issue)
      /\ frame.key = Escalation(frame.issue) /\ frame.key \notin done
      /\ issue[frame.issue].reason # None
  BY DEF EarnInv, EscalationDue, Escalating, CommentRecorded, Commenting
<1>2. frame.issue = n /\ Escalation(n) \notin done /\ frame.key = Escalation(n)
  BY <1>1 DEF Escalation
<1>3. PICK s \in SessionIds :
         session[s].issue = n /\ session[s].nudges - session[s].nudge_base >= MaxNudges
  BY <1>1, <1>2 DEF NudgedOut
<1>4. UNCHANGED <<issue, session, pull>> /\ done' = done \cup {Escalation(n)}
  BY <1>2 DEF CommentRecorded, MarkDone
<1>5. \A t \in SessionIds : session'[t].issue = n => t = s
  BY <1>3, <1>4, StoreAssumption DEF EarnInv, SessionAlone
<1>6. MaxNudges * Escalated(n)' <= session[s].nudges
  <2>1. w <= session[s].nudge_base
    BY <1>1, <1>2, <1>3 DEF EarnInv, EarnedBy, Warranted
  <2>2. /\ MaxNudges \in Nat /\ E \in Nat
        /\ session[s].nudges \in Nat /\ session[s].nudge_base \in Nat
    BY EscalatedType, OrchestratorAssumption DEF KeysInv, TypeOK, StoreTypeOK, SessionRow
  <2>3. Escalated(n)' = E + 1
    <3>1. Escalated(n)' = Cardinality(EscalationsOf(n) \cup {frame.key})
      BY DEF Escalated
    <3>2. frame.key \notin EscalationsOf(n)
      BY <1>1 DEF EscalationsOf
    <3>3. IsFiniteSet(EscalationsOf(n))
      BY EscalatedType DEF KeysInv
    <3>4. Cardinality(EscalationsOf(n) \cup {frame.key}) = Cardinality(EscalationsOf(n)) + 1
      BY <3>2, <3>3, FS_AddElement
    <3> QED
      BY <3>1, <3>4 DEF Escalated
  <2>4. MaxNudges * (E + 1) = w + MaxNudges /\ w \in Nat
    BY <2>2, Times
  <2> HIDE DEF E, w
  <2>5. w + MaxNudges <= session[s].nudges
    BY <1>3, <2>1, <2>2, <2>4
  <2> QED
    BY <2>3, <2>4, <2>5
<1>7. issue'[n].reason # None /\ Escalation(n)' \in done'
  BY <1>1, <1>2, <1>4 DEF Escalation
<1> QED
  BY <1>3, <1>4, <1>5, <1>6, <1>7 DEF EarnedBy, Warranted

\* Without one, what was counted stays counted.
LEMMA CountedEarned ==
    ASSUME TypeOK, FinalInv, LifeInv, KeysInv, EarnInv, Next, NEW n \in Issues,
           EscalationsOf(n)' = EscalationsOf(n), NEW s \in SessionIds,
           session[s].issue = n
    PROVE  /\ Warranted(n, session[s].nudges)'
           /\ \/ Warranted(n, session[s].nudge_base)'
              \/ Merged(n)'
              \/ issue'[n].reason # None /\ Escalation(n)' \in done'
<1> DEFINE w == MaxNudges * Escalated(n)
           x == session[s].nudges
           b == session[s].nudge_base
<1>1. n # 0
  BY StoreAssumption
<1>2. /\ w <= x
      /\ w <= b \/ Merged(n) \/ (issue[n].reason # None /\ Escalation(n) \in done)
  BY DEF EarnInv, EarnedBy, Warranted
<1>3. MaxNudges * Escalated(n)' = w
  BY DEF Escalated
<1>4. w \in Nat /\ x \in Nat /\ b \in Nat
  <2>1. MaxNudges \in Nat /\ Escalated(n) \in Nat
    BY EscalatedType, OrchestratorAssumption DEF KeysInv
  <2> QED
    BY <2>1, Times DEF TypeOK, StoreTypeOK, SessionRow
<1>5. x' = x \/ x' = x + 1
  BY <1>1, CounterSteps DEF CountersSame, KeysInv, BlankCounters
<1>6. b' = b \/ b' = x
  BY <1>1, CounterSteps DEF CountersSame
<1>7. w <= x'
  <2> HIDE DEF w, x
  <2> QED
    BY <1>2, <1>4, <1>5
<1>8. w <= b => w <= b'
  BY <1>2, <1>6
<1>9. Merged(n) => Merged(n)'
  BY <1>1, MergedStays
<1>10. ASSUME issue[n].reason # None, Escalation(n) \in done
       PROVE  w <= b' \/ Merged(n)' \/ (issue'[n].reason # None /\ Escalation(n)' \in done')
  <2>1. Escalation(n) \in done'
    BY <1>10, KeySteps
  <2>2. CASE issue'[n].reason # None /\ issue'[n].episode = issue[n].episode
    BY <2>1, <2>2 DEF Escalation
  <2>3. CASE Flag /\ n = frame.issue
    <3>1. issue[n].known
      BY <1>10 DEF LifeInv, UnknownBlank
    <3>2. issue'[n].reason # None
      BY <2>3, <3>1, RaisesReason
    <3>3. issue'[n].episode = issue[n].episode
      <4>1. EpisodeOf(n) = issue[n].episode
        BY <1>10 DEF EpisodeOf
      <4>2. issue' = issue \/ issue' = [issue EXCEPT ![n].episode = EpisodeOf(n),
                                                     ![n].reason = frame.reason]
        BY <2>3 DEF Flag, FlagForHuman
      <4> QED
        BY <4>1, <4>2 DEF TypeOK, StoreTypeOK, IssueRow
    <3> QED
      BY <2>2, <3>2, <3>3
  <2>4. CASE ClearFlag /\ n = frame.issue
    <3>1. session' = session
      BY <2>4 DEF ClearFlag
    <3>2. Merged(n) \/ w <= b
      BY <2>4 DEF ClearFlag, EarnInv, ClearsEarned, Warranted
    <3> QED
      BY <1>9, <3>1, <3>2
  <2>5. ~RetryClearsFlag
    BY DEF RetryClearsFlag, EarnInv, NoneRetries, Retrying
  <2>6. CASE ~Flag /\ ~ClearFlag
    BY <1>10, <2>2, <2>5, <2>6, FlagSteps
  <2>7. CASE (Flag \/ ClearFlag) /\ n # frame.issue
    <3>1. issue' = issue \/ FlagMoved
      <4>1. pc # "next"
        BY <2>7 DEF Flag, ClearFlag
      <4> QED
        BY <4>1, IssueSteps DEF Asked, ReserveAttempt, FirstQueued
    <3> QED
      BY <1>10, <2>2, <2>7, <3>1, FlagMovesReason
  <2> QED
    BY <2>3, <2>4, <2>6, <2>7
<1> HIDE DEF w
<1>11. Warranted(n, x)' /\ (w <= b' => Warranted(n, b)')
  BY <1>3, <1>7 DEF Warranted
<1> QED
  BY <1>2, <1>8, <1>9, <1>10, <1>11

LEMMA EarnedByKept ==
    ASSUME TypeOK, FinalInv, LifeInv, KeysInv, EarnInv, Next, NEW n \in Issues
    PROVE  EarnedBy(n)'
<1>1. CASE /\ CommentRecorded /\ frame.key[1] = "flag" /\ frame.key[2] = n
           /\ frame.key[3] = Asking
           /\ EscalationsOf(n)' = EscalationsOf(n) \cup {frame.key}
  BY <1>1, AnnouncedEarned
<1>2. CASE EscalationsOf(n)' = EscalationsOf(n)
  <2>1. n # 0
    BY StoreAssumption
  <2>2. ASSUME \A s \in SessionIds : session'[s].issue # n
        PROVE  EscalationsOf(n)' = {}
    <3>1. \A s \in SessionIds : session[s].issue # n
      BY <2>1, <2>2, RowsStay
    <3> QED
      BY <1>2, <3>1 DEF EarnInv, EarnedBy
  <2>3. ASSUME NEW s \in SessionIds, session'[s].issue = n
        PROVE  /\ Warranted(n, session[s].nudges)'
               /\ \/ Warranted(n, session[s].nudge_base)'
                  \/ Merged(n)'
                  \/ issue'[n].reason # None /\ Escalation(n)' \in done'
    <3>1. CASE session[s].issue = n
      BY <1>2, <3>1, CountedEarned
    <3>2. CASE session[s].issue # n
      <4>1. SessionRecorded /\ s = frame.session /\ n = frame.issue
        <5>1. SessionRecorded
          BY <2>3, <3>2, NextOpensNone DEF NoneOpened, StaysOrCloses
        <5>2. session' = [session EXCEPT ![frame.session] = session'[frame.session]]
              /\ session'[frame.session].issue = frame.issue
          BY <5>1 DEF SessionRecorded, CreateSessionRow, NoSession, TypeOK, StoreTypeOK,
             HandlerTypeOK
        <5> QED
          BY <2>3, <3>2, <5>1, <5>2 DEF TypeOK, StoreTypeOK
      <4>2. EscalationsOf(n) = {}
        BY <4>1 DEF EarnInv, SessionAlone, SessionRecorded, EarnedBy, Calling
      <4>3. Escalated(n)' = 0
        BY <1>2, <4>2, FS_EmptySet DEF Escalated
      <4>4. MaxNudges * 0 = 0
        BY OrchestratorAssumption
      <4>5. session'[s].nudges = 0 /\ session'[s].nudge_base = 0
        BY <4>1 DEF SessionRecorded, CreateSessionRow, NoSession, TypeOK, StoreTypeOK,
           HandlerTypeOK
      <4> QED
        BY <4>3, <4>4, <4>5 DEF Warranted
    <3> QED
      BY <3>1, <3>2
  <2> QED
    BY <2>2, <2>3 DEF EarnedBy, SessionIds
<1> QED
  BY <1>1, <1>2, EscalationSteps DEF EarnInv

LEMMA EarnInvKept ==
    ASSUME TypeOK, FinalInv, LifeInv, KeysInv, EarnInv, NoneAskedAgain', [Next]_vars
    PROVE  EarnInv'
<1>1. CASE Next
  <2>1. (OwnRow /\ NoneRetries /\ SessionAlone /\ NudgesReceived /\ MessageUnderWay)'
    BY <1>1, OwnRowKept, NoneRetriesKept, SessionAloneKept, NudgesReceivedKept,
       MessageUnderWayKept DEF EarnInv
  <2>2. OwedLater'
    <3>1. Quiet => OwedLater'
      BY DEF Quiet, OwedLater
    <3>2. \A n, r : CallFlag(n, r) => OwedLater'
      BY DEF CallFlag, OwedLater, Commenting
    <3> QED
      BY <1>1, <3>1, <3>2, AsksAboutBlocked DEF EarnInv
  <2>3. EscalationDue'
    BY <1>1, EscalationDueKept DEF EarnInv
  <2>4. ClearsEarned'
    BY <1>1, ClearsEarnedKept
  <2>5. \A n \in Issues : EarnedBy(n)'
    BY <1>1, EarnedByKept
  <2> QED
    BY <2>1, <2>2, <2>3, <2>4, <2>5 DEF EarnInv
<1>2. CASE UNCHANGED vars
  <2>1. UNCHANGED <<issue, session, pull, done, pc, frame, sent>>
    BY <1>2 DEF vars, storeVars
  <2>2. (OwnRow /\ NoneRetries /\ SessionAlone /\ NudgesReceived /\ MessageUnderWay)'
    BY <2>1 DEF EarnInv, OwnRow, NoneRetries, NoneAskedAgain, SessionAlone, NudgesReceived,
       MessageUnderWay
  <2>3. \A n : /\ Escalated(n)' = Escalated(n) /\ EscalationsOf(n)' = EscalationsOf(n)
               /\ Merged(n)' <=> Merged(n)
               /\ Escalation(n)' = Escalation(n)
               /\ NudgedOut(n)' <=> NudgedOut(n)
    BY <2>1 DEF Escalated, EscalationsOf, Merged, Escalation, NudgedOut
  <2>4. OwedLater' /\ EscalationDue'
    BY <2>1, <2>3 DEF EarnInv, OwedLater, EscalationDue, Escalating
  <2>5. ClearsEarned'
    BY <2>1, <2>3 DEF EarnInv, ClearsEarned, Warranted
  <2>6. \A n \in Issues : EarnedBy(n)'
    BY <2>1, <2>3 DEF EarnInv, EarnedBy, Warranted
  <2> QED
    BY <2>2, <2>4, <2>5, <2>6 DEF EarnInv
<1> QED
  BY <1>1, <1>2

\* EscalationsEarned: a person is asked about a blocked session at most once for every
\* MAX_NUDGES nudges that went unanswered (orchestrator.py:473-488, repo.py:382-383),
\* as long as nobody asks for a retry (a label set on an issue that is known).  Nothing
\* else is assumed: calls fail, the process crashes, answers and merges come at any
\* moment.
THEOREM EscalationsAreEarned == Spec /\ []NoneAskedAgain => []EscalationsEarned
<1> DEFINE Inv == FinalInv /\ StartsFresh /\ LifeInv /\ KeysInv /\ EarnInv
<1>1. Init => Inv
  <2>1. Init => StartsFresh
    BY DEF Init, EffectsInit, StartsFresh
  <2>2. ASSUME Init PROVE EarnInv
    <3>1. /\ issue = [n \in Issues |-> NoIssue] /\ session = [s \in SessionIds |-> NoSession]
          /\ done = {} /\ sent = {} /\ pc = "idle"
      BY <2>2 DEF Init, StoreInit, EffectsInit
    <3>2. /\ OwnRow /\ NoneRetries /\ MessageUnderWay /\ OwedLater /\ EscalationDue
          /\ ClearsEarned
      BY <3>1 DEF OwnRow, NoneRetries, NoneAskedAgain, MessageUnderWay, OwedLater,
         EscalationDue, ClearsEarned, NoIssue, Messaging, Retrying, Commenting, Escalating
    <3>3. \A s \in SessionIds : session[s].issue = 0 /\ session[s].nudges = 0
      BY <3>1 DEF NoSession
    <3>4. SessionAlone
      BY <3>1, <3>3 DEF SessionAlone, Calling
    <3>5. NudgesReceived
      <4>1. \A k : k \notin 1 .. 0
        OBVIOUS
      <4> QED
        BY <3>3, <4>1 DEF NudgesReceived
    <3>6. ASSUME NEW n \in Issues PROVE EarnedBy(n)
      <4>1. EscalationsOf(n) = {}
        BY <3>1 DEF EscalationsOf
      <4>2. \A s \in SessionIds : session[s].issue # n
        BY <3>1, StoreAssumption DEF NoSession
      <4> QED
        BY <4>1, <4>2 DEF EarnedBy
    <3> QED
      BY <3>2, <3>4, <3>5, <3>6 DEF EarnInv
  <2> QED
    BY <2>1, <2>2, FinalInvInit, LifeInvInit, KeysInvInit
<1>2. TypeOK /\ Inv /\ NoneAskedAgain' /\ [Next]_vars => Inv'
  BY FinalInvKept, StartsFreshKept, LifeInvKept, KeysInvKept, EarnInvKept
<1>3. Inv /\ TypeOK => EscalationsEarned
  <2> SUFFICES ASSUME TypeOK, KeysInv, EarnInv, NEW n \in Issues
               PROVE  MaxNudges * Escalated(n)
                      <= Cardinality(UNION {NudgesOf(s) : s \in SessionsOf(n)})
    BY DEF EscalationsEarned, Escalated
  <2> DEFINE U == UNION {NudgesOf(s) : s \in SessionsOf(n)}
  <2>1. IsFiniteSet(U) /\ Cardinality(U) \in Nat
    <3>1. U \subseteq sent
      BY DEF NudgesOf
    <3>2. IsFiniteSet(U)
      BY <3>1, FS_Subset DEF KeysInv, KeysFinite
    <3> QED
      BY <3>2, FS_CardinalityType
  <2>2. CASE \A s \in SessionIds : session[s].issue # n
    <3>1. Escalated(n) = 0
      BY <2>2, FS_EmptySet DEF EarnInv, EarnedBy, Escalated
    <3>2. MaxNudges * 0 = 0
      BY OrchestratorAssumption
    <3> HIDE DEF U
    <3>3. MaxNudges * Escalated(n) <= Cardinality(U)
      BY <2>1, <3>1, <3>2
    <3> QED
      BY <3>3 DEF U
  <2>3. ASSUME NEW s \in SessionIds, session[s].issue = n
        PROVE  MaxNudges * Escalated(n) <= Cardinality(U)
    <3> DEFINE x == session[s].nudges
               R == 1 .. x
               f == [k \in R |-> <<"nudge", s, k>>]
    <3>1. MaxNudges * Escalated(n) <= x
      BY <2>3 DEF EarnInv, EarnedBy, Warranted
    <3>2. x \in Nat /\ MaxNudges * Escalated(n) \in Nat
      BY EscalatedType, Times, OrchestratorAssumption DEF TypeOK, StoreTypeOK, SessionRow,
         KeysInv
    <3>3. IsFiniteSet(R) /\ Cardinality(R) = x
      <4>1. x \in Int /\ 1 \in Int
        BY <3>2
      <4> HIDE DEF x
      <4> QED
        BY <3>2, <4>1, FS_Interval
    <3>4. f \in [R -> U]
      <4>1. s \in SessionsOf(n)
        BY <2>3 DEF SessionsOf
      <4>2. \A k \in R : <<"nudge", s, k>> \in NudgesOf(s)
        BY DEF EarnInv, NudgesReceived, NudgesOf
      <4> QED
        BY <4>1, <4>2
    <3>5. \A i, j \in R : f[i] = f[j] => i = j
      OBVIOUS
    <3>6. ~(Cardinality(U) < Cardinality(R))
      <4> HIDE DEF f, R, U
      <4> QED
        BY <2>1, <3>3, <3>4, <3>5, FS_PigeonHole
    <3> HIDE DEF x, R, U
    <3> QED
      BY <2>1, <3>1, <3>2, <3>3, <3>6
  <2> QED
    BY <2>2, <2>3
<1> HIDE DEF Inv
<1> QED
  BY <1>1, <1>2, <1>3, TypeCorrect, PTL DEF Spec

\* Where the label is set on no issue after the first, as in the run of blocked sessions,
\* nobody does ask: resync takes up only what is unknown.
ResyncUnknown ==
    pass = "resync" => \A n \in todo : n \in Issues /\ ~issue[n].known

LEMMA ResyncTakes ==
    ASSUME TypeOK, Next, pass' = "resync", ~PassEnds, \A n \in Issues : ~RecoverIssue(n)
    PROVE  /\ pass = "resync" /\ todo' = todo
           /\ issue' = issue \/ FlagMoved
<1>1. ~TickBegins /\ ~RefreshInsights /\ ~Crash
  BY DEF TickBegins, RefreshInsights, Crash, BeginPass
<1>2. pass = "resync"
  BY <1>1, QuietStep
<1>3. DrainInbox => todo' = todo
  BY <1>2 DEF DrainInbox, HandleLabeled, HandleCiFailed, HandleReview, HandleReply,
     HandlePullClosed, TakesEvent, Takes, RetryClearsFlag, SupersedeOpenSessions,
     Dispatched, DispatchFailed, loopVars
<1>4. ~StartSessions
  BY <1>2 DEF StartSessions, StartDeferred, StartOverBudget, ReserveAttempt, FirstQueued
<1>5. TrackSessions => todo' = todo
  BY <1>2 DEF TrackSessions, TimeOut, PollFails, Poll, TakesSession, Takes, ActOnPoll,
     loopVars
<1>6. \A p \in Pulls : ~TrackPull(p)
  BY <1>2 DEF TrackPull, TakesPull, Takes
<1>7. World => todo' = todo
  BY DEF World, Arrive, GraceElapses, SessionAges, PullGoesStale, loopVars
<1>8. UNCHANGED loopVars => todo' = todo
  BY DEF loopVars
<1>9. todo' = todo
  BY <1>1, <1>3, <1>4, <1>5, <1>6, <1>7, <1>8 DEF Next, Loop
<1>10. World \/ pc # "next"
  <2>1. EffectSteps => pc # "next"
    BY DEF EffectSteps, Flag, Comment, CommentRecorded, ClearFlag, SendMessage,
       MessageRecorded, MessageStamped, NudgeCounted, CiRoundCounted, BudgetsReset,
       CreateSession, SessionRecorded
  <2>2. DrainInbox => pc # "next"
    BY <1>2 DEF DrainInbox, HandleLabeled, HandleCiFailed, HandleReview, HandleReply,
       HandlePullClosed, TakesEvent, Takes, RetryClearsFlag, SupersedeOpenSessions,
       Dispatched, DispatchFailed
  <2>3. TrackSessions => pc # "next"
    BY <1>2 DEF TrackSessions, TimeOut, PollFails, Poll, TakesSession, Takes, ActOnPoll
  <2> QED
    BY <1>1, <1>4, <1>6, <2>1, <2>2, <2>3 DEF Next, Loop
<1>11. World => issue' = issue
  BY DEF World, Arrive, GraceElapses, SessionAges, PullGoesStale
<1>12. pc # "next" => \A n \in Issues : ~Asked(n) /\ ~ReserveAttempt(n)
  BY DEF Asked, ReserveAttempt, FirstQueued
<1> QED
  BY <1>2, <1>9, <1>10, <1>11, <1>12, IssueSteps

LEMMA NoneAskedKept ==
    ASSUME \A e \in Events : e.kind # "issue_labeled", TypeOK, NoneRetries, ResyncUnknown, Next
    PROVE  NoneRetries' /\ ResyncUnknown'
<1>1. \A e \in Events : ~HandleLabeled(e)
  BY DEF HandleLabeled
<1>2. ASSUME NEW n \in Issues, RecoverIssue(n)
      PROVE  /\ n \in todo /\ todo' = todo \ {n} /\ pass = "resync" /\ ~issue[n].known
             /\ pc' \notin Retrying
  <2>1. n \in todo /\ todo' = todo \ {n} /\ pass = "resync"
    BY <1>2 DEF RecoverIssue, TakesUnknownIssue, Takes
  <2>2. ~issue[n].known
    BY <2>1 DEF ResyncUnknown
  <2> QED
    BY <1>2, <2>1, <2>2 DEF RecoverIssue, RegisterIssueVerified, Finish, Raise, Retrying
<1>3. pc' \notin Retrying
  BY <1>1, <1>2, RetryingSteps DEF NoneRetries
<1>4. ASSUME NEW n \in Issues PROVE ~issue'[n].retry
  <2>1. issue \in [Issues -> IssueRow]
    BY DEF TypeOK, StoreTypeOK
  <2>2. ASSUME NEW m \in Issues, Asked(m) PROVE ~issue'[n].retry
    <3>1. RegisterIssue(m)
      BY <1>3, <2>2 DEF Asked, Retrying
    <3> QED
      BY <2>1, <3>1 DEF RegisterIssue, NoneRetries, NoneAskedAgain, IssueRow
  <2>3. ASSUME NEW m \in Issues, ReserveAttempt(m) PROVE ~issue'[n].retry
    BY <2>1, <2>3, ReservingKeeps DEF WantsSession, NoneRetries, NoneAskedAgain
  <2> QED
    BY <2>2, <2>3, IssueSteps, FlagMovesReason DEF NoneRetries, NoneAskedAgain
<1>5. ASSUME pass' = "resync", NEW n \in todo' PROVE n \in Issues /\ ~issue'[n].known
  <2>1. CASE PassEnds
    BY <1>5, <2>1 DEF PassEnds, BeginPass, Work, storeVars
  <2>2. ASSUME NEW m \in Issues, RecoverIssue(m) PROVE n \in Issues /\ ~issue'[n].known
    <3>1. n \in Issues /\ ~issue[n].known /\ n # m
      BY <1>2, <1>5, <2>2 DEF ResyncUnknown
    <3>2. issue' = issue \/ RegisterIssue(m)
      BY <1>2, <2>2 DEF RecoverIssue, RegisterIssueVerified
    <3> QED
      BY <3>1, <3>2 DEF RegisterIssue, TypeOK, StoreTypeOK
  <2>3. CASE ~PassEnds /\ \A m \in Issues : ~RecoverIssue(m)
    <3>1. n \in Issues /\ ~issue[n].known
      BY <1>5, <2>3, ResyncTakes DEF ResyncUnknown
    <3> QED
      BY <1>5, <2>3, <3>1, ResyncTakes, FlagMovesReason
  <2> QED
    BY <2>1, <2>2, <2>3
<1> QED
  BY <1>3, <1>4, <1>5 DEF NoneRetries, NoneAskedAgain, ResyncUnknown

COROLLARY EscalationsEarnedUnlabelled ==
    ASSUME \A e \in Events : e.kind # "issue_labeled"
    PROVE  Spec => []EscalationsEarned
<1> DEFINE Inv == NoneRetries /\ ResyncUnknown
<1>1. Init => Inv
  BY DEF Init, StoreInit, EffectsInit, NoIssue, NoneRetries, NoneAskedAgain, ResyncUnknown,
     Retrying
<1>2. TypeOK /\ Inv /\ [Next]_vars => Inv'
  <2>1. ASSUME Inv, UNCHANGED vars PROVE Inv'
    BY <2>1 DEF vars, storeVars, loopVars, NoneRetries, NoneAskedAgain, ResyncUnknown
  <2> QED
    BY <2>1, NoneAskedKept
<1>3. Inv => NoneAskedAgain
  BY DEF NoneRetries
<1> HIDE DEF Inv
<1> QED
  BY <1>1, <1>2, <1>3, EscalationsAreEarned, TypeCorrect, PTL DEF Spec
=============================================================================
