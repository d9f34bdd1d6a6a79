---------------------------- MODULE Orchestrator ----------------------------
(***************************************************************************)
(* app/core/orchestrator.py: the reconcile loop.  A tick holds the lock    *)
(* and runs its passes one after the other; a pass takes the rows it read  *)
(* at its start one by one, and a handler runs until the loop takes the    *)
(* next.  Between handlers and ticks the rest of the world moves: webhooks *)
(* are enqueued, deadlines pass.  The process may crash anywhere; only the *)
(* store survives.                                                         *)
(*                                                                         *)
(* Devin and GitHub answer whatever they may: a poll returns any of        *)
(* Observations, a pull request read any state, save that a pull request   *)
(* does not disappear from its session and a merge is not undone.          *)
(***************************************************************************)
EXTENDS Effects

CONSTANTS
    Observations,       \* responses of GET /sessions/{id}
    PullStates,         \* states a pull request may be read in
    MaxConcurrent,      \* max_concurrent_sessions
    SessionCap,         \* max_acu_per_session
    Budget,             \* global_acu_budget
    MaxNudges,          \* max_nudges
    MaxCiRounds,        \* max_ci_feedback_rounds
    MaxConflictRounds,  \* max_conflict_rounds
    InboxLimit,         \* the limit of pending_inbox
    PrEvery, SlowEvery, \* ticks between two pull request passes, two resyncs
    Deadlines,          \* the deadlines that may pass in the run
    MaxCrashes          \* bound: crashes of the process

AllPullStates == {"merged", "closed", "conflicted", "pending", "success", "failure"}

ASSUME OrchestratorAssumption ==
    /\ \A o \in Observations :
          /\ DOMAIN o = DOMAIN NoPoll
          /\ o.final \in BOOLEAN /\ o.foreign \in BOOLEAN
          /\ o.pulls \subseteq Pulls /\ o.acus \in Acus
    /\ PullStates \subseteq AllPullStates
    /\ {MaxConcurrent, SessionCap, Budget, MaxNudges, MaxCiRounds,
        MaxConflictRounds, InboxLimit, MaxCrashes} \subseteq Nat
    /\ PrEvery \in Nat \ {0} /\ SlowEvery \in Nat \ {0}
    /\ Deadlines \subseteq {"grace", "age", "stale"}

VARIABLES
    tick,       \* self._tick, modulo PrEvery * SlowEvery
    forced,     \* this tick is the admin endpoint's: every pass runs
    todo,       \* the rows of the pass not taken yet
    active,     \* start_sessions: the slots in use
    spent,      \* start_sessions: ACUs spent or committed
    crashes

loopVars == <<tick, forced, todo, active, spent, crashes>>
vars == <<storeVars, pc, pass, cur, frame, billed, sent, resent, told, loopVars>>
history == <<billed, sent, resent, told>>

Init ==
    /\ StoreInit /\ EffectsInit
    /\ tick = 0 /\ forced = FALSE /\ todo = {} /\ active = 0 /\ spent = 0
    /\ crashes = 0

-----------------------------------------------------------------------------
(* Ticks and passes *)

Terminal(n) == StatusOf(n) = "merged"

Occupying ==
    {s \in SessionIds : /\ session[s].issue # 0
                        /\ OccupiesSlot(session[s], Terminal(session[s].issue))}

\* The rows a pass reads when it begins.  A merged issue's sessions are still
\* polled; closed sessions are skipped one by one, which is the same as here.
\* Resync lists the labelled issues and drops the known ones.
Work(p) ==
    CASE p = "drain"  -> PendingInbox(InboxLimit)
      [] p = "start"  -> {n \in Issues : issue[n].known /\ StatusOf(n) = "queued"}
      [] p = "track"  -> {s \in SessionIds : session[s].issue # 0
                                              /\ ~IsClosed(session[s])}
      [] p = "pulls"  -> TrackedPulls
      [] p = "resync" -> {n \in Issues : ~issue[n].known}
      [] OTHER        -> {}

BeginPass(p) ==
    /\ pass' = p
    /\ pc' = IF p = "none" THEN "idle" ELSE "next"
    /\ todo' = Work(p)
    /\ cur' = NoEvent
    /\ active' = IF p = "start" THEN Cardinality(Occupying) ELSE 0
    /\ spent' = IF p = "start" THEN TotalAcus ELSE 0

\* A mutant: counted from the tick before.
PullsDueLate == forced \/ (tick + PrEvery - 1) % PrEvery = 0

PullsDue == forced \/ tick % PrEvery = 0

SlowDue == forced \/ tick % SlowEvery = 0

\* The order of tick(); the last two are one slow pass.
PassAfter(p) ==
    IF p = "drain" THEN "start"
    ELSE IF p = "start" THEN "track"
    ELSE IF p = "track" /\ PullsDue THEN "pulls"
    ELSE IF p \in {"track", "pulls"} /\ SlowDue THEN "resync"
    ELSE IF p = "resync" THEN "insights"
    ELSE "none"

\* run_forever and POST /api/admin/reconcile.
TickBegins ==
    /\ pc = "idle"
    /\ tick' = (tick + 1) % (PrEvery * SlowEvery)
    /\ forced' \in IF PrEvery * SlowEvery = 1 THEN {FALSE} ELSE BOOLEAN
    /\ BeginPass("drain")
    /\ UNCHANGED <<storeVars, frame, history, crashes>>

PassEnds ==
    /\ pc = "next" /\ todo = {} /\ pass # "insights"
    /\ BeginPass(PassAfter(pass))
    /\ UNCHANGED <<storeVars, frame, history, tick, forced, crashes>>

\* The loop takes x, one of the rows left.
Takes(p, x) ==
    /\ pc = "next" /\ pass = p
    /\ x \in todo
    /\ todo' = todo \ {x}

TakesEvent(e) ==
    /\ Takes("drain", e)
    /\ \A f \in todo : inbox[e].id <= inbox[f].id
    /\ cur' = e

\* ORDER BY number, then ORDER BY created_at.
TakesSession(s) ==
    /\ Takes("track", s)
    /\ \A t \in todo : \/ session[s].issue < session[t].issue
                       \/ session[s].issue = session[t].issue /\ s <= t
    /\ UNCHANGED cur

TakesPull(p) == Takes("pulls", p) /\ UNCHANGED cur
TakesUnknownIssue(n) == Takes("resync", n) /\ UNCHANGED cur

-----------------------------------------------------------------------------
(* Registering and retrying an issue *)

\* _register_issue: get_issue, then the verdict on the label it reads.
RegisterIssueVerified(n) ==
    \/ "get_issue" \in Failing /\ Raise /\ UNCHANGED issue
    \/ Finish /\ UNCHANGED issue                \* no longer open and labelled
    \/ ~issue[n].known /\ RegisterIssue(n) /\ Finish
    \/ /\ issue[n].known
       /\ RequestRetry(n)
       /\ pc' = "retry"
       /\ frame' = [NoFrame EXCEPT !.issue = n]

HandleLabeled(e) ==
    /\ e.kind = "issue_labeled" /\ TakesEvent(e)
    /\ RegisterIssueVerified(e.issue)
    /\ UNCHANGED <<session, pull, done, inbox, pass, history, tick, forced, active,
                   spent, crashes>>

\* resync: an issue GitHub does not list, or whose label is gone when it is
\* fetched, is left alone.
RecoverIssue(n) ==
    /\ TakesUnknownIssue(n)
    /\ RegisterIssueVerified(n)
    /\ UNCHANGED <<session, pull, done, inbox, pass, history, tick, forced, active,
                   spent, crashes>>

RetryClearsFlag ==
    /\ pc = "retry"
    /\ TakeFlagDown(frame.issue)
    /\ pc' = "supersede"
    /\ UNCHANGED <<session, pull, done, inbox, pass, cur, frame, billed, sent, resent,
                   loopVars>>

\* A mutant: nothing is superseded.
SupersededNone(n) == {s \in SessionsOf(n) : FALSE}

Superseded(n) ==
    {s \in SessionsOf(n) : ~IsClosed(session[s]) /\ ~session[s].produced}

SupersedeOpenSessions ==
    /\ pc = "supersede"
    /\ session' = [s \in SessionIds |->
                     IF s \in Superseded(frame.issue)
                     THEN [session[s] EXCEPT !.closed = "superseded"]
                     ELSE session[s]]
    /\ Finish
    /\ UNCHANGED <<issue, pull, done, inbox, pass, cur, history, loopVars>>

-----------------------------------------------------------------------------
(* Starting sessions *)

FirstQueued(n) ==
    /\ pc = "next" /\ pass = "start" /\ n \in todo
    /\ \A m \in todo : n <= m

\* start_deferred_concurrency: the pass returns.
StartDeferred ==
    /\ \E n \in todo : FirstQueued(n)
    /\ active >= MaxConcurrent
    /\ todo' = {}
    /\ UNCHANGED <<storeVars, pc, pass, cur, frame, history, tick, forced, active,
                   spent, crashes>>

StartOverBudget ==
    /\ \E n \in todo : FirstQueued(n) /\ CallFlag(n, "budget_exhausted")
    /\ active < MaxConcurrent /\ spent >= Budget
    /\ todo' = {}
    /\ UNCHANGED <<storeVars, pass, cur, history, tick, forced, active, spent,
                   crashes>>

\* A mutant: the cap is off by one.
MayStartOneMore == active <= MaxConcurrent /\ spent < Budget

MayStart == active < MaxConcurrent /\ spent < Budget

\* A mutant: a budget read once per tick.
CommitNothing == spent

\* What a started session is allowed to spend counts at once.
Commit == spent + SessionCap

\* _create_session up to the billable call: the attempt is reserved first.
ReserveAttempt(n) ==
    /\ FirstQueued(n) /\ MayStart
    /\ active' = active + 1
    /\ spent' = Commit
    /\ BeginAttempt(n)
    /\ pc' = "create"
    /\ frame' = [NoFrame EXCEPT !.issue = n]
    /\ todo' = todo \ {n}
    /\ UNCHANGED <<session, pull, done, inbox, pass, cur, history, tick, forced,
                   crashes>>

-----------------------------------------------------------------------------
(* Tracking sessions *)

\* A mutant: the watchdog looks at awake sessions only.
TimesOutAwake(s) ==
    ~session[s].produced /\ session[s].aged /\ Liveness(session[s]) = "live"

TimesOut(s) == ~session[s].produced /\ session[s].aged

TimeOut(s) ==
    /\ TakesSession(s) /\ TimesOut(s)
    /\ CloseSession(s, "timeout")
    /\ CallFlag(session[s].issue, "session_timeout")
    /\ UNCHANGED <<issue, pull, done, inbox, pass, history, tick, forced, active,
                   spent, crashes>>

PollFails(s) ==
    /\ TakesSession(s) /\ ~TimesOut(s)
    /\ "get_session" \in Failing
    /\ Raise
    /\ UNCHANGED <<storeVars, pass, history, tick, forced, active, spent, crashes>>

\* Devin keeps listing the pull requests a session opened.
MayAnswer(s, o) == {p \in Pulls : pull[p].session = s} \subseteq o.pulls

HasPull(o) == o.pulls # {} \/ o.foreign

Poll(s, o) ==
    /\ TakesSession(s) /\ ~TimesOut(s)
    /\ MayAnswer(s, o)
    /\ RecordPoll(s, o,
                  HasProduced([session[s] EXCEPT !.status = o.status,
                                                 !.detail = o.detail],
                              o.final, HasPull(o)),
                  ClosingReason(o.status, o.detail))
    /\ pc' = "act"
    /\ frame' = [NoFrame EXCEPT !.issue = session[s].issue, !.session = s, !.poll = o]
    /\ UNCHANGED <<issue, pull, done, inbox, pass, history, tick, forced, active,
                   spent, crashes>>

\* A mutant: the nudge limit is off by one.
NudgeAllowedOneMore(s) == session[s].nudges - session[s].nudge_base <= MaxNudges

NudgeAllowed(s) == session[s].nudges - session[s].nudge_base < MaxNudges

NudgeKey(s) == <<"nudge", s, session[s].nudges + 1>>

\* _handle_blocked
HandleBlocked(s, n) ==
    IF NudgeAllowed(s)
    THEN CallMessage(s, n, NudgeKey(s), TRUE, Finish)
    ELSE CallFlag(n, "blocked_on_question")

\* A mutant: only a cost halt is reported.
FlagEndCostHalt(n, reason) ==
    IF reason = "cost_halt" THEN CallFlag(n, "cost_halt") ELSE Finish

FlagEnd(n, reason) ==
    CallFlag(n, IF reason = "cost_halt" THEN "cost_halt" ELSE "session_error")

\* _report_completion; without a pull request the handler still owes a flag.
ReportCompletion(s, n, o) ==
    CallComment(n, <<"completion", s>>, IF HasPull(o) THEN None ELSE "not_fixed")

\* The rest of _advance_session.  The verdict is on the polled pair, not on
\* what an earlier poll latched.
ActOn(s, n, o) ==
    LET observed == [status |-> o.status, detail |-> o.detail, closed |-> None]
        reason == ClosingReason(o.status, o.detail)
    IN  IF Terminal(n) THEN Finish
        ELSE IF HasProduced(observed, o.final, HasPull(o))
        THEN ReportCompletion(s, n, o)
        ELSE IF reason # None THEN FlagEnd(n, reason)
        ELSE IF IsBlocked(observed) /\ ~session[s].grace THEN HandleBlocked(s, n)
        ELSE Finish

ActOnPoll ==
    /\ pc = "act"
    /\ UpsertPulls(frame.poll.pulls, frame.session)
    /\ ActOn(frame.session, frame.issue, frame.poll)
    /\ UNCHANGED <<issue, session, done, inbox, pass, cur, history, loopVars>>

-----------------------------------------------------------------------------
(* Pull requests and the review-fix loop *)

CiReported(p, sha) == pull[p].last_sha = sha

CiExhausted(p) == pull[p].rounds - pull[p].rounds_base >= MaxCiRounds

\* _feed_ci_failure once the commit is known; \/ over what
\* failed_check_summary returns.
FeedCiFailure(p, sha) ==
    LET n == pull[p].issue
        s == pull[p].session
    IN  IF CiReported(p, sha) THEN Finish
        ELSE IF CiExhausted(p) THEN CallFlag(n, "ci_unresolved")
        ELSE \/ CallMessage(s, n, <<"ci", p, sha>>, TRUE,
                            CallFlag(n, "ci_unresolved"))
             \/ "failed_check_summary_empty" \in Failing /\ Finish
             \/ "check_runs" \in Failing /\ Raise

HandleCiFailed(e) ==
    /\ e.kind = "ci_failed" /\ TakesEvent(e)
    /\ IF SessionOfPull(e.pull) = 0 THEN Finish
       ELSE \/ e.sha # None /\ FeedCiFailure(e.pull, e.sha)
            \/ e.sha = None /\ \E sha \in Shas : FeedCiFailure(e.pull, sha)
            \/ e.sha = None /\ "get_pull" \in Failing /\ Raise
    /\ UNCHANGED <<storeVars, pass, history, tick, forced, active, spent, crashes>>

\* A mutant: rounds are not bounded.
ConflictExhaustedNever(p) == SessionOfPull(p) = 0

ConflictExhausted(p) ==
    SessionOfPull(p) = 0 \/ ConflictRounds(p) >= MaxConflictRounds

\* _feed_merge_conflict
FeedMergeConflict(p, sha) ==
    LET n == pull[p].issue
        key == <<"conflict", p, sha>>
    IN  IF key \in done THEN Finish
        ELSE IF ConflictExhausted(p) THEN CallFlag(n, "merge_conflict")
        ELSE CallMessage(SessionOfPull(p), n, key, TRUE,
                         CallFlag(n, "merge_conflict"))

\* A mutant: nothing watches a pull request's age.
WatchPullNever(p) == Finish

\* A green or unfinished pull request is only watched for its age.
WatchPull(p) ==
    IF pull[p].stale THEN CallFlag(pull[p].issue, "pr_stale") ELSE Finish

SettleMerged(p) ==
    IF pull[p].merged THEN Finish /\ UNCHANGED pull
    ELSE /\ MarkMerged(p)
         /\ pc' = "clear"
         /\ frame' = [NoFrame EXCEPT !.issue = pull[p].issue]

\* A mutant: closing unmerged is recorded, nobody is told.
SettleClosedQuietly(p) ==
    IF pull[p].closed THEN Finish /\ UNCHANGED pull
    ELSE MarkClosed(p) /\ Finish

SettleClosed(p) ==
    IF pull[p].closed THEN Finish /\ UNCHANGED pull
    ELSE MarkClosed(p) /\ CallFlag(pull[p].issue, "pr_closed_unmerged")

\* _advance_pull_request: one disjunct per state GitHub reports.  A pull
\* request recorded as merged is read as merged.
AdvancePull(p) ==
    \/ /\ Failing \cap {"get_pull", "check_runs"} # {}
       /\ Raise /\ UNCHANGED pull
    \/ "merged" \in PullStates /\ SettleMerged(p)
    \/ "closed" \in PullStates /\ ~pull[p].merged /\ SettleClosed(p)
    \/ /\ ~pull[p].merged /\ UNCHANGED pull
       /\ \/ /\ "conflicted" \in PullStates
             /\ \E sha \in Shas : FeedMergeConflict(p, sha)
          \/ PullStates \cap {"pending", "success"} # {} /\ WatchPull(p)
          \/ /\ "failure" \in PullStates
             /\ IF SessionOfPull(p) = 0 THEN Finish
                ELSE \E sha \in Shas : FeedCiFailure(p, sha)

TrackPull(p) ==
    /\ TakesPull(p)
    /\ AdvancePull(p)
    /\ UNCHANGED <<issue, session, done, inbox, pass, history, tick, forced, active,
                   spent, crashes>>

HandlePullClosed(e) ==
    /\ e.kind = "pr_closed" /\ TakesEvent(e)
    /\ IF KnownPull(e.pull) THEN AdvancePull(e.pull) ELSE Finish /\ UNCHANGED pull
    /\ UNCHANGED <<issue, session, done, inbox, pass, history, tick, forced, active,
                   spent, crashes>>

\* _forward_review
HandleReview(e) ==
    /\ e.kind = "review_comment" /\ TakesEvent(e)
    /\ IF SessionOfPull(e.pull) = 0 THEN Finish
       ELSE CallMessage(SessionOfPull(e.pull), pull[e.pull].issue,
                        <<"review", e.id>>, FALSE,
                        CallComment(pull[e.pull].issue, <<"undelivered", e.id>>, None))
    /\ UNCHANGED <<storeVars, pass, history, tick, forced, active, spent, crashes>>

\* _forward_reply
HandleReply(e) ==
    /\ e.kind = "issue_comment" /\ TakesEvent(e)
    /\ LET s == LatestSession(e.issue)
       IN  IF s = 0 THEN Finish
           ELSE CallMessage(s, e.issue, <<"reply", e.id>>, FALSE,
                            CallComment(e.issue, <<"undelivered", e.id>>, None))
    /\ UNCHANGED <<storeVars, pass, history, tick, forced, active, spent, crashes>>

-----------------------------------------------------------------------------
(* The end of an inbox row, and the Analytics pass *)

\* mark_dispatched; a row just abandoned is dispatched already.
Dispatched ==
    /\ pc = "dispatch"
    /\ MarkDispatched(cur)
    /\ pc' = "next"
    /\ UNCHANGED <<issue, session, pull, done, pass, cur, frame, history, loopVars>>

\* _issue_for
IssueFor(e) ==
    IF e.kind \in {"issue_labeled", "issue_comment"} THEN e.issue
    ELSE IF KnownPull(e.pull) THEN pull[e.pull].issue ELSE 0

\* The handler raised.  The third time, the row is abandoned out loud.
DispatchFailed ==
    /\ pc = "failed"
    /\ RecordInboxFailure(cur)
    /\ IF GivesUp(cur) /\ IssueFor(cur) # 0
       THEN CallFlag(IssueFor(cur), "inbox_abandoned")
       ELSE pc' = "next" /\ frame' = NoFrame
    /\ UNCHANGED <<issue, session, pull, done, pass, cur, history, loopVars>>

\* refresh_insights: rows of sessions that are not ours are dropped.
RefreshInsights ==
    /\ pc = "next" /\ pass = "insights"
    /\ \/ \E f \in [SessionIds -> Acus] : ApplyInsights(f)
       \/ "insights" \in Failing /\ UNCHANGED session
    /\ BeginPass("none")
    /\ UNCHANGED <<issue, pull, done, inbox, frame, history, tick, forced,
                   crashes>>

-----------------------------------------------------------------------------
(* The world around the loop *)

\* The webhook receiver or the admin endpoint enqueues an intent.  It does so
\* while the loop awaits as well; the loop reads the inbox only as a tick begins.
Arrive(e) ==
    /\ pc = "idle" /\ inbox[e].state = "unseen"
    /\ Enqueue(e)
    /\ UNCHANGED <<issue, session, pull, done, pc, pass, cur, frame, history, loopVars>>

\* Deadlines pass at any moment; each is read once in a handler, so it is
\* enough to let them pass between two.
BetweenHandlers == pc \in {"idle", "next"}

IsOpen(s) == session[s].issue # 0 /\ ~IsClosed(session[s])

GraceElapses(s) ==
    /\ "grace" \in Deadlines /\ BetweenHandlers
    /\ IsOpen(s) /\ session[s].grace
    /\ session' = [session EXCEPT ![s].grace = FALSE]
    /\ UNCHANGED <<issue, pull, done, inbox, pc, pass, cur, frame, history, loopVars>>

SessionAges(s) ==
    /\ "age" \in Deadlines /\ BetweenHandlers
    /\ IsOpen(s) /\ ~session[s].produced /\ ~session[s].aged
    /\ session' = [session EXCEPT ![s].aged = TRUE]
    /\ UNCHANGED <<issue, pull, done, inbox, pc, pass, cur, frame, history, loopVars>>

PullGoesStale(p) ==
    /\ "stale" \in Deadlines /\ BetweenHandlers
    /\ p \in TrackedPulls /\ ~pull[p].stale
    /\ pull' = [pull EXCEPT ![p].stale = TRUE]
    /\ UNCHANGED <<issue, session, done, inbox, pc, pass, cur, frame, history, loopVars>>

\* The process dies and comes back; the loop starts over from the store.
Crash ==
    /\ pc # "idle" /\ crashes < MaxCrashes
    /\ crashes' = crashes + 1
    /\ pc' = "idle" /\ pass' = "none" /\ cur' = NoEvent /\ frame' = NoFrame
    /\ tick' = 0 /\ forced' = FALSE /\ todo' = {} /\ active' = 0 /\ spent' = 0
    /\ UNCHANGED <<storeVars, history>>

-----------------------------------------------------------------------------
DrainInbox ==
    \/ \E e \in Events : \/ HandleLabeled(e) \/ HandleCiFailed(e)
                         \/ HandleReview(e) \/ HandleReply(e) \/ HandlePullClosed(e)
    \/ RetryClearsFlag \/ SupersedeOpenSessions
    \/ Dispatched \/ DispatchFailed

StartSessions ==
    StartDeferred \/ StartOverBudget \/ \E n \in Issues : ReserveAttempt(n)

TrackSessions ==
    \/ \E s \in SessionIds :
          TimeOut(s) \/ PollFails(s) \/ \E o \in Observations : Poll(s, o)
    \/ ActOnPoll

Loop ==
    \/ TickBegins \/ PassEnds
    \/ DrainInbox \/ StartSessions \/ TrackSessions
    \/ \E p \in Pulls : TrackPull(p)
    \/ \E n \in Issues : RecoverIssue(n)
    \/ RefreshInsights
    \/ EffectSteps /\ UNCHANGED loopVars

World ==
    \/ \E e \in Events : Arrive(e)
    \/ \E s \in SessionIds : GraceElapses(s) \/ SessionAges(s)
    \/ \E p \in Pulls : PullGoesStale(p)

Next == Loop \/ World \/ Crash

Spec == Init /\ [][Next]_vars
=============================================================================
