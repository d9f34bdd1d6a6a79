-------------------------- MODULE OrchestratorProps --------------------------
(***************************************************************************)
(* What the reconcile loop promises: the properties the runs check, and    *)
(* the fairness under which the loop makes progress.                       *)
(***************************************************************************)
EXTENDS Orchestrator

Keys ==
    ({"nudge"} \X SessionIds \X Nat)
    \cup ({"started", "completion"} \X SessionIds)
    \cup ({"reply", "review", "undelivered"} \X Nat)
    \cup ({"ci", "conflict"} \X Pulls \X Shas)
    \cup ({"flag"} \X Issues \X Reasons \X Nat)

ClosedReasons == {"exit", "error", "cost_halt", "timeout", "superseded"}

IssueRow == [known : BOOLEAN, attempts : Nat, retry : BOOLEAN,
             reason : Reasons \cup {None}, episode : Nat]
SessionRow == [issue : Issues \cup {0}, attempt : Nat,
               status : {o.status : o \in Observations} \cup {None},
               detail : {o.detail : o \in Observations} \cup {None},
               acus : Acus, nudges : Nat, nudge_base : Nat, grace : BOOLEAN,
               aged : BOOLEAN, produced : BOOLEAN,
               closed : ClosedReasons \cup {None}]
PullRow == [issue : Issues \cup {0}, session : SessionIds \cup {0},
            rounds : Nat, rounds_base : Nat, last_sha : Shas \cup {None},
            merged : BOOLEAN, closed : BOOLEAN, stale : BOOLEAN]
InboxRow == [state : {"unseen", "pending", "dispatched"}, id : Nat, attempts : Nat]

StoreTypeOK ==
    /\ issue \in [Issues -> IssueRow]
    /\ session \in [SessionIds -> SessionRow]
    /\ pull \in [Pulls -> PullRow]
    /\ \A p \in Pulls : pull[p].issue # 0 => pull[p].session \in SessionIds
    /\ done \subseteq Keys
    /\ inbox \in [Events -> InboxRow]

Frame == [issue : Issues \cup {0}, session : SessionIds \cup {0},
          key : Keys \cup {<<>>}, reason : Reasons \cup {None},
          poll : Observations \cup {NoPoll}]

Passes == {"none", "drain", "start", "track", "pulls", "resync", "insights"}
Steps == {"idle", "next", "flag", "comment", "commented", "clear", "send",
          "mark", "stamp", "follow", "create", "record", "retry", "supersede",
          "act", "dispatch", "failed"}

InHandler == Steps \ {"idle", "next", "dispatch", "failed"}

\* What the running handler holds at each of its steps.
HandlerTypeOK ==
    /\ pc \in Steps /\ pass \in Passes
    /\ cur \in Events \cup {NoEvent}
    /\ frame \in Frame
    /\ pc = "idle" => pass = "none"
    /\ pc \in {"dispatch", "failed"} => pass = "drain"
    /\ pass = "drain" /\ pc # "next" => cur \in Events
    /\ pc \in InHandler => frame.issue \in Issues
    /\ pc = "flag" => frame.reason \in Reasons
    /\ pc \in {"comment", "commented", "send", "mark", "stamp", "follow"}
       => frame.key \in Keys
    /\ pc \in {"send", "mark", "stamp", "follow", "record", "act"}
       => frame.session \in SessionIds
    /\ pc = "act" => frame.poll \in Observations

\* The rows of a pass are rows of its table.
TodoTypeOK ==
    /\ pass = "start" => todo \subseteq Issues
    /\ pass = "track" => \A s \in todo : s \in SessionIds /\ session[s].issue # 0
    /\ pass = "pulls" => \A p \in todo : KnownPull(p)

\* The tables, the loop's variables and the locals of the running handler have
\* their types.
TypeOK ==
    /\ StoreTypeOK
    /\ HandlerTypeOK
    /\ TodoTypeOK
    /\ billed \in [SessionIds -> (Issues \X Nat) \cup {Unbilled}]
    /\ sent \subseteq Keys /\ resent \subseteq Keys
    /\ told \in [Issues -> SUBSET Reasons]
    /\ tick \in Nat /\ forced \in BOOLEAN
    /\ active \in Nat /\ spent \in Nat /\ crashes \in Nat

Idle == pc = "idle"

-----------------------------------------------------------------------------
(* Sessions and money *)

\* The sessions that may spend at any moment: not closed, on an issue of which
\* no pull request has merged.
Slots ==
    {s \in SessionIds :
        /\ session[s].issue # 0 /\ session[s].closed = None
        /\ \A p \in Pulls : pull[p].issue = session[s].issue => ~pull[p].merged}

\* MAX_CONCURRENT_SESSIONS bounds them through every pass, retry, failed start
\* and restart, although start_sessions counts them once and then counts on its
\* own (orchestrator.py:263-298).
CapRespected == Cardinality(Slots) <= MaxConcurrent

\* "It does not spend twice for one attempt" (orchestrator.py:22): two sessions
\* Devin created, those this service never heard of included, are two attempts.
NoAttemptBilledTwice ==
    \A s, t \in SessionIds :
        s # t /\ billed[s] # Unbilled => billed[s] # billed[t]

\* A retry replaces the session it supersedes (orchestrator.py:239-259): never
\* two sessions of one issue are open with their work still to be delivered.
OneWorkingSession ==
    \A s, t \in SessionIds :
        /\ s # t /\ session[s].issue # 0 /\ session[s].issue = session[t].issue
        /\ session[s].closed = None /\ ~session[s].produced
        /\ ~session[t].produced
        => session[t].closed # None

\* Nothing is billed for an issue that is merged, waits for a person or has a
\* pull request open: the verdict start_sessions read as the pass began still
\* holds when the call is made.
BillsOnlyQueued ==
    [][\A s \in SessionIds :
          billed'[s] # billed[s]
          => LET n == billed'[s][1]
             IN  /\ issue[n].known /\ issue[n].reason = None
                 /\ \A p \in PullsOf(n) : pull[p].closed /\ ~pull[p].merged]_vars

-----------------------------------------------------------------------------
(* Escalation *)

\* "Every dead end reaches flag_human" (orchestrator.py:25): between ticks no
\* issue is given up on without a flag.  An issue is still alive while one of
\* its sessions is open.
NoSilentDeadEnd ==
    Idle => \A n \in Issues :
        issue[n].known /\ StatusOf(n) = "exhausted"
        => \E s \in SessionsOf(n) : session[s].closed = None

\* Between ticks a raised flag has been announced on the issue's thread, under
\* the reason it stands for now, since it last went up: a reason that recurs
\* after a person cleared it is news again (repo.py:212-220, effects.py:165-169).
FlagAnnounced ==
    Idle => \A n \in Issues :
        issue[n].reason # None => issue[n].reason \in told[n]

\* The same for the outcome nobody may miss: between ticks a pull request that
\* was closed without merging has been announced, whatever was flagged then.
ClosureAnnounced ==
    Idle => \A p \in Pulls :
        pull[p].closed =>
            \E k \in done : /\ k[1] = "flag" /\ k[2] = pull[p].issue
                            /\ k[3] = "pr_closed_unmerged"

-----------------------------------------------------------------------------
(* Messages *)

RepliesTo(n) == {k \in sent : \E e \in Events : /\ e.kind = "issue_comment"
                                               /\ e.issue = n /\ k = <<"reply", e.id>>}
NudgesOf(s) == {k \in sent : k[1] = "nudge" /\ k[2] = s}
RoundsOf(kind, p) == {k \in sent : k[1] = kind /\ k[2] = p}

\* Devin receives at most MAX_NUDGES nudges for each time a person took the
\* session over, its start included, and none of them twice: the counter, the base
\* a reply moves and the keys agree on what was sent (orchestrator.py:473-488,
\* repo.py:379-399).  It is promised while the process stays up and no call to
\* send_message fails after the message arrived: after such a failure the same
\* nudge is sent again, and again if that fails too, for nothing has counted it.
NudgesBounded ==
    \A s \in SessionIds :
        session[s].issue # 0 =>
            /\ NudgesOf(s) \cap resent = {}
            /\ Cardinality(NudgesOf(s))
               <= MaxNudges * (1 + Cardinality(RepliesTo(session[s].issue)))

\* No comment-spam loop (repo.py:382-383): a person is asked about a blocked
\* session once for every MAX_NUDGES nudges that went unanswered, so an answer is
\* never followed by the very notification it answered.
EscalationsOf(n) == {k \in done : /\ k[1] = "flag" /\ k[2] = n
                                  /\ k[3] = "blocked_on_question"}

EscalationsEarned ==
    \A n \in Issues :
        MaxNudges * Cardinality(EscalationsOf(n))
        <= Cardinality(UNION {NudgesOf(s) : s \in SessionsOf(n)})

\* "nothing can be permanently blocked from happening again" (repo.py:83): the
\* next nudge of an open session is never one already recorded as sent, which
\* message_session would drop on every later tick without advancing the budget.
NudgeNotWedged ==
    Idle => \A s \in SessionIds :
        session[s].issue # 0 /\ ~IsClosed(session[s]) => NudgeKey(s) \notin done

\* The same for CI and for conflicts: at most max_ci_feedback_rounds red commits
\* are handed back for each time a person took over, and max_conflict_rounds
\* conflicts altogether (orchestrator.py:612-720).
CiRoundsBounded ==
    \A p \in Pulls :
        KnownPull(p) => Cardinality(RoundsOf("ci", p))
                        <= MaxCiRounds * (1 + Cardinality(RepliesTo(pull[p].issue)))

ConflictRoundsBounded ==
    \A p \in Pulls : Cardinality(RoundsOf("conflict", p)) <= MaxConflictRounds

\* No message reaches Devin twice: not a red commit read on two polls and from a
\* webhook, not a reply whose row is dispatched again after a failure.
NoMessageTwice == resent = {}

\* What was closed stays closed: nothing but its ACU figure changes in the row
\* of a session that cannot be revived (repo.py:291-352, effects.py:96-122).
ClosedIsFinal ==
    [][\A s \in SessionIds :
          session[s].closed # None
          => session'[s] = [session[s] EXCEPT !.acus = session'[s].acus]]_vars

\* A row about a comment leaves the inbox only once the comment reached its
\* session, or the thread was told that it could not, or a person was.  The
\* inbox is the only copy of it (orchestrator.py:161-166).
Told(e, n) ==
    \/ <<"undelivered", e.id>> \in done
    \/ \E k \in done : k[1] = "flag" /\ k[2] = n /\ k[3] = "inbox_abandoned"

CommentAccounted ==
    [][\A e \in Events :
          /\ inbox[e].state = "pending" /\ inbox'[e].state = "dispatched"
          => /\ e.kind = "issue_comment" /\ LatestSession(e.issue) # 0
                => \/ <<"reply", e.id>> \in done \/ Told(e, e.issue)
                   \/ inbox'[e].attempts = MaxInboxAttempts /\ pc' = "flag"
             /\ e.kind = "review_comment" /\ SessionOfPull(e.pull) # 0
                => \/ <<"review", e.id>> \in done \/ Told(e, pull[e.pull].issue)
                   \/ inbox'[e].attempts = MaxInboxAttempts /\ pc' = "flag"]_vars

-----------------------------------------------------------------------------
(* Spend *)

\* What the check before every start gives (orchestrator.py:281-296): nothing is
\* billed any more once the recorded spend and what this tick's starts may spend
\* reach the budget.
BudgetStopsStarts ==
    [][\A s \in SessionIds :
          billed'[s] # billed[s]
          => TotalAcus + SessionCap *
               Cardinality({t \in SessionIds : session[t].issue # 0
                                /\ session[t].status = None /\ session[t].closed = None})
             < Budget]_vars

-----------------------------------------------------------------------------
(* The abstract specifications the loop implements *)

LifeOf(n) == IF issue[n].known THEN StatusOf(n) ELSE "unknown"
PaidFor(n) == Cardinality({s \in SessionIds : billed[s][1] = n})

REMEDIATION == INSTANCE Remediation WITH
    life <- [n \in Issues |-> LifeOf(n)],
    wish <- [n \in Issues |-> issue[n].known /\ WantsSession(issue[n])],
    owed <- IF pc = "create" THEN {frame.issue} ELSE {},
    paid <- [n \in Issues |-> PaidFor(n)]

\* An issue is paid for once for each time a person asked, through failed calls,
\* repeated labels, superseded sessions and crashes, only while it waits for
\* nothing else; and a merge is the end of it (orchestrator.py:20-24, 218-343).
RemediationSpec == REMEDIATION!Spec

TICKS == INSTANCE Ticks WITH forced <- forced /\ pass # "none"

\* The passes of a tick follow one another in the order the tick lock's side of
\* the service gives them (TickLock), whatever the handlers do, and a pass that
\* is not due is left out (orchestrator.py:110-119).
TickOrder == TICKS!Spec

-----------------------------------------------------------------------------
(* Progress *)

\* run_forever never stops ticking and a handler always returns (every call has
\* a time limit).  Time passes whatever the loop does, so a deadline that can
\* pass again and again does pass.
Fairness ==
    /\ WF_vars(Loop)
    /\ SF_vars(\E s \in SessionIds : GraceElapses(s))
    /\ SF_vars(\E s \in SessionIds : SessionAges(s))
    /\ SF_vars(\E p \in Pulls : PullGoesStale(p))

FairSpec == Spec /\ Fairness

\* "It does not stall invisibly" (orchestrator.py:25), first for an issue that
\* waits for a slot: it gets its session, or a person is told.
QueuedIsServed ==
    \A n \in Issues :
        (issue[n].known /\ StatusOf(n) = "queued") ~> (StatusOf(n) # "queued")

\* For a session blocked on a question nobody answers: the nudges run out and a
\* person is asked (README.md, "When Devin asks a question").
BlockedIsEscalated ==
    \A s \in SessionIds :
        (session[s].issue # 0 /\ IsBlocked(session[s]))
        ~> \/ session[s].closed # None \/ ~IsBlocked(session[s])
           \/ \E n \in Issues : n = session[s].issue
                                 /\ issue[n].reason = "blocked_on_question"

\* And for a pull request that never moves.
PullIsWatched ==
    \A p \in Pulls :
        (p \in TrackedPulls)
        ~> \/ p \notin TrackedPulls
           \/ \E n \in Issues : n = pull[p].issue /\ issue[n].reason # None
=============================================================================
