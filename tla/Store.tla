------------------------------- MODULE Store -------------------------------
(***************************************************************************)
(* app/db/repo.py and app/db/schema.sql: the tables the service keeps in   *)
(* SQLite and the Repo methods that change them.  A Repo method is one     *)
(* transaction, so each is an operator that primes the one table it writes *)
(* (reset_budgets writes two).  The tables are all that survives a crash.  *)
(*                                                                         *)
(* Left out: the columns and tables that only the dashboard and the        *)
(* metrics read (titles, urls, tags, counters, interventions,              *)
(* session_events, structured_output, ever_blocked, ci_settled_*,          *)
(* ci_conclusion, the insight counts).  Timestamps are kept as the facts   *)
(* the code compares them for.                                             *)
(***************************************************************************)
EXTENDS State, FiniteSetsExt

CONSTANTS
    Issues,         \* issue numbers
    MaxSessions,    \* bound: the sessions Devin ever creates
    Pulls,          \* pull request numbers of our repository
    Shas,           \* head commits
    Events,         \* webhook intents that may arrive, one row each
    Acus            \* the ACU figures a session may report

\* A session id is its place in creation order (ORDER BY created_at).
SessionIds == 1..MaxSessions

\* kind and payload of an inbox row: issue for issue_labeled and issue_comment,
\* pull for the others, sha for ci_failed (None when the payload has none).
EventKinds == {"issue_labeled", "issue_comment", "ci_failed",
               "review_comment", "pr_closed"}

ASSUME StoreAssumption ==
    /\ Issues \subseteq Nat \ {0} /\ IsFiniteSet(Issues)
    /\ MaxSessions \in Nat
    /\ Pulls \subseteq Nat \ {0} /\ IsFiniteSet(Pulls)
    /\ None \notin Shas
    /\ Acus \subseteq Nat /\ 0 \in Acus
    /\ IsFiniteSet(Events)
    /\ \A e \in Events :
          /\ e.kind \in EventKinds
          /\ e.id \in Nat /\ e.sha \in Shas \cup {None}
          /\ IF e.kind \in {"issue_labeled", "issue_comment"}
             THEN e.issue \in Issues ELSE e.pull \in Pulls

VARIABLES
    issue,      \* the issues table
    session,    \* the sessions table
    pull,       \* the pull_requests table
    done,       \* the keys of done_effects
    inbox       \* the inbox table

storeVars == <<issue, session, pull, done, inbox>>

Reasons == {"blocked_on_question", "cost_halt", "session_error",
            "session_timeout", "ci_unresolved", "start_failed",
            "budget_exhausted", "pr_closed_unmerged", "merge_conflict",
            "pr_stale", "not_fixed", "inbox_abandoned"}

\* Rows that are not there yet have known = FALSE, issue = 0 or state "unseen".
NoIssue == [known |-> FALSE, attempts |-> 0, retry |-> FALSE, reason |-> None,
            episode |-> 0]
NoSession == [issue |-> 0, attempt |-> 0, status |-> None, detail |-> None,
              acus |-> 0, nudges |-> 0, nudge_base |-> 0, grace |-> FALSE,
              aged |-> FALSE, produced |-> FALSE, closed |-> None]
NoPull == [issue |-> 0, session |-> 0, rounds |-> 0, rounds_base |-> 0,
           last_sha |-> None, merged |-> FALSE, closed |-> FALSE,
           stale |-> FALSE]
Unseen == [state |-> "unseen", id |-> 0, attempts |-> 0]

\* init_schema on an empty file.
StoreInit ==
    /\ issue = [n \in Issues |-> NoIssue]
    /\ session = [s \in SessionIds |-> NoSession]
    /\ pull = [p \in Pulls |-> NoPull]
    /\ done = {}
    /\ inbox = [e \in Events |-> Unseen]

-----------------------------------------------------------------------------
(* Queries *)

SessionsOf(n) == {s \in SessionIds : session[s].issue = n}
PullsOf(n) == {p \in Pulls : pull[p].issue = n}
KnownPull(p) == p \in Pulls /\ pull[p].issue # 0

\* Orchestrator.contexts and effects read one status for everything.
StatusOf(n) == IssueStatus(issue[n], {session[s] : s \in SessionsOf(n)},
                           {pull[p] : p \in PullsOf(n)})

\* latest_session_for_issue; 0 when the issue has none.
LatestSession(n) == IF SessionsOf(n) = {} THEN 0 ELSE Max(SessionsOf(n))

\* The session the row of a pull request names, if both rows are there.
SessionOfPull(p) ==
    IF KnownPull(p) /\ session[pull[p].session].issue # 0
    THEN pull[p].session ELSE 0

\* tracked_pull_requests
TrackedPulls == {p \in Pulls : KnownPull(p) /\ ~pull[p].merged /\ ~pull[p].closed}

\* total_acus
TotalAcus == SumFunction([s \in SessionIds |-> session[s].acus])

\* pending_inbox(limit): the limit oldest rows not dispatched.
Pending == {e \in Events : inbox[e].state = "pending"}
PendingInbox(limit) ==
    {e \in Pending :
        Cardinality({f \in Pending : inbox[f].id < inbox[e].id}) < limit}

\* count_effects("pr:{p}:conflict:")
ConflictRounds(p) == Cardinality({k \in done : k[1] = "conflict" /\ k[2] = p})

-----------------------------------------------------------------------------
(* Issues *)

RegisterIssue(n) == issue' = [issue EXCEPT ![n].known = TRUE]

\* A mutant: the attempt is not reserved.
BeginAttemptNotReserved(n) == issue' = [issue EXCEPT ![n].retry = FALSE]

\* last_attempt_at = now, so an earlier retry request is answered by it.
BeginAttempt(n) ==
    issue' = [issue EXCEPT ![n].attempts = @ + 1, ![n].retry = FALSE]

RequestRetry(n) == issue' = [issue EXCEPT ![n].retry = TRUE]

\* flag_for_human has news unless this very reason is already raised.  The
\* stamp it returns is the start of the episode; episodes are numbered.
FlagIsNews(n, reason) == issue[n].known /\ issue[n].reason # reason

\* A mutant: the episode is the first one, for ever.
EpisodeOfFirst(n) == 1

EpisodeOf(n) == IF issue[n].reason = None THEN issue[n].episode + 1
                ELSE issue[n].episode

FlagForHuman(n, reason) ==
    IF FlagIsNews(n, reason)
    THEN issue' = [issue EXCEPT ![n].episode = EpisodeOf(n), ![n].reason = reason]
    ELSE UNCHANGED issue

ClearHumanFlag(n) == issue' = [issue EXCEPT ![n].reason = None]

-----------------------------------------------------------------------------
(* Sessions *)

CreateSessionRow(s, n, attempt) ==
    session' = [session EXCEPT ![s] = [NoSession EXCEPT !.issue = n,
                                                        !.attempt = attempt]]

\* acus, produced_at and closed_at never go backwards.
RecordPoll(s, o, produced, reason) ==
    session' = [session EXCEPT
        ![s].status = o.status, ![s].detail = o.detail,
        ![s].acus = IF o.acus > @ THEN o.acus ELSE @,
        ![s].produced = @ \/ produced,
        ![s].closed = IF @ = None THEN reason ELSE @]

\* A mutant: the decision is written over the polled status.
CloseSessionAsStatus(s, reason) == session' = [session EXCEPT ![s].status = reason]

CloseSession(s, reason) ==
    session' = [session EXCEPT ![s].closed = IF @ = None THEN reason ELSE @]

MarkMessageSent(s) == session' = [session EXCEPT ![s].grace = TRUE]

BumpNudges(s) == session' = [session EXCEPT ![s].nudges = @ + 1]

\* A mutant: the counter is rewound instead of its base moving up.
ResetBudgetsRewinds(s) ==
    /\ session' = [session EXCEPT ![s].nudges = 0]
    /\ pull' = [p \in Pulls |->
                  IF pull[p].session = s
                  THEN [pull[p] EXCEPT !.rounds = 0, !.last_sha = None]
                  ELSE pull[p]]

\* A mutant: only the CI budget starts again.
ResetBudgetsCiOnly(s) ==
    /\ session' = session
    /\ pull' = [p \in Pulls |->
                  IF pull[p].session = s
                  THEN [pull[p] EXCEPT !.rounds_base = pull[p].rounds,
                                       !.last_sha = None]
                  ELSE pull[p]]

ResetBudgets(s) ==
    /\ session' = [session EXCEPT ![s].nudge_base = session[s].nudges]
    /\ pull' = [p \in Pulls |->
                  IF pull[p].session = s
                  THEN [pull[p] EXCEPT !.rounds_base = pull[p].rounds,
                                       !.last_sha = None]
                  ELSE pull[p]]

\* apply_insight for the rows of one Analytics page; f gives the figure each
\* session is reported with.
ApplyInsights(f) ==
    session' = [s \in SessionIds |->
        IF session[s].issue # 0
        THEN [session[s] EXCEPT !.acus = IF f[s] > @ THEN f[s] ELSE @]
        ELSE session[s]]

-----------------------------------------------------------------------------
(* Pull requests *)

\* A mutant: INSERT OR REPLACE.
UpsertPullsReplaces(ps, s) ==
    pull' = [p \in Pulls |->
               IF p \in ps
               THEN [NoPull EXCEPT !.issue = session[s].issue, !.session = s]
               ELSE pull[p]]

\* upsert_pr of each pull request a poll lists; INSERT OR IGNORE.
UpsertPulls(ps, s) ==
    pull' = [p \in Pulls |->
               IF p \in ps /\ ~KnownPull(p)
               THEN [NoPull EXCEPT !.issue = session[s].issue, !.session = s]
               ELSE pull[p]]

MarkMerged(p) == pull' = [pull EXCEPT ![p].merged = TRUE]
MarkClosed(p) == pull' = [pull EXCEPT ![p].closed = TRUE]

\* A mutant: the commit is recorded, the round is not counted.
CountCiRoundLost(p, sha) == pull' = [pull EXCEPT ![p].last_sha = sha]

CountCiRound(p, sha) ==
    pull' = [pull EXCEPT ![p].rounds = @ + 1, ![p].last_sha = sha]

-----------------------------------------------------------------------------
(* Inbox *)

\* An INTEGER PRIMARY KEY: no row is ever deleted, so the next id is one more than
\* the rows there are.  The id of a row that is dispatched is not read again.
Arrived == {f \in Events : inbox[f].state # "unseen"}

Enqueue(e) ==
    inbox' = [inbox EXCEPT ![e] = [state |-> "pending", attempts |-> 0,
                                   id |-> 1 + Cardinality(Arrived)]]

MarkDispatched(e) ==
    inbox' = [inbox EXCEPT ![e].state = "dispatched", ![e].id = 0]

MaxInboxAttempts == 3

GivesUp(e) == inbox[e].attempts + 1 >= MaxInboxAttempts

\* A mutant: the row is given up on after the first failure.
RecordInboxFailureDrops(e) ==
    inbox' = [inbox EXCEPT ![e].attempts = @ + 1,
                           ![e].state = "dispatched", ![e].id = 0]

RecordInboxFailure(e) ==
    inbox' = [inbox EXCEPT ![e].attempts = @ + 1,
                           ![e].state = IF GivesUp(e) THEN "dispatched" ELSE @,
                           ![e].id = IF GivesUp(e) THEN 0 ELSE @]

-----------------------------------------------------------------------------
MarkDone(key) == done' = done \cup {key}
=============================================================================
