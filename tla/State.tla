------------------------------- MODULE State -------------------------------
(***************************************************************************)
(* app/core/state.py: facts -> session liveness and issue status.  Every   *)
(* status of the system is one of these functions of the stored rows, so   *)
(* they are used by each module that reads a row.                          *)
(*                                                                         *)
(* A session row is a record with (at least)                               *)
(*   status, detail   the last polled pair (status_detail is "detail")     *)
(*   closed           closed_reason, None while closed_at is NULL          *)
(*   produced         produced_at is set                                   *)
(* an issue row one with attempts, retry and reason, where                 *)
(*   retry            retry_requested_at is later than the last attempt    *)
(*   reason           needs_human_reason, None while no flag is raised     *)
(* and a pull request row one with merged and closed (the stamps are set). *)
(***************************************************************************)
EXTENDS Naturals, FiniteSets

\* SQL NULL.
None == "none"

\* COST_HALT_DETAILS: suspended details no message revives.
CostHaltDetails ==
    {"usage_limit_exceeded", "org_usage_limit_exceeded",
     "user_usage_limit_exceeded", "total_session_limit_exceeded",
     "out_of_credits", "out_of_quota", "no_quota_allocation",
     "payment_declined"}

\* Why the polled pair says the session cannot be revived, if it does.  The
\* "cost_halt:<detail>" strings are one value: only their prefix is read.
ClosingReason(status, detail) ==
    IF status = "exit" THEN "exit"
    ELSE IF status = "error" THEN "error"
    ELSE IF status = "suspended" /\ detail \in CostHaltDetails THEN "cost_halt"
    ELSE IF status = "suspended" /\ detail = "error" THEN "error"
    ELSE None

Liveness(s) ==
    IF s.closed # None \/ s.status \in {"exit", "error"} THEN "closed"
    ELSE IF s.status = "suspended"
         THEN IF s.detail \in CostHaltDetails \cup {"error"}
              THEN "closed" ELSE "sleeping"
    ELSE "live"

IsClosed(s) == Liveness(s) = "closed"

IsBlocked(s) ==
    /\ s.status = "running"
    /\ s.detail \in {"waiting_for_user", "waiting_for_approval"}

\* final: is_final_output holds of the structured output, that is, its outcome
\* is one of the three the schema calls terminal.
HasProduced(s, final, hasPull) ==
    \/ s.detail = "finished"
    \/ final
    \/ hasPull /\ Liveness(s) \in {"sleeping", "closed"}

-----------------------------------------------------------------------------
WantsSession(i) == i.attempts = 0 \/ i.retry

\* A mutant: a retry request outranks the flag.
NeedsHumanUnlessRetried(i) == i.reason # None /\ ~i.retry

NeedsHuman(i) == i.reason # None

\* The precedence order of issue_status; sessions and pulls are the sets of
\* rows of the issue.  opened_at is set on every row upsert_pr writes.
IssueStatus(i, sessions, pulls) ==
    IF \E p \in pulls : p.merged THEN "merged"
    ELSE IF NeedsHuman(i) THEN "awaiting_human"
    ELSE IF \E p \in pulls : ~p.merged /\ ~p.closed THEN "pr_open"
    ELSE IF WantsSession(i) THEN "queued"
    ELSE IF \E s \in sessions : ~IsClosed(s) /\ ~s.produced THEN "in_progress"
    ELSE "exhausted"

\* A mutant: only awake sessions count against the cap.
OccupiesSlotWhenAwake(s, terminal) == ~terminal /\ Liveness(s) = "live"

OccupiesSlot(s, terminal) == ~terminal /\ ~IsClosed(s)
=============================================================================
