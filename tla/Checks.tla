------------------------------- MODULE Checks -------------------------------
(***************************************************************************)
(* app/clients/github.py: what a listing of check runs says of a commit.   *)
(* A check run is a record with status and conclusion (None until it       *)
(* completes).  The set of failing conclusions is shared with the webhook  *)
(* handlers, so that the two cannot disagree.                              *)
(***************************************************************************)
EXTENDS State, Sequences

FailingConclusions == {"failure", "timed_out", "cancelled", "action_required"}

Failed(r) == r.conclusion \in FailingConclusions
Completed(r) == r.status = "completed"

\* checks_settled; "pending" is the answer that is not settled.
Verdict(runs) ==
    IF runs = <<>> \/ \E i \in DOMAIN runs : ~Completed(runs[i]) THEN "pending"
    ELSE IF \E i \in DOMAIN runs : Failed(runs[i]) THEN "failure"
    ELSE "success"

Failures(runs) == {i \in DOMAIN runs : Failed(runs[i])}

\* A mutant: the summary has a set of its own, without the cancelled runs.
FailedSummaryOmits(runs, limit) ==
    {i \in Failures(runs) :
        /\ runs[i].conclusion = "failure"
        /\ Cardinality({j \in Failures(runs) : j <= i}) <= limit}

\* failed_check_summary: the first runs that failed, by their places.
FailedSummary(runs, limit) ==
    {i \in Failures(runs) : Cardinality({j \in Failures(runs) : j <= i}) <= limit}
=============================================================================
