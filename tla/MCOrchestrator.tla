--------------------------- MODULE MCOrchestrator ---------------------------
(* Instances of the reconcile loop for TLC: each run picks its events and  *)
(* Devin's answers from the sets defined here.                             *)
EXTENDS OrchestratorProps

E(id, kind, n, p, sha) ==
    [id |-> id, kind |-> kind, issue |-> n, pull |-> p, sha |-> sha]
Labeled(id, n) == E(id, "issue_labeled", n, 0, None)
Reply(id, n)   == E(id, "issue_comment", n, 0, None)
Review(id, p)  == E(id, "review_comment", 0, p, None)
CiFailed(id, p, sha) == E(id, "ci_failed", 0, p, sha)
PrClosed(id, p) == E(id, "pr_closed", 0, p, None)

O(status, detail, final, pulls) ==
    [status |-> status, detail |-> detail, final |-> final, pulls |-> pulls,
     foreign |-> FALSE, acus |-> 0]

NoEvents == {}

\* The first issue is labelled once or twice, besides the resync that may find
\* it first; any other is found by resync alone.
RetryEvent == {Labeled(1, 1)}
RetryEvents == {Labeled(1, 1), Labeled(2, 1)}

\* Two answers to Devin's question.
ReplyEvents == {Reply(1, 1), Reply(2, 1)}

\* A red commit, then a person.
RedEvents == {CiFailed(1, 1, "a"), CiFailed(2, 1, None), Reply(3, 1)}

\* A reviewer, a person, and the end of the pull request.
ReviewEvents == {Review(1, 1), Reply(2, 1), PrClosed(3, 1)}

Working  == O("running", "working", FALSE, {})
Asleep   == O("suspended", "inactivity", FALSE, {})
Blocked  == O("running", "waiting_for_user", FALSE, {})
Halted   == O("suspended", "out_of_credits", FALSE, {})
Dead     == O("error", None, FALSE, {})
\* Reports success with no pull request.
Finished == O("running", "finished", TRUE, {})
\* Opened the pull request and went to sleep, went on working, or ended.
AsleepWithPull  == O("suspended", "inactivity", FALSE, {1})
WorkingWithPull == O("running", "working", FALSE, {1})
EndedWithPull   == O("exit", None, FALSE, {1})
Spending(o, acus) == [o EXCEPT !.acus = acus]

LifecycleObservations == {Asleep, Finished, Halted, Dead}
BlockedObservations == {Working, Blocked, Asleep, Dead}
OnlyBlocked == {Blocked}
OnlyFinished == {Finished}
IdleObservations == {Blocked, AsleepWithPull}
PullObservations == {AsleepWithPull, EndedWithPull}
SettlingObservations == {AsleepWithPull, WorkingWithPull, EndedWithPull}
SpendingObservations == {Spending(Working, 0), Spending(Asleep, 2)}
=============================================================================
