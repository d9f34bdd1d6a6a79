----------------------------- MODULE Remediation -----------------------------
(***************************************************************************)
(* What the orchestrator promises about an issue, whatever fails and       *)
(* whenever it restarts: work is paid for because a person asked for it,   *)
(* once for each time they did, and what is merged is finished.            *)
(***************************************************************************)
EXTENDS Naturals

CONSTANT Issues

VARIABLES
    life,   \* what the dashboard says of the issue; "unknown" before
    wish,   \* a person asked for work that was not taken on yet
    owed,   \* work that was taken on, whose one payment is still to come
    paid    \* how often it was paid for

Lives == {"queued", "in_progress", "pr_open", "awaiting_human", "exhausted",
          "merged"}

Init ==
    /\ life = [n \in Issues |-> "unknown"]
    /\ wish = [n \in Issues |-> FALSE] /\ owed = {}
    /\ paid = [n \in Issues |-> 0]

Becomes(n, l) == life' = [life EXCEPT ![n] = l]

\* The label is applied, for the first time or again.
Ask(n) ==
    /\ wish' = [wish EXCEPT ![n] = TRUE]
    /\ Becomes(n, IF life[n] \in {"merged", "awaiting_human", "pr_open"}
                  THEN life[n] ELSE "queued")
    /\ UNCHANGED <<owed, paid>>

\* Only of an issue that waits for nothing else.
TakeOn(n) ==
    /\ life[n] = "queued" /\ wish[n] /\ owed = {}
    /\ wish' = [wish EXCEPT ![n] = FALSE]
    /\ owed' = {n}
    /\ \E l \in {"in_progress", "exhausted"} : Becomes(n, l)
    /\ UNCHANGED paid

Pay(n) ==
    /\ n \in owed
    /\ owed' = {}
    /\ paid' = [paid EXCEPT ![n] = @ + 1]
    /\ UNCHANGED <<life, wish>>

\* A call that failed, or a crash: it is not tried again.
GiveUp == owed # {} /\ owed' = {} /\ UNCHANGED <<life, wish, paid>>

\* The session moves, a person is asked or answers, pull requests come and go.
Move(n) ==
    /\ life[n] \notin {"unknown", "merged"}
    /\ \E l \in Lives : (l = "queued" => wish[n]) /\ Becomes(n, l)
    /\ UNCHANGED <<wish, owed, paid>>

Next ==
    \/ \E n \in Issues : Ask(n) \/ TakeOn(n) \/ Pay(n) \/ Move(n)
    \/ GiveUp

vars == <<life, wish, owed, paid>>

Spec == Init /\ [][Next]_vars
=============================================================================
