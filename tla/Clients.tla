------------------------------- MODULE Clients -------------------------------
(***************************************************************************)
(* The two API clients at work: a listing whose pages are calls, or a      *)
(* single POST, each through request_with_retry, while the collection      *)
(* changes.                                                                *)
(***************************************************************************)
EXTENDS Listing

clientVars == <<httpVars, listingVars>>

Init == HttpInit /\ ListingInit

\* create_session, send_message, comment, add_label.
Post == reading = "no" /\ Call(FALSE) /\ UNCHANGED listingVars

PostEnds == reading = "no" /\ Collect /\ UNCHANGED listingVars

Underway ==
    /\ (\E reply \in Replies : Attempt(reply)) \/ Waits \/ ArrivesLate
    /\ UNCHANGED listingVars

Changes == (Appears \/ Completes \/ Disappears) /\ UNCHANGED httpVars

Next ==
    \/ Post \/ PostEnds \/ Underway \/ Changes
    \/ Begin \/ AskPage \/ TakePage \/ PageFails \/ End

Spec == Init /\ [][Next]_clientVars

-----------------------------------------------------------------------------
(* Properties *)

Returned(k) == reading = "returned" /\ kind = k

\* Beyond that a listing is cut off (github.py:98, 151; devin.py:139).
Fits == Len(list) <= PageLimit * PerPage

\* Every labelled issue comes out of the listing, though others are labelled on
\* earlier pages while it is read; for each one that was closed there one may be
\* missing, and no more (github.py:94-109).
IssuesMissed ==
    {id \in settled \ IssuesFound :
        \E i \in DOMAIN list : list[i] = [id |-> id, is |-> "issue"]}

IssuesNotMissed ==
    Returned("issues") /\ Fits => Cardinality(IssuesMissed) <= lost

\* Green says that there are checks, and that each one listed all the while had
\* passed as its page was read: none is left out on a later page or still queued,
\* but one for each check that was re-run away from a page already read.  So
\* green may be unearned then, and only then (github.py:131-177).
PassedRuns == {Runs[i].id : i \in {j \in DOMAIN Runs : Runs[j].conclusion = "success"}}

GreenIsEarned ==
    Returned("check_runs") /\ red = {} /\ Fits /\ Verdict(Runs) = "success" =>
        /\ found # <<>>
        /\ Cardinality(settled \ PassedRuns) <= lost

\* A check that failed in the first reading has a name in the second, unless it was
\* re-run since or slipped past its page.  When the two readings could disagree
\* for good, CI had failed and there was nothing to say about it for ever
\* (github.py:25-28, orchestrator.py:697-702).
RedIsNamed ==
    Returned("check_runs") /\ red # {} /\ Fits /\ FailedSummary(Runs, Limit) = {} =>
        Cardinality(red \cap IdsOf(list)) <= lost

\* The question that is quoted is no older than the newest one Devin had asked
\* when the reading began, if every page that named a next one gave its cursor
\* (devin.py:129-152).
LatestQuoted ==
    Returned("messages") /\ Fits /\ ~cutOff =>
        \A i \in DOMAIN list :
            list[i].id \in settled /\ list[i].is = "devin" =>
                \E j \in DOMAIN list : i <= j /\ list[j].id = Latest
=============================================================================
