------------------------------- MODULE Listing -------------------------------
(***************************************************************************)
(* The paginated reads of app/clients/github.py and app/clients/devin.py:  *)
(*   check_runs               by page number, until total_count are read   *)
(*   list_issues_with_label   by page number, until a short page           *)
(*   latest_devin_message     by cursor, until there is no next page       *)
(* Every page is a call of its own, repeated by request_with_retry (Http), *)
(* and the collection changes in between, at any place of it; messages are *)
(* only ever appended.  If a page cannot be had the whole listing raises.  *)
(*                                                                         *)
(* check_runs is read for checks_settled, and once more, from the first    *)
(* page on, for failed_check_summary if the first answer was "failure".    *)
(*                                                                         *)
(* An item is [id, is]: a check run is "queued", "passed" or "cancelled",  *)
(* what the label is on an "issue" or a "pull", and a message "devin"'s or *)
(* the "user"'s.                                                           *)
(***************************************************************************)
EXTENDS Checks, Http, SequencesExt

CONSTANTS
    Ids,        \* items there may be; 0 is none of them
    PerPage,    \* per_page, or first
    PageLimit,  \* the page after which the client gives up
    Limit,      \* limit of failed_check_summary
    MaxChanges  \* bound: changes of the collection up to the end of a reading

ASSUME ListingAssumption ==
    /\ Ids \subseteq Nat \ {0} /\ IsFiniteSet(Ids)
    /\ {PerPage, PageLimit, Limit} \subseteq Nat \ {0} /\ MaxChanges \in Nat

VARIABLES
    kind,       \* the collection that is read
    list,       \* GitHub or Devin: the collection, as it is paged
    reading,    \* "no", "yes", and then "returned" or "raised"
    page,       \* the page it is at; for messages, one more than were read
    cursor,     \* end_cursor of the last page of messages, 0 before
    found,      \* the items read, page after page
    red,        \* the failed runs checks_settled found, if names are asked for next;
                \* the caller keeps only that there are some
    settled,    \* history: the items listed ever since the reading began
    lost,       \* history: how many disappeared from the pages already read
    cutOff,     \* history: a page named a next one and gave no end_cursor
    changes     \* history: changes made since the last reading ended

listingVars == <<kind, list, reading, page, cursor, found, red, settled, lost, cutOff,
                 changes>>

Kinds == {"check_runs", "issues", "messages"}
States(k) ==
    CASE k = "check_runs" -> {"queued", "passed", "cancelled"}
      [] k = "issues" -> {"issue", "pull"}
      [] OTHER -> {"devin", "user"}

IdsOf(items) == {items[i].id : i \in DOMAIN items}
InitialLists(k) ==
    UNION {[1..n -> {[id |-> 0, is |-> s] : s \in States(k)}] : n \in 0..Cardinality(Ids)}

ListingInit ==
    /\ kind \in Kinds
    /\ \E items \in InitialLists(kind) :
          list = [i \in DOMAIN items |-> [items[i] EXCEPT !.id = i]]
    /\ reading = "no" /\ page = 1 /\ cursor = 0 /\ found = <<>> /\ red = {}
    /\ settled = {} /\ lost = 0 /\ cutOff = FALSE /\ changes = 0

\* What the next page comes behind: by number, or by cursor.
Behind ==
    IF kind = "messages"
    THEN IF cursor = 0 THEN 0 ELSE CHOOSE i \in DOMAIN list : list[i].id = cursor
    ELSE (page - 1) * PerPage

-----------------------------------------------------------------------------
(* The collection, on the far side *)

\* While it is read, and between the two readings; a first reading may find any.
Change ==
    /\ reading = "yes" \/ (reading = "no" /\ red # {})
    /\ changes < MaxChanges
    /\ changes' = changes + 1
    /\ UNCHANGED <<kind, reading, page, cursor, found, red, cutOff>>

\* A check starts, an issue is labelled, a message is written.  Its id is new.
Appears ==
    /\ Change
    /\ \E id \in Ids \ (IdsOf(list) \cup IdsOf(found) \cup red),
          s \in States(kind), at \in 1..(Len(list) + 1) :
          /\ kind = "messages" => at = Len(list) + 1
          /\ list' = InsertAt(list, at, [id |-> id, is |-> s])
    /\ UNCHANGED <<settled, lost>>

Completes ==
    /\ Change
    /\ \E i \in DOMAIN list, s \in {"passed", "cancelled"} :
          /\ list[i].is = "queued"
          /\ list' = [list EXCEPT ![i].is = s]
    /\ UNCHANGED <<settled, lost>>

\* A check is re-run, an issue is closed or unlabelled.  The items behind it move
\* up by one place: if it was on a page already read, the first item of the next
\* page moves onto that page, and is not read.
Disappears ==
    /\ Change /\ kind # "messages"
    /\ \E i \in DOMAIN list :
          /\ list' = RemoveAt(list, i)
          /\ settled' = settled \ {list[i].id}
          /\ lost' = lost + (IF i <= Behind THEN 1 ELSE 0)

-----------------------------------------------------------------------------
(* What is made of the items *)

RunOf(item) ==
    [id |-> item.id,
     status |-> IF item.is = "queued" THEN "queued" ELSE "completed",
     conclusion |-> CASE item.is = "queued" -> None
                      [] item.is = "passed" -> "success"
                      [] OTHER -> "cancelled"]

Runs == [i \in DOMAIN found |-> RunOf(found[i])]

\* list_issues_with_label leaves the pull requests out.
IssuesFound == {found[i].id : i \in {j \in DOMAIN found : found[j].is = "issue"}}

\* latest keeps the last of Devin's messages, page after page; 0 if there is none.
DevinsFound == {i \in DOMAIN found : found[i].is = "devin"}
Latest == IF DevinsFound = {} THEN 0 ELSE found[Max(DevinsFound)].id

-----------------------------------------------------------------------------
(* The client *)

Begin ==
    /\ reading = "no" /\ phase = "idle"
    /\ reading' = "yes" /\ settled' = IdsOf(list)
    /\ UNCHANGED <<kind, list, page, cursor, found, red, lost, cutOff, changes, httpVars>>

AskPage ==
    /\ reading = "yes"
    /\ Call(TRUE)
    /\ UNCHANGED listingVars

Batch ==
    SubSeq(list, Behind + 1,
           IF Behind + PerPage < Len(list) THEN Behind + PerPage ELSE Len(list))

\* A mutant: one page is enough.
IsLastPageAlways(batch) == TRUE

\* Where each loop ends.  Repeats count towards the total.
IsLastPage(batch) ==
    \/ page = PageLimit
    \/ kind = "check_runs" /\ (batch = <<>> \/ Len(found) + Len(batch) >= Len(list))
    \/ kind = "issues" /\ Len(batch) < PerPage
    \/ kind = "messages" /\ Behind + Len(batch) = Len(list)

\* What is read is the collection as it is when the page is made.  A page of
\* messages that names a next one and gives no end_cursor ends the reading.
TakePage ==
    /\ reading = "yes" /\ phase = "returned"
    /\ Collect
    /\ found' = found \o Batch
    /\ \/ /\ IsLastPage(Batch)
          /\ reading' = "returned"
          /\ UNCHANGED <<page, cursor, cutOff>>
       \/ /\ ~IsLastPage(Batch)
          /\ page' = page + 1
          /\ cursor' = IF kind = "messages" THEN Last(Batch).id ELSE 0
          /\ UNCHANGED <<reading, cutOff>>
       \/ /\ ~IsLastPage(Batch) /\ kind = "messages"
          /\ reading' = "returned" /\ cursor' = 0 /\ cutOff' = TRUE
          /\ UNCHANGED page
    /\ UNCHANGED <<kind, list, red, settled, lost, changes>>

PageFails ==
    /\ reading = "yes" /\ phase = "raised"
    /\ Collect
    /\ reading' = "raised"
    /\ UNCHANGED <<kind, list, page, cursor, found, red, settled, lost, cutOff, changes>>

\* The reading was for checks_settled, and CI has failed.
ReadsRed ==
    /\ kind = "check_runs" /\ reading = "returned" /\ red = {}
    /\ Verdict(Runs) = "failure"

\* The caller is done with the answer.  If it is "failure" the caller asks for the
\* names, unless the commit is recorded already or no round is left.
End ==
    /\ reading \in {"returned", "raised"}
    /\ \/ red' = {}
       \/ ReadsRed /\ red' = {found[i].id : i \in Failures(Runs)}
    /\ reading' = "no" /\ page' = 1 /\ cursor' = 0 /\ found' = <<>>
    /\ settled' = {} /\ lost' = 0 /\ cutOff' = FALSE /\ changes' = 0
    /\ UNCHANGED <<kind, list, httpVars>>
=============================================================================
