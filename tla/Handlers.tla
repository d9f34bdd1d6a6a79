------------------------------ MODULE Handlers ------------------------------
(***************************************************************************)
(* app/webhooks/handlers.py: from a GitHub event to an intent, or to none. *)
(* A payload is a record with the fields the routing reads:                *)
(*   event, action    the X-GitHub-Event header and the action             *)
(*   label            the label of an issues event                         *)
(*   number           the issue or pull request, 0 if it is no number      *)
(*   author           [login, type, association] of a comment              *)
(*   text             the comment's body is not blank                      *)
(*   comment          its id, 0 if it is no number                         *)
(*   conclusion, sha  of a workflow run; sha is None if it is no sha       *)
(*   pulls            the numbers of its pull requests                     *)
(* (the truncation and the trimming of a comment are left out).            *)
(***************************************************************************)
EXTENDS Checks

CONSTANT TriggerLabel   \* trigger_label

TrustedAssociations == {"OWNER", "MEMBER", "COLLABORATOR"}

\* A mutant: an unknown identity excludes nobody.
MayReachTheAgentOpen(author, own) ==
    /\ author.login # own
    /\ author.type # "Bot"
    /\ author.association \in TrustedAssociations

\* Fails closed: while the service does not know its own login, nobody's text is
\* forwarded (logins are compared without regard to case).
MayReachTheAgent(author, own) ==
    /\ own # None
    /\ author.login # own
    /\ author.type # "Bot"
    /\ author.association \in TrustedAssociations

NoIntent == [kind |-> None, number |-> 0, author |-> None, comment |-> 0,
             sha |-> None]

Intent(kind, number) ==
    IF number = 0 THEN NoIntent
    ELSE [NoIntent EXCEPT !.kind = kind, !.number = number]

\* _comment_fields, for comments on an issue and in a review alike.
CommentIntent(kind, p, own) ==
    IF /\ p.action = "created"
       /\ MayReachTheAgent(p.author, own)
       /\ p.text /\ p.comment # 0 /\ p.number # 0
    THEN [Intent(kind, p.number) EXCEPT !.author = p.author.login,
                                        !.comment = p.comment]
    ELSE NoIntent

IssuesIntent(p) ==
    IF p.action = "labeled" /\ p.label = TriggerLabel
    THEN Intent("issue_labeled", p.number) ELSE NoIntent

\* Only the first pull request of the run counts.
WorkflowRunIntent(p) ==
    IF /\ p.action = "completed"
       /\ p.conclusion \in FailingConclusions
       /\ p.pulls # <<>> /\ Head(p.pulls) # 0
    THEN [Intent("ci_failed", Head(p.pulls)) EXCEPT !.sha = p.sha]
    ELSE NoIntent

PullRequestIntent(p) ==
    IF p.action = "closed" THEN Intent("pr_closed", p.number) ELSE NoIntent

ToIntent(p, own) ==
    CASE p.event = "issues" -> IssuesIntent(p)
      [] p.event = "issue_comment" -> CommentIntent("issue_comment", p, own)
      [] p.event = "pull_request_review_comment" ->
            CommentIntent("review_comment", p, own)
      [] p.event = "workflow_run" -> WorkflowRunIntent(p)
      [] p.event = "pull_request" -> PullRequestIntent(p)
      [] OTHER -> NoIntent
=============================================================================
