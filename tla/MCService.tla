------------------------------ MODULE MCService ------------------------------
(* An instance of the whole process for TLC: two events of one issue, some *)
(* GUIDs, an operator.                                                      *)
EXTENDS Service

Labelled == [NoPayload EXCEPT !.event = "issues", !.action = "labeled",
                              !.label = TriggerLabel, !.number = 1, !.repo = "ours"]

CommentBy(id, login) ==
    [NoPayload EXCEPT !.event = "issue_comment", !.action = "created",
                      !.number = 1, !.text = TRUE, !.comment = id, !.repo = "ours",
                      !.author = [login |-> login, type |-> "User",
                                  association |-> "OWNER"]]

Echo == CommentBy(2, Self)

MCPayloads == {Labelled, Echo}

\* Each event is redelivered under its own GUID; the label also under another's.
MCRequests ==
    {[guid |-> "g1", signed |-> TRUE, body |-> Labelled],
     [guid |-> "g2", signed |-> TRUE, body |-> Labelled],
     [guid |-> "g3", signed |-> TRUE, body |-> Echo]}
=============================================================================
