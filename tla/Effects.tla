------------------------------ MODULE Effects ------------------------------
(***************************************************************************)
(* app/core/effects.py: the only writer.  Every effect is a short chain of *)
(* steps with an await or a commit in each:                                *)
(*   flag_human       flag -> comment -> commented                         *)
(*   comment          comment -> commented                                 *)
(*   message_session  (guards) -> send -> mark -> stamp -> follow          *)
(*   start_session    create -> record                                     *)
(*   clear_human_flag clear                                                *)
(* pc is the step the one running handler is at and frame its locals, so   *)
(* a crash between an API call and its record is a crash between two       *)
(* actions.  An effect is recorded only after the call succeeded.          *)
(*                                                                         *)
(* A call to Devin or GitHub succeeds or, if the run allows that call to   *)
(* fail, raises.  An ambiguous failure of a POST raises although the       *)
(* request was applied (app/clients/http.py does not repeat it).           *)
(***************************************************************************)
EXTENDS Store

CONSTANTS
    Failing     \* the calls that may raise, among Calls

Calls == {"get_issue", "create_session", "create_session_ambiguous",
          "send_message", "send_message_ambiguous", "comment", "get_session",
          "get_pull", "check_runs", "failed_check_summary_empty", "insights"}

ASSUME EffectsAssumption == Failing \subseteq Calls

VARIABLES
    pc,         \* the step of the handler the loop is in; "next" and "idle"
                \* are outside any handler
    pass,       \* the pass of the tick
    cur,        \* the inbox row being drained
    frame,      \* the locals of the running handler
    billed,     \* history: session ids Devin created, and for which attempt
    sent,       \* history: keys of the messages Devin received
    resent,     \* history: those it received more than once
    told        \* history: the reasons announced on an issue's thread since its
                \* flag was last down

NoEvent == [id |-> 0, kind |-> None, issue |-> 0, pull |-> 0, sha |-> None]
NoPoll == [status |-> None, detail |-> None, final |-> FALSE, pulls |-> {},
           foreign |-> FALSE, acus |-> 0]

\* issue and session are what the handler acts on, key the effect it performs,
\* reason what it flags (or will flag once its comment is made), poll the
\* response of the last get_session.
NoFrame == [issue |-> 0, session |-> 0, key |-> <<>>, reason |-> None,
            poll |-> NoPoll]

Unbilled == <<0, 0>>

EffectsInit ==
    /\ pc = "idle" /\ pass = "none" /\ cur = NoEvent /\ frame = NoFrame
    /\ billed = [s \in SessionIds |-> Unbilled]
    /\ sent = {} /\ resent = {} /\ told = [n \in Issues |-> {}]

UnusedSessions == {s \in SessionIds : billed[s] = Unbilled}

-----------------------------------------------------------------------------
(* Where a handler goes when it returns, and when it raises.               *)

Finish ==
    /\ pc' = IF pass = "drain" THEN "dispatch" ELSE "next"
    /\ frame' = NoFrame

Raise ==
    /\ pc' = IF pass = "drain" THEN "failed" ELSE "next"
    /\ frame' = NoFrame

-----------------------------------------------------------------------------
(* flag_human and comment *)

CallFlag(n, reason) ==
    /\ pc' = "flag"
    /\ frame' = [NoFrame EXCEPT !.issue = n, !.reason = reason]

\* What follows a comment: the flag the handler still owes, if any.
AfterComment(n, reason) ==
    IF reason # None THEN CallFlag(n, reason) ELSE Finish

CallComment(n, key, reason) ==
    IF key \in done
    THEN AfterComment(n, reason)
    ELSE /\ pc' = "comment"
         /\ frame' = [NoFrame EXCEPT !.issue = n, !.key = key, !.reason = reason]

FlagKey(n, reason) == <<"flag", n, reason, EpisodeOf(n)>>

\* flag_human writes the flag, then comments.  add_label is best effort and
\* leaves nothing behind here.
Flag ==
    /\ pc = "flag"
    /\ FlagForHuman(frame.issue, frame.reason)
    /\ IF FlagIsNews(frame.issue, frame.reason)
       THEN CallComment(frame.issue, FlagKey(frame.issue, frame.reason), None)
       ELSE Finish
    /\ UNCHANGED <<session, pull, done, inbox, pass, cur, billed, sent, resent, told>>

Announce(key) ==
    IF key[1] = "flag"
    THEN told' = [told EXCEPT ![key[2]] = @ \cup {key[3]}]
    ELSE UNCHANGED told

Comment ==
    /\ pc = "comment"
    /\ \/ pc' = "commented" /\ Announce(frame.key) /\ UNCHANGED frame
       \/ /\ "comment" \in Failing
          /\ AfterComment(frame.issue, frame.reason) /\ UNCHANGED told
    /\ UNCHANGED <<storeVars, pass, cur, billed, sent, resent>>

CommentRecorded ==
    /\ pc = "commented"
    /\ MarkDone(frame.key)
    /\ AfterComment(frame.issue, frame.reason)
    /\ UNCHANGED <<issue, session, pull, inbox, pass, cur, billed, sent, resent, told>>

\* clear_human_flag; remove_label is best effort.
TakeFlagDown(n) ==
    /\ ClearHumanFlag(n)
    /\ told' = [told EXCEPT ![n] = {}]

ClearFlag ==
    /\ pc = "clear"
    /\ TakeFlagDown(frame.issue)
    /\ Finish
    /\ UNCHANGED <<session, pull, done, inbox, pass, cur, billed, sent, resent>>

-----------------------------------------------------------------------------
(* message_session *)

\* A mutant: nobody asks whether this message was sent before.
MayMessageAgain(s, key, respectGrace) ==
    /\ ~IsClosed(session[s])
    /\ ~(respectGrace /\ session[s].grace)

\* A mutant: a closed session is messaged all the same.
MayMessageClosed(s, key, respectGrace) ==
    /\ ~(respectGrace /\ session[s].grace)
    /\ key \notin done

\* The three guards: revivable, outside the grace window, not sent before.
MayMessage(s, key, respectGrace) ==
    /\ ~IsClosed(session[s])
    /\ ~(respectGrace /\ session[s].grace)
    /\ key \notin done

CallSend(s, n, key) ==
    /\ pc' = "send"
    /\ frame' = [NoFrame EXCEPT !.issue = n, !.session = s, !.key = key]

\* A mutant: a message that cannot be delivered is only counted.
CallMessageQuietly(s, n, key, respectGrace, undelivered) ==
    IF MayMessage(s, key, respectGrace) THEN CallSend(s, n, key) ELSE Finish

\* message_session, then what its caller does when it returned False: undelivered
\* if the session is closed, nothing if the message was only held back.
CallMessage(s, n, key, respectGrace, undelivered) ==
    IF MayMessage(s, key, respectGrace) THEN CallSend(s, n, key)
    ELSE IF IsClosed(session[s]) THEN undelivered
    ELSE Finish

Received ==
    /\ sent' = sent \cup {frame.key}
    /\ resent' = resent \cup ({frame.key} \cap sent)

SendMessage ==
    /\ pc = "send"
    /\ \/ Received /\ pc' = "mark" /\ UNCHANGED frame
       \/ "send_message" \in Failing /\ Raise /\ UNCHANGED <<sent, resent>>
       \/ "send_message_ambiguous" \in Failing /\ Raise /\ Received
    /\ UNCHANGED <<storeVars, pass, cur, billed, told>>

MessageRecorded ==
    /\ pc = "mark"
    /\ MarkDone(frame.key)
    /\ pc' = "stamp"
    /\ UNCHANGED <<issue, session, pull, inbox, pass, cur, frame, billed, sent, resent, told>>

\* The grace anchor; the caller of message_session acts next.
MessageStamped ==
    /\ pc = "stamp"
    /\ MarkMessageSent(frame.session)
    /\ IF frame.key[1] \in {"nudge", "ci", "reply"}
       THEN pc' = "follow" /\ UNCHANGED frame
       ELSE Finish
    /\ UNCHANGED <<issue, pull, done, inbox, pass, cur, billed, sent, resent, told>>

\* What _handle_blocked, _feed_ci_failure and _forward_reply record of a
\* message that was sent.
NudgeCounted ==
    /\ pc = "follow" /\ frame.key[1] = "nudge"
    /\ BumpNudges(frame.session)
    /\ Finish
    /\ UNCHANGED <<issue, pull, done, inbox, pass, cur, billed, sent, resent, told>>

CiRoundCounted ==
    /\ pc = "follow" /\ frame.key[1] = "ci"
    /\ CountCiRound(frame.key[2], frame.key[3])
    /\ Finish
    /\ UNCHANGED <<issue, session, done, inbox, pass, cur, billed, sent, resent, told>>

BudgetsReset ==
    /\ pc = "follow" /\ frame.key[1] = "reply"
    /\ ResetBudgets(frame.session)
    /\ pc' = "clear"
    /\ UNCHANGED <<issue, done, inbox, pass, cur, frame, billed, sent, resent, told>>

-----------------------------------------------------------------------------
(* start_session *)

Bill(s) == billed' = [billed EXCEPT ![s] = <<frame.issue, issue[frame.issue].attempts>>]

\* The POST to /sessions.  When it fails ambiguously Devin may hold a session
\* this service never learns about.
CreateSession ==
    /\ pc = "create"
    /\ \/ \E s \in UnusedSessions :
            /\ s = Min(UnusedSessions)
            /\ Bill(s)
            /\ pc' = "record"
            /\ frame' = [frame EXCEPT !.session = s]
       \/ /\ "create_session" \in Failing
          /\ CallFlag(frame.issue, "start_failed")
          /\ UNCHANGED billed
       \/ /\ "create_session_ambiguous" \in Failing
          /\ \E s \in UnusedSessions : s = Min(UnusedSessions) /\ Bill(s)
          /\ CallFlag(frame.issue, "start_failed")
    /\ UNCHANGED <<storeVars, pass, cur, sent, resent, told>>

\* The row, then the comment that announces the session.
SessionRecorded ==
    /\ pc = "record"
    /\ CreateSessionRow(frame.session, frame.issue, issue[frame.issue].attempts)
    /\ CallComment(frame.issue, <<"started", frame.session>>, None)
    /\ UNCHANGED <<issue, pull, done, inbox, pass, cur, billed, sent, resent, told>>

EffectSteps ==
    \/ Flag \/ Comment \/ CommentRecorded \/ ClearFlag
    \/ SendMessage \/ MessageRecorded \/ MessageStamped
    \/ NudgeCounted \/ CiRoundCounted \/ BudgetsReset
    \/ CreateSession \/ SessionRecorded
=============================================================================
