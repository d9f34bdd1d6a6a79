-------------------------------- MODULE Http --------------------------------
(***************************************************************************)
(* app/clients/http.py, request_with_retry: one call, its attempts and the *)
(* waits between them.  The method says whether the request may be         *)
(* repeated after a failure that may have been applied.                    *)
(*                                                                         *)
(* The far side answers, or does not:                                      *)
(*   ok           below 400 and readable; it was applied                   *)
(*   garbled      below 400, but its JSON cannot be read; it was applied   *)
(*   refused      400 and above, not to be retried                         *)
(*   rejected     429: it was not run                                      *)
(*   unavailable  500, 502, 503, 504                                       *)
(*   lost         a timeout or a broken connection                         *)
(* A request that is refused, unavailable or lost was applied, was not, or *)
(* (when lost) is still under way and may be applied at any later time.    *)
(* The length of a wait is left out.                                       *)
(***************************************************************************)
EXTENDS Naturals

CONSTANT MaxAttempts    \* max_attempts

ASSUME HttpAssumption == MaxAttempts \in Nat \ {0}

VARIABLES
    phase,      \* "idle", "try", "wait", and then "returned" or "raised"
    repeatable, \* method.upper() in REPEATABLE_METHODS
    attempt,    \* from 0
    onTheWay,   \* attempts given up on that may still be applied
    applied,    \* history: how often the call was applied
    requests,   \* history: how often it was sent
    backoffs    \* history: how often on_retry was called

httpVars == <<phase, repeatable, attempt, onTheWay, applied, requests, backoffs>>

Reset ==
    /\ repeatable' = TRUE /\ attempt' = 0 /\ onTheWay' = 0
    /\ applied' = 0 /\ requests' = 0 /\ backoffs' = 0

HttpInit ==
    /\ phase = "idle" /\ repeatable = TRUE /\ attempt = 0 /\ onTheWay = 0
    /\ applied = 0 /\ requests = 0 /\ backoffs = 0

-----------------------------------------------------------------------------
Replies == {"ok", "garbled", "refused", "rejected", "unavailable", "lost"}
Retryable == {"rejected", "unavailable", "lost"}    \* RETRY_STATUSES, or none

\* What became of the request: [applied, onTheWay] of this attempt.
Fates(reply) ==
    CASE reply \in {"ok", "garbled"} -> {<<1, 0>>}
      [] reply = "rejected" -> {<<0, 0>>}
      [] reply \in {"refused", "unavailable"} -> {<<0, 0>>, <<1, 0>>}
      [] OTHER -> {<<0, 0>>, <<1, 0>>, <<0, 1>>}

\* A mutant: every failure is repeated, whatever the method.
MayRepeatAlways(reply) == reply \in Retryable

MayRepeat(reply) ==
    reply \in Retryable /\ (repeatable \/ reply = "rejected")

IsLastAttempt == attempt = MaxAttempts - 1

Call(r) ==
    /\ phase = "idle"
    /\ phase' = "try" /\ repeatable' = r
    /\ UNCHANGED <<attempt, onTheWay, applied, requests, backoffs>>

\* client.request, and what the loop makes of its answer.
Attempt(reply) ==
    /\ phase = "try"
    /\ requests' = requests + 1
    /\ \E fate \in Fates(reply) :
          /\ applied' = applied + fate[1]
          /\ onTheWay' = onTheWay + fate[2]
    /\ IF MayRepeat(reply) /\ ~IsLastAttempt
       THEN phase' = "wait" /\ backoffs' = backoffs + 1
       ELSE /\ phase' = IF reply = "ok" THEN "returned" ELSE "raised"
            /\ UNCHANGED backoffs
    /\ UNCHANGED <<repeatable, attempt>>

\* A mutant: a wait the server asked for is not counted as an attempt.
WaitsSameAttempt ==
    /\ phase = "wait"
    /\ phase' = "try"
    /\ UNCHANGED <<repeatable, attempt, onTheWay, applied, requests, backoffs>>

\* asyncio.sleep returns: Retry-After, or the backoff.
Waits ==
    /\ phase = "wait"
    /\ phase' = "try" /\ attempt' = attempt + 1
    /\ UNCHANGED <<repeatable, onTheWay, applied, requests, backoffs>>

\* A request that was given up on reaches its destination after all.
ArrivesLate ==
    /\ phase # "idle" /\ onTheWay > 0
    /\ onTheWay' = onTheWay - 1
    /\ applied' = applied + 1
    /\ UNCHANGED <<phase, repeatable, attempt, requests, backoffs>>

\* The caller takes the answer, or the exception.
Collect ==
    /\ phase \in {"returned", "raised"}
    /\ phase' = "idle"
    /\ Reset

HttpNext ==
    \/ \E r \in BOOLEAN : Call(r)
    \/ \E reply \in Replies : Attempt(reply)
    \/ Waits \/ ArrivesLate \/ Collect

HttpSpec == HttpInit /\ [][HttpNext]_httpVars

-----------------------------------------------------------------------------
(* Properties *)

\* The request that spends money is applied once at most, however often it was
\* rate-limited and however late a lost one arrives (http.py:7-14).
PostAppliedOnce == ~repeatable => applied + onTheWay <= 1

\* on_retry is called once per retry, on every path that leads to one, and no
\* call is sent more than max_attempts times (http.py:63-64, 71-98).
BackoffsCounted ==
    phase # "idle" =>
        /\ requests <= MaxAttempts
        /\ requests = backoffs + (IF phase \in {"returned", "raised"} THEN 1 ELSE 0)

CALL == INSTANCE Call WITH
            state <- IF phase \in {"try", "wait"} THEN "open" ELSE phase

\* A call returns only if it was applied, and otherwise raises: the outcomes
\* Effects gives a call, an ambiguous failure among them (http.py:49-101).
CallSpec == CALL!Spec
=============================================================================
