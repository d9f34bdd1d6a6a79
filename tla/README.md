# A TLA+ model of the remediation orchestrator

The service in `src/` watches one GitHub repository. A labelled issue gets a paid
Devin session; the service follows the session, hands back what reviewers, CI and
people say, and asks a person whenever it cannot go on. This directory holds TLA+
modules for the part of it that decides (the reconcile loop, its effects and its
tables), TLC configurations that check them, and theorems checked by TLAPS.

## 1. Inventory

| part | state | operations | where |
|---|---|---|---|
| reconcile loop (`core/orchestrator.py`) | the tick counter, the locals of the running handler | `tick` and its passes: drain the inbox, start, track, pull requests, resync, Analytics | `Orchestrator` |
| tick lock (the same file, `main.py`) | a boolean, its waiters, which task is in which pass | `tick` called by `run_forever` and by `POST /api/admin/reconcile` | `TickLock`, `Service` |
| effects (`core/effects.py`) | none of its own; calls Devin and GitHub, then records | `start_session`, `message_session`, `comment`, `flag_human`, `clear_human_flag` | `Effects` |
| derived state (`core/state.py`) | none | `liveness`, `closing_reason`, `has_produced`, `issue_status`, `occupies_slot` | `State` |
| store (`db/repo.py`, `db/schema.sql`) | SQLite tables `issues`, `sessions`, `pull_requests`, `done_effects`, `inbox`, `deliveries`, metrics tables | one transaction per method | `Store`; `Receiver` and `Service` for the last two |
| webhook receiver (`webhooks/`) | `deliveries`, and it appends to `inbox` | verify, deduplicate, translate, enqueue | `Handlers`, `Receiver` |
| HTTP retry (`clients/http.py`) | the attempt it is at | retry with backoff, ambiguous `POST` never repeated | `Http` |
| Devin and GitHub clients | none | pagination, `checks_settled`, `failed_check_summary` | `Checks`, `Listing`, `Clients`; the single reads by their answers only |
| process (`main.py`) | the login it writes as | start, restart, the background task, the admin endpoints | `Service` |
| metrics, prompts, dashboard, configuration, bootstrap script | none that decides | | not modelled |

The receiver and the loop share an event loop and the store: the receiver appends
rows to `inbox`, the loop drains them. The loop reads rows, asks Devin and GitHub,
decides from the derived state and performs effects; an effect is an API call
followed by its record. The admin endpoint runs a tick out of turn under the same
lock. A restart keeps the store and nothing else.

What is hard: every handler is a sequence of awaits and commits, so it can die or
raise between an effect and its record; a row that raised is dispatched again; an
ambiguous failure leaves an effect done that is not recorded; the same red commit
is reported by polls and by webhooks; a retry, an answer, a poll and a deadline
interleave freely over many ticks; three budgets (nudges, CI rounds, conflict
rounds) are counted in different ways and reset by the same answer; a delivery is
two commits and may come again under another GUID; two callers tick over one inbox;
and a listing is read page by page while it changes. The hazards, each at its line,
are in `PROJECT.json`.

What makes each part correct:

* loop: the session cap and the budget hold; an issue is paid for once per attempt;
  only a queued issue is started; every dead end raises a flag; an issue, a blocked
  session or a pull request that waits ends with an answer or a person asked;
* effects: a message is sent once; a raised flag is announced; a comment that cannot
  be delivered is answered; rounds stay bounded;
* store: what is closed stays closed; counters, bases and effect keys agree;
* receiver: an event is enqueued once at most, whole, and never the service's own text;
* tick lock: ticks are serialised, each takes its passes in order, no caller starves
  the loop;
* drain and resync together: a row is handled once and is done with in the end, and a
  label is registered although its event was lost;
* HTTP retry: bounded attempts, each retry counted, and no ambiguous `POST` applied
  twice;
* clients: a commit is green only if everything on its pages is green, red has a name, no
  labelled issue is missed, the quoted question is the newest, but for what slips past a
  page as others disappear, and never more than that.

## 2. The modules

What decides (the core):

* **State**: the pure functions of `state.py` over rows.
* **Store** (extends State): the tables as functions from ids to records, and one
  operator per `Repo` method, priming the table that method writes. A row that is not
  there has `known = FALSE`, `issue = 0` or `state = "unseen"`. A timestamp is kept as
  the fact the code compares it for: `retry` (retry requested after the last attempt),
  `grace` (inside the grace window after a message), `aged`, `stale` (past a deadline),
  `episode` (which raising of the flag). Columns only the dashboard and the metrics
  read are left out.
* **Effects** (extends Store): each effect as a chain of steps, one per await or
  commit. `pc` is the step the running handler is at, `frame` its locals. A call listed
  in `Failing` may raise; `create_session_ambiguous` and `send_message_ambiguous`
  raise although Devin applied them. `billed`, `sent`, `resent` and `told` are history
  variables: what the outside world has seen. No guard reads `sent`, `resent` or
  `told`; `billed` also names the next session id Devin hands out.
* **Orchestrator** (extends Effects): the passes in the order of `tick()`, one
  action per handler up to its first effect, the effect's own steps after it, the
  environment (`Arrive`, deadlines) and `Crash`. `todo` holds the rows a pass read
  when it began, so that a decision made on them later may be stale, as in the code.
* **OrchestratorProps**: the properties and the fairness.

What feeds it:

* **Checks**: what a listing of check runs says of a commit.
* **Handlers** (extends Checks): from a GitHub payload to an intent or to none, with the
  trust gate. A payload keeps the fields the routing reads.
* **Receiver** (extends Handlers): `Record` commits a delivery, `EnqueueIntent` or
  `PassOver` ends it. Nothing of the service runs in between, but the process may die.
* **TickLock**: asyncio's lock and the tasks at it; a tick is the sequence of passes its
  caller is due.
* **Service** (extends Receiver and TickLock): both over one inbox, with the drain's
  batches row by row, the three failures after which a row is given up, resync, and a
  crash of the whole. What a handler does is in `Orchestrator`; here it returns or
  raises.

What it stands on:

* **Http**: one call, its attempts and waits; a request that timed out may be applied
  later.
* **Listing** (extends Checks and Http): the three paginated reads, each page a call,
  over a collection that changes in between. **Clients**: a listing or a single `POST`
  through `Http`.

What is promised, each abstract specification with the one that implements it:

| abstract | promises | implemented by |
|---|---|---|
| **Intake** | an event reaches the inbox once at most, and no row moves | `Receiver`, `Service` (`IntakeSpec`) |
| **Ticks** | one sequence of ticks, each with its passes in order | `TickLock`, `Service` (`TicksSpec`); the detailed loop too (`TickOrder`) |
| **Call** | what returns was applied, what raises may have been, a `POST` once at most | `Http`, `Clients` (`CallSpec`) |
| **Remediation** | the life of an issue: work is paid for once for each time a person asked for it, only while the issue waits for nothing else, and what is merged is finished | `Orchestrator` (`RemediationSpec`) |

The first three are what `Orchestrator` takes for granted. `Arrive` lets each event
enter the inbox once, at any time: `Intake`. `TickBegins` starts a tick when no
other is under way: `Ticks`, which the lock implements and of which the detailed loop
shows the same order of passes. A call of `Effects` succeeds, fails or fails
ambiguously: `Call`. So the modules are checked apart, each against what the other
assumes of it; the product of all of them is beyond TLC.

`MCOrchestrator`, `MCService` and `MCClients` hold the instances; `OrchestratorTypes`,
`OrchestratorSafety`, `OrchestratorLife`, `OrchestratorMessages`, `ClientsProofs`,
`TickLockProofs`, `ReceiverProofs` and `ServiceProofs` the theorems.

`Arrive` is taken between ticks without losing a behaviour, because the receiver and
the loop meet only in the inbox, which a tick reads once. Deadlines are each read
once in a handler and so pass between handlers.

Devin and GitHub are free: a poll returns any member of `Observations`, a pull
request is read in any of `PullStates`, with two restrictions. A pull request a
session has listed stays listed by it, and a merged one stays merged.

A helper marked "A mutant" is a deliberately broken copy of the definition after it.
No action uses it: it is there to be put in the place of the right one, to see that
the property in question notices.

## 3. The runs

Passing runs (`tlc -config X.cfg M.tla`):

| run, module | what varies | shows |
|---|---|---|
| `lifecycle`, MCOrchestrator | two issues, three sessions, two slots, a retry label, starts, label reads and polls that fail, the age watchdog | types; `CapRespected`; `OneWorkingSession`; `NoSilentDeadEnd`; `FlagAnnounced`; `BillsOnlyQueued` |
| `crash`, MCOrchestrator | one issue labelled twice, two slots, ambiguous starts, a crash at any step | `CapRespected`, `NoAttemptBilledTwice` and `RemediationSpec` survive a restart |
| `blocked`, MCOrchestrator | a session that asks, works, sleeps or dies; two answers; messages that fail ambiguously | `NudgeNotWedged`, `EscalationsEarned`, `CommentAccounted` |
| `red_commits`, MCOrchestrator | two commits, two intents of a red workflow run, an answer, failing reads and messages, rounds of one | `CiRoundsBounded`, `NoMessageTwice`; `RemediationSpec` up to the merge |
| `review`, MCOrchestrator | conflicts, a review comment, an answer, a close and a merge; pull requests every second tick, with forced ticks | `ConflictRoundsBounded`, `ClosureAnnounced`, `CommentAccounted`, `ClosedIsFinal`; `TickOrder` |
| `budget`, MCOrchestrator | three issues, ACUs that are reported late or by Analytics, fair | `BudgetStopsStarts`; `QueuedIsServed` |
| `progress`, MCOrchestrator | a blocked session, a green pull request nobody merges, two answers, comments that fail, fair | `NudgesBounded`; `BlockedIsEscalated`, `PullIsWatched` |
| `service`, MCService | a label delivered under two GUIDs and redelivered under each, the service's own comment, an operator who ticks and registers, the login known or not; one handler, listing or tick that raises, or one crash, fair | `IntakeSpec`, `TicksSpec`, `TicksSerialised`, `RowServedOnce`, `OwnTextStaysOut`; `RowIsSettled`, `LabelIsRecovered`, `LoopTicksAgain` |
| `client_calls`, MCClients | a `POST` or a listing of any of the three kinds, every reply to every attempt, requests that arrive late, one change of the collection for each reading, the checks read a second time if they failed | `PostAppliedOnce`, `BackoffsCounted`, `CallSpec`; `IssuesNotMissed`, `GreenIsEarned`, `RedIsNamed`, `LatestQuoted` |

Bounds of the orchestrator's runs. `MaxSessions` bounds what Devin creates; it is large
enough that every labelled event of the run can be served, but for `lifecycle`, where
it lets one issue have three attempts or two issues compete. `MaxCrashes = 1` is one
crash at any of the steps. `InboxLimit` is 1 in the pull request runs, so that rows
wait over a tick, and 2 elsewhere. Limits of one or two nudges and one round are the
smallest at which a limit can be passed, reset by an answer and passed again. `tick` is
kept modulo `PrEvery * SlowEvery`, all the code reads of it. Inbox rows are a fixed set
of events each of which arrives at most once, at any time, in any order. Labels seen by
resync need no event.

Bounds of `service`: one issue, two events under three GUIDs, one row of the
operator's, batches of one row (so that a row waits for the next tick), pull requests
every second tick, one mishap. One mishap is enough to lose an event between its two
commits, to fail a row and read it again, to cut a listing short, to break a tick off
and to crash; the third failure of a row, which needs three, is reached in `blocked`.
`MaxMishaps` does not bound the theorems.

Bounds of `client_calls`: three attempts per call, so that there is a first, a middle
and a last; up to four items in pages of two and at most two pages, so that a page is
full, short or empty and the client gives up at the last; one change at a time,
anywhere between two requests, or between the reading that finds a commit red and the
one that asks for the names. Of the items that were there when the reading began and
stayed (`settled`), as many may be missed as disappeared from pages already read
(`lost`), and no more: one change is enough to move an item past its page, and the run
holds the listings in which that makes green unearned, an issue missed, or a red commit
nameless. The theorems bound neither. All four properties of the listings are asked
where the collection fits in the pages the client is ready to read; `LatestQuoted`
leaves out the reading that a missing `end_cursor` ends (`cutOff`).

Fairness (`FairSpec`). `run_forever` starts a tick whatever the last one did and every
call has a time limit, so the loop takes steps: weak fairness of `Loop`. Time passes
independently of the loop, so a deadline that is pending again and again elapses:
strong fairness of each kind of deadline (never of a failure, an event or a particular
answer). It is strong because deadlines are taken between handlers only, which makes
them enabled again and again rather than always. No failing call is assumed to
succeed in the end, apart from those a run does not let fail at all.

Fairness of `Service`: a delivery under way is finished (it does not await), the loop
sleeps and calls `tick` again, a task whose turn at the lock has come runs, and a pass
ends, as every call of it has a time limit. All of it is weak. Nothing is assumed of
GitHub, which may deliver an event or not, nor of the operator, who may call without
end. Mishaps are bounded: if every tick broke off no row would be reached, and if the
listing never answered no label would be recovered.

Runs that find a disagreement (each checks the one property it violates, and
`PROJECT.json` quotes the line it contradicts):

| run | property | what happens |
|---|---|---|
| `nudge_wedge` | `NudgeNotWedged` | the process dies after the nudge is recorded and before it is counted: every later nudge has a recorded key, is dropped, and the session is neither nudged nor escalated |
| `queue_stall` | `QueuedIsServed` | a session that delivered without a pull request is exempt from the watchdog and keeps the only slot |
| `reply_dead_end` | `NoSilentDeadEnd` | an answer clears the flag of a closed pull request, the session ends, nothing is flagged again |

### Divergences

The same model, with properties not kept as runs, also shows the following.

* A retry after a session that delivered without a pull request leaves the old session
  open and wakeable beside the new one (`orchestrator.py:252-255`), although
  `tests/test_orchestrator.py:729` asserts "exactly one session may be billing for an
  issue". `OneWorkingSession` states what does hold.
* `OneWorkingSession` itself holds while the process stays up (so `OneAtWork` assumes).
  A crash after `request_retry` (`orchestrator.py:233`) and before the old sessions are
  superseded, after which the row is dispatched again and finds the label gone or
  `get_issue` failing, leaves the issue queued beside its open session, and a second one
  is started.
* A session that ends with only a pull request of another repository counts as having
  one (`orchestrator.py:426`) while nothing is linked (`461-463`): no flag. The
  answers used by the runs have `foreign = FALSE`.
* The same old session, blocked with its nudges spent, is escalated again as soon as the
  retry has cleared the flag (`orchestrator.py:235`), with no nudge in between, although
  `repo.py:382-383` says that the bases are there against "the comment-spam loop". `EscalationsEarned`
  holds as long as nobody retries, which is how it is run and proved.
* The age watchdog (`orchestrator.py:367`) does not look at `settled` (`354`): an
  unproductive session still awake when its pull request merges is flagged
  `session_timeout`.
* A message whose `POST` failed ambiguously is not recorded and is sent again: by the
  inbox when the row is retried, by the next poll otherwise. "An ambiguous `POST` is
  never repeated" holds of one request only. A nudge is the worst of them: neither its
  key, nor the grace window, nor the count is recorded, so if the call keeps failing that
  way Devin receives the same nudge on every poll and nobody is asked until the age
  watchdog ends the session, against the "at most `MAX_NUDGES`" of `README.md:97`. `NudgesBounded`, `NoMessageTwice`,
  `CiRoundsBounded` and `ConflictRoundsBounded` are therefore asked where a failed message
  was not applied.
* The budget check counts what sessions of earlier ticks have reported, not what they
  may still spend, so the total may pass `GLOBAL_ACU_BUDGET`. `BudgetStopsStarts`
  states the check the code makes.
* A flag is written before its comment (`effects.py:157-176`). If the comment fails once
  it is not tried again, as the flag stands and is not raised twice: the person is asked
  on the dashboard only, although `README.md:257` says they are told on the issue.
  `FlagAnnounced` holds where the comment does not fail, which is how it is run.
* A pull request that stays red on one commit is reported once and never flagged stale,
  as a red commit returns before the watchdog (`orchestrator.py:687-691`); `PullIsWatched`
  is asked of a green one.
* A crash between `mark_merged` and the clearing of the flag leaves the flag on a merged
  issue.
* Resync skips the issues it knows, so a *retry* label whose event is lost is never
  recovered (`README.md:56-59` says it "picks up anything that never arrived").
  `LabelIsRecovered` asks it of an issue's first label.
* While the own login is unknown every comment is dropped, and its delivery is recorded:
  a redelivery after the login is known is a duplicate. The events are lost, as in
  `PassOver`.
* `_tick` restarts at 0, so a process that restarts more often than every `SLOW_EVERY`
  ticks never resyncs unless an operator forces a tick.
* A check that is re-run, or an issue that is closed, on a page already read moves the
  others up, and one slips between the pages. `check_runs` stops at an empty page
  (`github.py:151`) or at the total it has by then, so "success" is said with a failed
  check unread, although `github.py:134-137` is written against just that ("hid failures
  on later pages and reported CI green"). `GreenIsEarned` states the limit: one check for
  each that was re-run so. A skipped issue is missed until the next resync.
* `checks_settled` and `failed_check_summary` each list the checks. If a failed check is
  re-run or slips in between, the second listing has no name; nothing is recorded then
  and the next poll starts over (`orchestrator.py:698-702`). `RedIsNamed` states that
  there is no other way to it. That the fields of an answer (`check_runs`, `total_count`,
  `has_next_page`) are there is assumed.
* A page of messages that names a next one without `end_cursor` ends the reading
  (`devin.py:149-151`), and an older message is quoted.
* `Retry-After` is obeyed whatever it says (`http.py:83-90`), inside the tick lock: the
  loop waits as long as the server asks. The model leaves the length of a wait out.

## 4. What is proved

For all values of the constants, under the assumptions named in the modules
(`StoreAssumption`, `EffectsAssumption`, `OrchestratorAssumption`; `HttpAssumption`,
`TickLockAssumption`, `ReceiverAssumption`, `ServiceAssumption`): the sets of issues,
pull requests and events are finite, ids are positive, answers are well formed, the
limits are natural numbers, the pass periods and the attempts of a call are positive.

The core:

* **TypeCorrect** (`Spec => []TypeOK`): `TypeOK` is inductive. Besides types it says
  what the running handler holds at each step (a key when it is about to record one, a
  session when it is about to message one, a row of the right table in `todo`), which
  is what makes the induction go through. One lemma per action, on lemmas about the
  ways a handler goes on (`CallFlagType`, `CallMessage...`) and about the rows an
  update writes (`SessionRowEdits`).
* **NoDoubleSpend** (`Spec => []NoAttemptBilledTwice`): two sessions Devin created,
  those whose creation failed ambiguously included, never stand for one attempt. The
  property alone is not inductive: that no session exists for the attempt about to be
  paid for must be known when the call is made. `BilledOnce` adds that every billed
  attempt is at most the issue's counter, and that at `pc = "create"` the counter's
  own value is still unbilled: `ReserveAttempt` advances the counter before the
  call, every other step leaves both alone (`StartsNothing`), and a crash only drops
  `pc`, never the counter.
* **NoStaleStart** (`Spec => BillsOnlyQueued`): the verdict `start_sessions` read when
  its pass began still holds for an issue when the billable call for it is made. The
  strengthening `StartsFresh` says that every row of the pass not taken yet is still
  startable and that the running handler never works on one of them. It holds because
  inside the pass only its own handlers and deadlines move (`StartPassActions`): a
  failed start flags the issue it took, and the one flag on an issue that still waits
  (`budget_exhausted`) ends the pass.
* **CapNeverPassed** (`Spec => []CapRespected`): the count of the pass, taken once
  and then kept by the code itself, covers the slots in use and the one being paid
  for (`CapKept`). Two facts carry it: an open row is one whose last poll can be
  revived (`OpenRowsRevivable`), so `occupies_slot` counts exactly the open rows as the
  pass begins; and no step but the recording of a new row adds a slot (`NoneOpened`: no
  row is ever opened again; `MergesStand`: no merge is taken back).
* **PassesInOrder** (`Spec => TickOrder`): a step that is not the end of a pass leaves
  the pass alone (`QuietStep`), and where a tick goes on to is where the abstract tick
  does (`TickGoesOn`).
* **ClosedStaysClosed** (`Spec => ClosedIsFinal`): whoever writes to a session's row has
  checked some steps before that the row is open, so the invariant must carry that
  check across the steps between. `FinalInv` says that a message under way goes to an
  open row, that the rows left in the pass over the sessions are open, that a retry never
  supersedes inside that pass, and that the row recorded after a paid call is blank.
* **LifeImplemented** (`Spec => RemediationSpec`): each step of the loop is a step of
  `Remediation` or a stutter. What an issue is in the abstract life is read off its
  status, its flag and its counters, so the proof is a list of what each helper may
  write of them; `LifeInv` adds what that list needs (an issue not yet known has a blank
  row, an issue a pass works on is one the pass took because it waited for nothing).
* **OneAtWork** (`MaxCrashes = 0 => (Spec => []OneWorkingSession)`): while the process
  stays up. `OneInv` covers the two steps between a retry and the superseding of what
  was open, and the steps between choosing an issue to start and recording its row. The
  assumption is needed: see the crash under Divergences.
* **NudgesWithinBudget** (`NudgesBounded`), while the process stays up and no message
  fails ambiguously: a key that was sent carries an ordinal no higher than `nudges + 1`,
  and `nudges` is within `MAX_NUDGES` of its base, which only a recorded answer moves
  (`NudgeInv`). This bounds the different nudges, with crashes and failures of any kind
  (`DifferentNudges`); that none of them arrives twice is **NoneMessagedTwice**, which
  needs the assumptions, so the bound is one on what Devin receives.
* **NoneMessagedTwice**, **ConflictsWithinBudget**, **RoundsWithinBudget**
  (`NoMessageTwice`, `ConflictRoundsBounded`, `CiRoundsBounded`): under the assumption
  that the process stays up and no message fails ambiguously. What was asked before a
  message (its key is not recorded, the round is within the limit) still holds at each
  of the steps until it is recorded and counted, since no other handler runs between
  (`KeysInv`); so what Devin received is recorded (`SentInv`), what is recorded is
  counted, and a base never moves further than the recorded answers allow (`RoundsInv`).
  Without the assumption a round can be sent that is not recorded, and then another.
* **NudgesNotWedged** (`MaxCrashes = 0 => (Spec => []NudgeNotWedged)`): a recorded nudge
  is counted, or is the one the running handler is about to count (`NudgesDone`), so the
  next ordinal is never a recorded one. The crash between the two is the run `nudge_wedge`.
* **FlagsAnnounced** and **ClosuresAnnounced** (`FlagAnnounced`, `ClosureAnnounced`): while
  the process stays up and no comment fails. The key of a flag's comment carries the
  episode, so a comment that `comment` drops as recorded must be one of this episode.
  `ToldInv` carries that: what is recorded belongs to an episode that has begun, and as
  long as it lasts was told in it; what is under way belongs to the present one.
  `ClosureInv` adds that a closed pull request's comment is recorded, under way, or its
  flag about to be raised. Both assumptions are needed (Divergences).
* **CommentsAccounted** (`CommentAccounted`): where comments do not fail, with crashes and
  rows that fail. `AccountInv` says where the handler of a person's comment can be: about
  to deliver it or to answer that it cannot, done with either, or raised; and that a
  pending row has attempts left, so the row that gives up is the third failure.

* **NoneGivenUpInSilence** (`NoSilentDeadEnd`): while the process stays up and no session
  opens a pull request. `AttendInv` follows the duty of whoever takes an issue's last hope
  away: an attempted issue without a flag has an open session, or the running handler is
  at it, on the way to a row, a flag or a retry (`AtIt`). Each step hands the duty on
  (`GoesOnAttending`), an open session ends only under a handler that takes it up
  (`OpenStaysOrAtIt`), and a flag comes down only for an answer that an open session
  received (`ClearsOpen`). Both assumptions are needed: with a pull request the run
  `reply_dead_end` breaks it, and a crash between the attempt and the row does
  (`orchestrator.py:316`).
* **StartsWithinBudget** (`Spec => BudgetStopsStarts`): where polls answer, with a status,
  and the process stays up. `BudgetInv` says that the figure `start_sessions` keeps for
  itself covers what the table records plus one cap for each open session never polled
  (`Committed`), and that such sessions are of this tick: the pass over the sessions takes
  every row and polls it (`TrackPolls`). Of the sum over the table only two facts are
  used: it is a natural number (`TotalIsNat`, from `SumExists`, whose proof takes the
  smallest set of sessions without a sum), and equal figures leave it the same.
* **EscalationsAreEarned** (`EscalationsEarned`): as long as nobody asks for a retry, with
  crashes and failures of every kind. That each announcement has its nudges is not
  inductive, because the counter is only compared with a base that an answer moves.
  `EarnedBy` says that what was counted up to the base pays for every announcement, or for
  every one but the last, whose flag is then still up under the key that was recorded, or
  a merge has ended the matter; `ClearsEarned` that whoever takes a flag down has moved the
  base, or saw the merge; `EscalationDue` that an announcement under way was called for by
  a session with no nudges left, and belongs to the flag that stands. Without retries an
  issue has one session (`SessionAlone`), so that a base is not another session's.
  **EscalationsEarnedUnlabelled** draws it from the constants alone: no label event, no
  retry. With a retry the property fails (Divergences).

What feeds it and what it stands on:

* **NoPostRepeated**, **RetriesReported** and **CallImplemented** (`Http`): a request
  that may not be repeated has been applied, or may still be, by one attempt at most,
  which is the one under way or the last. It holds because a retry follows only a
  failure of which the server said that it did not run the request. The invariant adds
  how `requests` and `backoffs` follow `attempt` through the waits.
* **NoIssueMissed**, **NoGreenUnearned**, **NoOlderQuoted** (`Clients`): `ListingInv` says
  that every page but the last was full, so that what has been read is as long as the
  pages say (`Begun`), and that of the items that stood all the while and are among the
  first so many, no more are unread than disappeared from there (`Slipped`, `FewSlipped`).
  An item that appears only pushes others back, out of what was read but never into it
  unread; one that disappears from what was read moves one item at most into it unread
  (`SlipsCounted`). Messages are appended only, and what was read is how the collection
  begins, up to the cursor. `LastPageEnds` is that a listing ends only with the whole
  collection read, unless it was cut off, and `ReadOrSlipped` what follows for each kind.
* **NoRedUnnamed**: a run that failed and is still listed keeps its conclusion through the
  second listing (`RedOK`), so if it was read it has a name, the first of them being
  within every limit; and it was read, or is one of the few that slipped.
* **EveryCallIsOne**: `Clients` implements `Http`, so all of its calls keep the promises.
* **OneTickAtATime** and **TicksImplemented** (`TickLock`): `LockInv` says that the lock
  is held exactly while some task is in a pass, and by one at most. From it the
  refinement takes the one task that ticks for the tick.
* **IntakeImplemented** and **OwnTextKeptOut** (`Receiver`): `ReceiverInv` says that what
  is being received is recorded and that every row came from a recorded payload or the
  operator; the abstract `seen` is what is recorded and not being received, so that a
  restart in the middle counts as passing over.
* **ServiceTicksSerialised**, **ServiceTicksInOrder**, **ServiceIntake**,
  **ServiceKeepsOwnTextOut**: the composition disturbs neither part. `ServiceInv` is the
  conjunction of `LockInv`, `ReceiverInv` and `DrainInv`; a step of one part is a stutter
  of the other, and the drain, which writes the rows the receiver appended, changes only
  whether they are dispatched and how often they failed.
* **RowsServedOnce**: two drains never hold one row. `DrainInv` says that only a task in
  its drain holds rows, that a row held or handled is pending, and that what is handled
  and unmarked is covered by the mishaps that can still repeat it.

Only model-checked: the liveness properties and everything under fairness, which is
outside the prover (`QueuedIsServed`, `BlockedIsEscalated`, `PullIsWatched`, and the
three of `service`: `RowIsSettled`, `LabelIsRecovered`, `LoopTicksAgain`). Every invariant
and every action property of the passing runs, and every refinement, is a theorem, under
the assumptions named above.

## 5. Not modelled, and the plan

Not modelled because nothing decides on them: titles, URLs, tags, the metrics (sums over
the tables for the dashboard) and the tables only they read, the dashboard, the
escalation label (best effort, never read back), the wording of comments and of the
prompts. Configuration is the constants. The bootstrap script is run once by hand and
shares no state with the service. The shapes of requests and answers are left out; what
an answer may say is free.

What the plan has left:

* how many escalations a retry can add, and `NoSilentDeadEnd` with pull requests but
  without the answer that takes a flag away;
* two issues that share a pull request after a retry;
* the product of the receiver and the detailed loop, now composed through the tables
  only (`Service` keeps the loop's handlers coarse).
