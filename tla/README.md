# A verification development for EITE Agent

TLA+ models of the concurrent core of EITE Agent (`src/tical_code`), the TLC
configurations that check them on small instances, and TLAPS proofs of their
invariants for every instance. The reference is the code at this commit; where
a docstring or comment says something else, a run or the section on differences
says so.

## The system and its parts

EITE Agent is a chat worker: channels (Telegram and others) deliver messages, a
worker keeps one conversation per sender, asks a language model through a
router of providers, runs the tools the model asks for, and answers. Around it
are persistent stores (sessions, tasks, deliveries), background jobs and a
guardian process that watches the working copy.

| component | state | operations | what makes it right |
|---|---|---|---|
| AsyncWorker session layer (`core/unified_worker.py`) | session entries, queue and task registries, one processor coroutine per session, tool threads | dispatch, receive and drain, tool rounds, idle exit, LRU eviction, sweep, kill, hard timeout, shutdown | one message of a session at a time, newest first, no message to a queue nobody reads, every message settled |
| ModelFailover (`core/model_failover.py`) | per-provider health, family blocks, global breaker, last-healthy cache, locals of every call | `call`, `call_stream`, health transitions | finite effort, no usable provider left out, health fields that agree, breakers that open and close for a reason |
| Session history (`core/modules/session_manager.py`, both ends of `_process_message`) | SQLite rows, in-memory history, `last_saved_len` | load, trim, append, save, archive | the model sees the message it answers, what was said is stored, and stored once |
| Delivery ledger, channels (`core/delivery_ledger.py`, `core/channel.py`) | obligation rows, poll offset | poll, send, create, mark, load, expire | no message lost or repeated without a cause, a record of every answer that did not arrive |
| Sustained tasks (`core/modules/sustained_task.py`) and the PID lock (`unified_worker.py`) | rows of long tasks, a lock per task, the PID file | submit, run, retry, cancel, clean up, recover; start, stop, die | one worker, one execution at a time, no row left behind, no good end repeated |
| Cron (`core/cron.py`) | job objects, their rows, the list of a tick | add, remove, enable, disable, tick, execute | memory and table agree, due jobs run, failing jobs end, runs keep their distance |
| Workflows (`core/workflow.py`) | node statuses, shared by runs; wave and successors of a run | start, wave, PARALLEL node, cancel | a node only after a predecessor, an honest result, nothing left running |
| Subagents (`core/subagent.py`) | task objects, rows, registry of active tasks | delegate, reasoning round, timeout, cancel, poll | poll and list agree, completed tasks stay completed, no empty success, every task ends |
| Guardian (`guardian/daemon.py`, `guardian/healer.py`) | restart history in a file and in memory, safe mode | pull, check, heal, restart | bounded restarts but for those overlooked, repairs end only with a guardian that cannot be started |
| Task supervisor, task files, checkpoints, guards, memory, tools, self repair, constitution, vigil, identity tests, front ends, offline tooling | see `PROJECT.json` | | not modelled, see below |

Interactions: the main loop polls the channels in executor threads and calls
`_dispatch_to_session`, which puts messages into the queue of a session. The
session's processor calls `_process_message`, which awaits `ModelFailover.call`
and runs tools in the executor; among the tools are those that submit a
sustained task, add a cron job, run a workflow or delegate to a subagent. All
coroutines of a worker share one event loop and one `ModelFailover`; every second
the main loop ticks the cron manager, every 60 iterations it sweeps the sessions.
Stores are written by the processors and read at start-up, after the PID lock was
taken. The guardian is a process of its own, which restarts the worker through the
service manager.

The hard behaviour is in the interleavings at suspension points: a timer that
fires while a message arrives, a cancellation that meets a completed wait, a
registry that names a new task while the old one still runs its `finally`, an
answer of a provider that comes after another caller has changed its health, a
list made before a wait and used after it, an object that was replaced while it is
executed, a row that two coroutines or two processes write, a status that two runs
share, a thread that survives the coroutine that waits for it. The list with lines
and properties is in `PROJECT.json` under `hazards`.

## The modules

| module | what it is |
|---|---|
| `AsyncSessions` | the session layer of `AsyncWorker`: main loop, registries, processors, tool threads, shutdown |
| `SessionService` | what that layer promises to the users of a channel; `AsyncSessions` implements it |
| `AsyncSessionsProofs` | seven theorems about `AsyncSessions`: five invariants, the order of messages, the refinement of `SessionService` |
| `ModelFailover`, `MCFailover` | the provider router and its concurrent calls; providers, priorities, families and cooldowns for TLC |
| `ModelFailoverProofs` | six theorems about `ModelFailover` |
| `SessionHistory`, `MCHistory` | history list, `last_saved_len` and store of the conversations; chats, sessions and their routes for TLC |
| `TelegramDelivery` | poll offset, send and delivery ledger of the Telegram channel, for both workers, with crashes |
| `StoreProofs` | what is kept in SQLite: seven theorems about `TelegramDelivery`, four about `SessionHistory` |
| `WorkerLock` | the PID file that starting and stopping workers read, write and remove |
| `SustainedTasks`, `MCTasks` | `WorkerLock` composed with the rows, locks and callers of long tasks; an instance for TLC |
| `SustainedTasksProofs` | seven theorems about both |
| `Cron`, `MCCron` | jobs, rows and the tick of the cron manager; an instance |
| `CronProofs` | five theorems about `Cron` |
| `Workflow`, `MCWorkflow` | concurrent runs of one workflow object; a graph |
| `WorkflowProofs` | four theorems about `Workflow` |
| `Subagents` | delegated tasks, on a long-lived event loop and on those of `asyncio.run()` |
| `SubagentsProofs` | six theorems about `Subagents` |
| `Guardian` | the daemon's loop and the healer's chain, with the restarts of both |
| `GuardianProofs` | three theorems about `Guardian` |

`SessionHistory` and `AsyncSessions` describe the same coroutine at two levels.
`AsyncSessions` shows that the messages of one session are processed one at a
time; `SessionHistory` takes that as its guard (`~Busy(s)`) and looks at what the
turns leave behind. `ModelFailover` is what a processor of `AsyncSessions` waits
for in the `llm` and `summary` states. `TelegramDelivery` is what is around both: it
knows of the session layer only that messages are taken from a poll, are done with
in some order, and send answers meanwhile. `SustainedTasks` extends `WorkerLock`:
its processes are those that have taken, or are about to take, the PID lock, and what
it shows of the rows rests on there being one worker. `Cron`, `Workflow` and
`Subagents` are used by tools of a turn; they share no state with the session
layer but the event loop.

### AsyncSessions

Everything runs on one asyncio event loop, so an action is the code between two
suspension points and the interleavings are those of coroutines at `await`. No
coroutine suspends while it holds `_async_lock`, so the lock is never contended
and has no variable. A processor and the queue made with it are named by the
number of the message whose dispatch made them.

| variables | code |
|---|---|
| `entry`, `idle` | keys of `SessionManager._sessions`, time since `last_access` |
| `queues`, `tasks` | `_session_queues`, `_session_tasks` |
| `buf` | content of each queue object, registered or not |
| `pc`, `msg`, `rounds`, `wait` | where a processor is suspended, its message, `tool_iterations`, time in the current `wait_for` |
| `cancelled` | tasks with a `cancel()` that has not been delivered |
| `toolThread` | messages with a tool still running in the executor |
| `running`, `putTo`, `arrived`, `sid` | the main loop, the queue it waits for in `put()`, what was polled |
| `fate` | history variable: what became of each message |

| actions | code in `unified_worker.py` |
|---|---|
| `Dispatch`, `PutResumes` | `_dispatch_to_session`, one action per message of a poll |
| `Sweep`, `Shutdown` | `_cleanup_sessions` with `_kill_stuck_sessions`; `_shutdown` |
| `Start`, `Receive`, `IdleTimer`, `IdleExit`, `Cancelled` | `_session_processor`; `expiring` is the state of a task whose timer has fired and that has not run yet |
| `SwallowCancel` | `asyncio.wait_for` of CPython 3.10 and 3.11, external |
| `ToolRound`, `ToolReturns`, `ForceSummary`, `Reply`, `Block`, `Raise`, `Resume`, `ProcessTimeout` | `_process_message` and the handlers around it |
| `AbandonedToolEnds`, `Tick` | an executor thread nobody waits for; the clock |

Some definitions (`CancelNobody`, `DropTasks`, `RemoveNothing`, `Oldest`, and in the
other modules those marked as faults) are no part of the specification. They are
plausible slips which replace a definition of the model to test that a property
notices.

### ModelFailover

A caller runs from one suspension to the next without interruption: it suspends
in a request, in the jitter sleep and in the sleep of phase 3. `running` is the
caller that holds the event loop; while there is one, no other caller moves and
no time passes. Timestamps are kept as the time left until them.

| variables | code |
|---|---|
| `health`, `cooldown`, `failures` | `Provider.state`, `cooldown_until`, `consecutive_failures` |
| `gap`, `lru` | what `last_used` is compared with: the minimum interval, and the order of use |
| `familyDead`, `lastHealthy` | `_family_dead_until`, `_last_healthy` |
| `globalFailures`, `broken` | `_global_consecutive_failures`, `_circuit_broken_until` |
| `calls` | locals of each call: phase, preferred family, tried providers, list in hand, time left |
| `steady` | history variable: the providers usable ever since a call began |

`Call` and `CallStream` are the entries; `TryNext`, `TryListed`, `Widen`, `Nap`,
`WakeFromNap`, `RetryFallback` and `GiveUp` the phases; `Succeed`, `Fail` and
`Leave` what a request can come back with; `Penalty` and `TransitionHealth` are
`_transition_health`, `Available` and `Sorted` are `_available`. The counters
stop at the threshold they are compared with, which is all the code looks at, so
the state space is finite without a bound on time or on the number of calls.

### SessionHistory

| variables | code |
|---|---|
| `chatRows`, `recency` | tables `messages` and `sessions` of `sessions.db`, by chat |
| `memory`, `saved` | `session["messages"]`, `session["last_saved_len"]` of the in-memory entry |
| `context`, `rounds` | the local list `messages` of `_process_message`, `tool_iterations` |
| `asked` | history variable: session and chat of every turn |

In-memory sessions are keyed by source and sender (`_get_session_id` of the
worker), rows by source and chat (`get_session_id` of the store), so `Routes` is a
relation: all Telegram senders are called `user` and share one session over many
chats, the two senders of a tical-chat have two sessions over one chat. `Receive`
is `_process_message` up to the first model call, with the reload, the attachment
of the reloaded list and the cleanup; `Answer` is everything after the last model
call, with the write-back; `AnswerUnsaved` is the same with a `save_messages` that
fails; `Block`, `Fail` and `Forget` are the early return, the exceptional end and
the loss of the entry (idle exit, expiry, eviction, restart). A message is its
role and its turn. A `fenced` answer is one the cleanup throws out.

### TelegramDelivery

| variables | code |
|---|---|
| `arrived`, `confirmed`, `seen` | Telegram's side: updates, those it has forgotten, answers in their chat |
| `rows` | table `delivery_obligations`: state, attempts, whether older than `MAX_AGE` |
| `lastUpdate` | `TelegramChannel._last_update`, zero in a new process |
| `overlap` | which worker runs: `AsyncWorker` (`TRUE`) polls while its sessions work, `Worker` when the last poll is processed |
| `up`, `inbox` | whether there is a process; the messages it has polled and is not done with |
| `request`, `answer` | progress of the one `send()` that blocks the thread |
| `handled`, `dropped`, `atCrash`, `fetched`, `crashes` | history variables |

| actions | code |
|---|---|
| `Poll`, `PollLost`, `PollBreaks` | `TelegramChannel.poll`: read to the end; no usable reply; an exception while the batch is read |
| `Finish`, `RoundBreaks` | the loops over the messages in `Worker.run` and `AsyncWorker.run`; the second is an exception in the handler of `Worker` |
| `Send`, `SendSucceeds`, `SendFails`, `SendRaises` | `TelegramChannel.send` up to the request, and its ways out |
| `Start` | the ledger's part of `Worker.run` before its loop; `AsyncWorker` has none |
| `Write`, `TelegramShows`, `TelegramRefuses`, `Crash`, `GrowOld` | users, Telegram, operating system and clock, external |

`CreateObligation`, `MarkDelivered`, `MarkFailed`, `LoadPending` and
`AbandonExpired` are the statements of `delivery_ledger.py`, each a function of the
table. `LoadPending` is used by the properties only: its result is logged and
dropped.

### WorkerLock and SustainedTasks

| variables | code |
|---|---|
| `pidFile`, `proc` | the PID file in `/tmp`; what each PID is: nothing, a starter past the check, a worker |
| `row` | table `sustained_tasks`: state and retries, `deleted` for a row that is gone |
| `call` | what each coroutine of each process does in `run_task()` or `cancel_task()` |
| `serving` | processes that have run `recover_pending_tasks()` |
| `raced`, `ends`, `lost`, `stranded` | history variables: two starters met at the file; good ends; good ends not stored; rows left for the next worker |

`Check`, `Take`, `Leave` and `Die` are the steps of `async_main()` on the file: reading
and judging it, writing it, the `finally` clause, a kill. `Request` and `Enter` are a
call before and after its lock is granted; `Succeed`, `Store`, `CannotStore`, `Fail`,
`BackOff` and `CancelCaller` what an execution can come to, `SetState` is
`_update_state`, `Submit` and `CleanUp` have no lock. `Recover` comes before a
worker serves; `Stop` and `Kill` end it. The locks die with their process, the rows
do not.

### Cron

| variables | code |
|---|---|
| `jobs`, `rows` | `CronManager._jobs`, table `cron_jobs`: enabled, due, failures in a row |
| `queue`, `running` | the list that `check_and_run` has made and walks |
| `orphan` | job objects the list still holds although memory has replaced or dropped them |
| `now`, `up`, `ops` | clock, worker, bound |
| `unsaved`, `overtaken`, `ended`, `streak` | history variables |

`Add`, `Remove`, `Enable` and `Disable` are the operations, `Tick`, `Begin` and
`Finish` the list, `SaveJob` and `DeleteRow` the table, whose errors are swallowed.
`Object(j)` is the point of the module: a job is executed from the object the list was
made of, and its end is saved from there, whatever memory holds by then.

### Workflow

`status` is `NodeStatus` of the nodes, which all runs of the object share. `run[r]` is
one call of `execute()`: the wave in hand, the successors noted so far, the node that
is waited for, and the children of a PARALLEL node that have not ended (`kids`) or are
being executed (`open`). `begun`, `passed`, `lostChild`, `overlapped` and `cancelled`
are history variables. Successors and children are lists, as in the code, and may name a node
twice. `OnTheWay` is a set of nodes in which every node leads on to an END node, by way of a
child where the node is PARALLEL; `LeadsToEnd`, that the workflow has one, is what the last
conjunct of `HonestResult` asks for, and the instance has one. `Skip`, `Execute`, `SendRequest` with `Respond`, and `Fork` with
the `Child` actions and `Join` are the kinds of nodes; `EndWave`, `MoveOn` and
`NextWave` the turn between two waves, in which a PARALLEL node is executed at once.

### Subagents

`obj`, `row` and `active` are the `SubAgentTask` object, its row and the keys of
`_active_tasks`; `pc` and `iter` the coroutine `_run_subagent()`. `host` is how the
manager is used: on one long-lived loop, or from a tool through `asyncio.run()`, whose
loop closes behind `delegate()`. `eager` is whether `asyncio.wait_for()` starts its
coroutine at once (CPython 3.12) or leaves it to a task. `Start`, `Round`, `Wake`,
`Timeout` and `Cancelled` are the steps of the coroutine, `Conclude` its `finally`
clause; `Revoke` is `cancel()`, `Found` what `get_result()` hands out.

### Guardian

`pc` is where `Guardian.run` is, through `heal` of the healer (`Guard`, `ChainPull`,
`ChainRestart`, `Record`) and back; `records` the restarts in the history file and `own`
the daemon's list, both counted by age; `broken`, `importable` and `news` the working copy
and the remote. `Counts` of a log are its entries of each age or younger, `Total` all of
them. `Guard` looks at the file once before all attempts, `Act` is the daemon's own restart
after a successful one of the healer, with its limit and safe mode (`running' = FALSE`,
after which the service manager starts the guardian again).

The file is less than it seems. `SYSTEMD_UNIT` has `PrivateTmp=yes` and the file is in
`/tmp`, so `Start` begins with an empty one. `_load_history` takes a history it cannot read
for an empty one: the guard then lets a chain pass (`GuardBlind`), and the next action that
is recorded overwrites the file, a restart with itself alone (`RecordAlone`), a pull or an
alert with no restart at all (`RecordsGone`). A save may fail too (`RecordLost`). Three
history variables say what becomes of a restart: `healer` has all of the healer's, `counted`
those which are in the file and which no guard has failed to read, `lost` the others, which
the guard overlooks.

With `PYTHONPATH={workdir}` the guardian is imported from the copy it watches:
`guardian/__init__.py` imports `checks.py`, which imports `core/paths.py` and
`core/module_wiring_check.py`. `Start` needs `importable`; a guardian that runs has its
modules loaded, so that only the next start notices.

## The runs

| run | instance | what it shows |
|---|---|---|
| `sessions_evict` | two sessions, one `SessionManager` slot, queues of two, three messages | serial processing; every registered queue is read; no entry without a task; no message is started after a newer one; the layer implements `SessionService` |
| `sessions_live` | one session, a queue of one, three messages, swallowed cancellations, fairness | every message is settled, one that waits in `put()` at a full queue too, unless an orphaned processor is alive |
| `failover_two` | two concurrent calls, a primary and a fallback of different families | health fields agree, the breaker has a cause, a dead provider stays dead, no provider that was usable throughout is left out |
| `failover_three` | one caller of `call` and `call_stream`, two primaries of a family and a fallback, fairness | at most one request per provider and call plus the fast path, where the minimum interval binds and lists are longer than one; every call returns |
| `history` | three sessions over three chats, history of three, window of four, a store of one chat, three turns | the model sees its message; a turn is stored while the history fits; what is appended is new |
| `history_forgets_doc` | one session, history of three | **violated**: turns that are never stored |
| `delivery` | three messages, one answer, two retries, one crash, both workers, fairness | what Telegram forgets has a cause; a message is repeated only by a crash; an answer that never appeared stays loadable; every message is done with, or a cause says why not |
| `worker_tasks` | two processes, one task with two retries, two callers each, three calls, fairness | one worker unless two starters met at the PID file; one execution at a time; no row left in RUNNING or RETRYING that is nobody's; no good end repeated; every call returns |
| `cron` | a default shell job and a tool job, two operations or crashes, fairness | memory and table agree; a job fails at most `max_failures` times in a row; intervals are kept; due jobs are executed |
| `workflow` | two runs over ten nodes with two PARALLEL ones, fairness | types; nodes only after a predecessor; honest results; nothing left running; every run ends |
| `subagents` | two tasks of three rounds, both hosts, both behaviours of `wait_for()`, fairness | polls and lists agree; no success without a result but for a closed loop; completed rows stay; every task ends |
| `guardian` | two restarts, one retry, a window of two ticks, one fault, fairness | restarts within the window are bounded, but for those the guard overlooked; safe mode only when one was overlooked; repairs end only with a guardian that cannot be started |

Every property of a passing run has a mutant of the code in `PROJECT.json` that breaks
it.

### Bounds, and why they are enough

*Sessions.* Three messages give every conflict the code has: one processor at
work, its successor, and a message that waits for either; with one slot for two
sessions every dispatch of the other session evicts. Queues of one or two reach
the full queue. Timeouts are one to three units: what matters is their order, and
`StuckThreshold < HardTimeout < IdleTimeout` is the order of the defaults (300,
600, 1800 seconds); the idle timeout of a processor equals the stuck threshold, as
in the code. Clocks stop one past the last limit they are compared with.
`MaxMsgs` bounds the messages, and the proofs remove the bound for the
invariants, the order and the refinement. The deadlock check is on: `Tick` is
always possible.

*Failover.* Two concurrent callers are what a provider's fields can be disturbed
by: one whose answer is late and one that changed the fields meanwhile. Two
providers make the difference between primary and fallback, three the lists and
the minimum interval. The cooldowns are 1 and 3 units and cap 2, which keeps the
order short, capped, authentication, dead.

*History.* `Keep` 3 stands for 12, `LoadLimit` 4 for 30, `MaxActive` 1 for 100:
the window is larger than the history and the store smaller than the number of
chats, as when it counts. Three turns are enough for a turn that fits, one that
does not, and one of another session or chat between them; four turns were
checked over two Telegram chats. The symmetry set exchanges the two Telegram chats and
the two senders of the tical-chat; no definition or property names any of them. `failover_two` uses the symmetry of its two callers.

*Delivery.* Three messages make a batch of two beside a message in hand, so that a
broken poll drops a message before the one it breaks at and an offset can be off by
one within a batch. One crash gives two processes; two crashes were checked with
`MaxRetries` 1. Rows do not influence each other, but for the one request at a
time: two answers were checked with two messages. `MaxRetries` is 2 for 3: with 1
a row that has failed is never loadable, and `UnseenIsRecoverable` would not see
the difference between `pending` and `failed`. Attempts stop one above the limit
they are compared with. `MaxUpdates` and `MaxCrashes` bound the run; the theorems
hold for all of them. The deadlock check is on: `PollLost` is possible whenever
the process is idle, `Start` when there is none.

*Failover, three providers.* All limits are 1: with one caller the number of failures
that open a breaker or kill a provider matters only in that it can be reached.

*Tasks.* Two processes are what can race for the file, two callers what can race for
a lock; three calls let a task be run, retried and cancelled, or run twice beside a
cancellation. Rows do not influence each other, so there is one task. `MaxRetries` 2
gives a first retry and a last. Deadlock is not checked: when `MaxCalls` is used up and
nobody starts a worker, nothing need happen.

*Cron.* One job every start adds and one only users add; a shell job may do either, a
tool job always fails. Two operations are an addition or removal while the job is
executed and one more against it, or a crash; with `MaxTime` 3 the longer interval (2)
passes once and the shorter three times, which is one more than `MaxFailures`. Deadlock
is not checked: clock and operations run out.

*Workflow.* The graph has a PARALLEL node in a wave and one between two waves, a node
that is reached on two paths, and each kind of node that waits or not; two runs share
the nodes. Deadlock is not checked: both runs come to an end.

*Subagents.* Two tasks share the loop, three rounds are a first, a middle and a last.
Deadlock is not checked: both tasks end.

*Guardian.* `Window` 2 for an hour: a restart can be new, of middle age or at the edge
where the two files count differently. `MaxRestarts` 2 for 3 and `MaxRetries` 1 for 2
keep a chain shorter than the limit, as in the code. One fault is a death, a signal, a
history that is not read or not saved, or a check that fails; each alone makes the guard
overlook restarts, and safe mode, which is no fault, starts the guardian anew on top of it.
The proofs are for any number of faults.

### Fairness

`FairSpec` of `AsyncSessions` has weak fairness of every processor's steps, of the
suspended `put()` and of the clock: the event loop runs every ready task, and a
model call ends by its own hard timeout. `ToolReturns` is *not* fair: a tool may
hang for ever, and `EverySettles` holds because the hard timeout ends the message.
The channels owe no messages and nobody has to stop the worker; nor has the sweep
to run.

Where `SwallowsCancel` holds, the run `sessions_live` claims this only of behaviours
with serial processing throughout: an orphan that leaves unregisters its successor, which
then finds no queue.

`LiveSpec` of `ModelFailover` has strong fairness of the clock and of each
caller's wake-ups and answers, since they are disabled again and again while
another caller runs; the loop serves ready callbacks first come first served, HTTP
requests end by their timeout. The caller that holds the loop goes on (weak
fairness). Nobody has to make a call or to cancel one.

`FairSpec` of `TelegramDelivery` has strong fairness of `Poll` and of every
`Finish`: polls may be lost again and again but the network works now and then, and
a turn ends by its limits (hard timeout, rounds, iterations) though `send()` and
crashes disable its end repeatedly. The end of a request and the restart by the
service manager are weakly fair. Nobody has to write, to send or to crash, and no
row has to grow old.

`FairSpec` of `SustainedTasks` and of `Subagents` has strong fairness of each
coroutine: a loop serves what is ready, an execution ends by its timeout, and
`asyncio.Lock` is granted first come first served, though other coroutines disable a
step again and again. Starting, stopping, killing and cancelling are never owed.

`FairSpec` of `Cron` has weak fairness of the tick with its list (the main loop calls it
every second, a command ends by its timeout) and of the clock, up to its bound. That of
`Workflow` has weak fairness of each run: a request ends by its timeout. No run has to
begin.

`FairSpec` of `Guardian` has weak fairness of the daemon's steps, of its restart by the
service manager (`Restart=always`) while it can be imported, and of the clock, and strong fairness of the fetch:
it may time out again and again, but not always. Commits, edits and faults are not owed.

## The proofs

All are by an inductive invariant `I` with `Init => I`, `I /\ [Next]_vars => I'` and
`I => P`, and rest on the assumption on the constants of the module: limits are positive
numbers, timeouts are numbers, ids are no null values, and the providers are listed
without repetition. Nothing is assumed of the number of sessions, messages, callers,
providers, processes, tasks or jobs.

`AsyncSessionsProofs`

- `TypeCorrect`, `QueuesAreRead`: `Inv == TypeOK /\ Births /\ AtWork /\
  QueueHasReader`. `Births` (a processor exists only from the dispatch of its
  message on, and only a suspended one has a cancellation pending) is needed so
  that a new processor is nobody's; `AtWork` gives the end of a message a message
  to end. The theorem holds with and without swallowed cancellations.
- `ProcessingIsSerial`: `Inv /\ SerialProcessing`, for `SwallowsCancel = FALSE`.
- `EntriesAreOwned`: with `EntryHasTask` added. Serial processing is needed here:
  a processor that is not registered could make an entry for a session without a
  task, which is what an orphan does on Python 3.10 and 3.11.
- `TableIsBounded`: `Inv` and that the set of entries is finite and within
  `max_sessions`; both places that create an entry go through `get_or_create`.

Then, for `SwallowsCancel = FALSE`,

- `MessagesStartInOrder`: `RInv` adds to `Inv` and `SerialProcessing` that queues are in
  ascending order, hold only what nobody began and share nothing (`Lines`), that what is
  in hand was begun and nothing is begun before it is accepted (`InHand`), that a waiting
  `put()` waits at the registered queue of its session (`AtQueue`), and that what a living
  processor will read is of its own session and newer than everything the session began
  (`Ahead`). `Ahead` is the reason for the order; it is inductive only because a message
  goes to the queue of a processor that lives, which is `QueueHasReader`, and because a
  put that waits is never overtaken, which is `Accepted`. All steps but `Dispatch`,
  `PutResumes` and `Receive` are instances of one lemma (`CalmStep`).
- `LayerImplementsService`: the mapping takes the registered queue for what waits and the
  message of the registered processor for the one at work. `Dispatch` is `Accept`, or a
  stutter when it finds the queue full, and then `PutResumes` is `Accept`; `Receive` is
  `Start`, the ends of a turn are `Finish`, and sweep, idle exit and shutdown are `Abandon`
  of any set of sessions. That a cancelled processor does nothing the service could see is
  again `QueueHasReader`.

`ModelFailoverProofs`

- `HealthIsOneStory`, `BreakerHasCause`, `DeadProvidersStayDead`:
  `Inv == Fields /\ HealthAgrees /\ BreakerAgrees /\ DeadWithinLimit`. The last
  conjunct says that a dead provider never has more than `DeadCooldown` left, so
  that another failure does not shorten its cooldown. The locals of the calls play
  no part: the fields agree whatever the callers hold and whenever answers come.
- `TypeCorrect`, `EachProviderIsAskedOnce`, `NoUsableProviderIsLeftOut`: `CallInv` is about
  the locals. `EachCall` says that a list names no provider twice and none that the
  call which walks it has tried, and that the call has sent at most one request more than it
  has tried providers, the one of the fast path; `SteadyIsUsable` that a provider which was usable
  ever since a call began is usable now, whatever other callers did; `LastListNamesAll`
  that such a provider has been tried or is on the list, once the call walks the last one
  it makes. The lists are given by `CHOOSE`, so the proof also shows that they exist
  (`OrderExists`: a finite set of providers can be listed in the order of priority and last
  use, by induction over its size), and that `lru` stays a list of all providers without
  repetition (`UsedGoesLast`).

`StoreProofs`, the delivery ledger

- `RecordedAhead`, `NothingCrossedOff`, `GivenUpForReason`, `FinalRowsStay`:
  `LedgerInv == Ledger /\ AtTelegram /\ WriteAhead`. `Ledger` is about the rows by
  themselves; there is a lemma for each statement of the ledger, which says that it
  keeps `Ledger`, keeps final states (`Kept`) and, but for `mark_delivered`, delivers
  nothing (`NotDelivered`). `AtTelegram` says that a delivered row has been seen and
  is needed for `NothingCrossedOff`: without it a row could be delivered unseen.
- `NothingForgotten`, `RepeatsAreCounted`: `PollInv == Numbers /\ InHands /\
  Counted`. `InHands` strengthens `ForgottenHasCause` to what the *next* poll will
  acknowledge, up to `_last_update`, and says that `Worker` has nothing in hand that
  is acknowledged already, which is why its crashes lose nothing. `Counted` allows
  the present process one more fetch of what it has passed.
- `TypeCorrect`: both with the types of the history.

`StoreProofs`, the history of the conversations

- `HistoryTypeCorrect`, `TheModelSeesItsMessage`, `TurnsAreStoredWhileTheyFit`,
  `OnlyNewIsAppended`: none of the properties is inductive, since the rows of a chat are
  written by several sessions, each with a counter of its own. What keeps them apart is that
  a message which a session has not stored yet is *private* (`Private`): it is in no row and
  in the lists of no other session. `HistoryInv` says this of the messages of a turn in
  progress (`OwnTurn`) and of all that stands behind the counter, in the list of the session
  and in that of its turn (`BehindCounter`); that a turn goes on from what the cleanup left
  of the list, whose last message is the question (`GoesOn`); that the counter is within the
  list (`Counter`); that the turn sees its question within the limit (`AtTurn`); and that no
  message is of a turn still to come (`Past`). `BehindCounter` survives the cleanup because
  the cleanup moves messages towards the front only (`TrimIs`). A step of one session leaves
  the others in order if it spreads only what was stored, what the session held, or what is
  new (`Spreads`, `OthersGoOn`), so each step is looked at for its own session only. What
  `Without` leaves of a list (`WithoutIs`) is shown by induction over the length.
- The theorems hold for any number of sessions and chats, any `Routes` between them, and any
  `Keep`, `LoadLimit`, `MaxActive` and `MaxRounds`; the number of turns, too, is any.

`SustainedTasksProofs`

- `OneWorker`: `LockInv` says that before two starters have met, at most one process is
  past the check, and that the file names the worker. The second is needed: it is what
  makes a starter give up.
- `Exclusive`, `SomebodyCares`, `BudgetHolds`, `OnceOnly`, `StaysCompleted`, `TypeCorrect`:
  `LockInv`, that a lock has one holder in its process (`Mutex`), that only a process which
  serves has callers at work (`OnlyServing`), and for each task that whoever executes it or
  waits to retry it finds the row in RUNNING or RETRYING (`Known`), that such a row is
  somebody's (`Cared`), and that a task with a good end is completed, deleted, lost or in the
  hands of the one who will store it (`Once`).

`CronProofs`

- `TypeCorrect`, `ObjectsStay`, `TableAgrees`, `FailuresStop`, `RunsAreSpaced`: `IInv` is a
  conjunction over the jobs (`Held`, `Fresh`, `Failing`, `Spaced`), and the lemma
  `Locality` reduces each step to the job it is about. `Failing` says that a job which is
  enabled or on the list has a failure left: the list was made when the job was enabled,
  and whoever disables it meanwhile does not take it off.

`WorkflowProofs`

- `TypeCorrect`, `NodesFollowNodesThatPassed`, `ResultsAreHonest`, `NothingIsLeftRunning`: the
  invariant is about the locals of each run. Every node a run has before it follows one that
  passed in the run (`Sourced`); the status of a child that is over was given by this run
  (`Settled`), which is what the join reads; and a run that has lost no child has a node before
  it which is on a way to an END node (`Hopeful`), so that it cannot stop for lack of nodes.
  These three are lost where runs overlap, since another run moves the status of shared nodes;
  what remains then is that the node in hand is the one the loop is at (`Tidy`) and that a node
  which says RUNNING is in the hands of a run (`RunningIsHeld`). The successors that a join
  collects (`Arrivals`) are a list of lists made flat; `IsJoin` and the lemmas after it say what it contains, by
  induction over the length.

`SubagentsProofs`

- `TypeCorrect`, `PollsAgree`, `OnlyAnswersVerified`, `RegistryIsTrue`, `SuccessHasResult`,
  `CompletedRowsStay`: `Sound` of every task. `Unended` is what late ends need: as long as
  the coroutine lives nobody else has called the task completed, timed out or verified,
  and only `cancel()` has called it failed.

`GuardianProofs`

- `TypeCorrect`, `RestartStormsAreBounded`, `SafeModeNeedsAnOverlookedRestart`: a bound on
  the sum of a log is not inductive, since time takes away entries of one end only. The
  invariant bounds the entries *of each age or younger* (`Counts`), for every age: of the
  healer's restarts as many count or are overlooked (`EachRecorded`), and what counts is in
  the file (`Readable`); less than `MaxRestarts` count when the guard lets a chain pass, be
  it that it has read them or that from now on none counts, and what the chain has added
  since is at most one per attempt (`WithinLimit`); the daemon's own list counts no more of
  an age than the healer has restarts (`FollowsHealer`, `OneLeft`). A tick moves every age by
  one, which keeps such a bound. The steps fall into three kinds, each with a lemma: nothing
  but who is overlooked changes (`CountsKept`, with `QuietStep` and `WorldStep`), a restart is
  entered or lost (`OneCountsMore`, `RecordStep`), and the clock. The lemmas on `Counts`
  (`CountsGrow`, `OneMoreCounts`, `MergeCounts`, `OlderCounts`, `PrunedCounts`) are by
  induction over the age.

Induction over numbers is done with a set in the place of a predicate (`SetInduction`,
`LeastNumber`): the library's theorem on well-founded sets of numbers needs no operator
for that.

Some of the theorems state invariants that no run checks: `TypeOK` of `AsyncSessions`,
`TelegramDelivery`, `SustainedTasks`, `Cron`, `Subagents`, `Guardian` and `ModelFailover`,
`HistoryTypeOK`,
`WithinCapacity`, `WriteAhead`, `AbandonedForReason`, `FinalStays`, `TickHasObject`,
`VerifiedIsAnswer`, `RegistryAgrees`, `WithinBudget` and `CompletedStays` of `SustainedTasks`.
The proof takes the place of the run.

Only model-checked: liveness (`EverySettles`, `EveryCallReturns`, `EveryUpdateEnds`,
`DueJobsRun`, `EveryRunEnds`, `EveryTaskEnds`, `KeepsTrying`), which the prover does not do
under fairness. Every safety property that a passing run checks is also a theorem.

## What is abstracted

- *Sessions.* What a message says, what a model answers and which tool runs are
  nondeterministic. A batch of one poll is a run of `Dispatch` steps; a processor
  whose timer has fired runs before the next poll, which is the guard on
  `expiring`; of a batch that is dispatched while a timer fires the guard lets one
  message reach that queue. On Python 3.10 and 3.11 (`SwallowsCancel`) serial processing is
  not claimed, nor liveness while an orphan lives: an orphan goes on beside its replacement,
  and its idle exit unregisters the successor.
- *Failover.* The local providers (mimo-cli, Ollama), which bypass the health
  state, the address check, usage tracking and request formats. `HALF_OPEN` and the
  branches for `is_probe` are unreachable. A call that is refused while the breaker
  is open changes nothing and has no action.
- *History.* A tool round adds one result; none (every tool refused) or several
  do not differ for the properties. Only final answers are `fenced`. A failing
  save stores nothing. An eviction in the middle of a turn is an `Answer` and then
  a `Forget`. The truncation of a long message keeps the message. The placeholder
  results of `load_session` are unreachable, since a call is always saved with its
  results. `get_summary` returns nothing: `AsyncWorker` never writes a summary.

- *Delivery.* An update without chat or text is passed over and is no message here. A
  message counts as handled when the worker is done with it, which includes an error
  reply and, in `AsyncWorker`, being skipped for a newer one; `AsyncSessions` is
  about that. An empty answer has no row, is refused by Telegram and has no action.
  A `create_obligation` that raises changes nothing and has none either. A reply
  that is late or unreadable, or a `mark_delivered` that raises, is `SendFails` from
  `shown`. A mark that a crash interrupts is done or not: SQLite commits one
  statement. The ledger is never cleaned up, `vacuum` having no caller.
- *Tasks.* What a task does is a success or a failure; its timeout is a failure. The table
  is updated in one step of the event loop. A statement that a kill interrupts is done
  or not. Task ids are not used again after a deletion.
- *Cron.* The order of the list is left open. A job has a fixed interval; schedules that
  name a time of day differ only in when they are due. A command that is killed at its
  timeout has failed.
- *Workflow.* What a node computes, its inputs, outputs and variables. Every node that does
  not wait is one step; runs may interleave between any two nodes, which is more than the
  loop allows. Definitions whose graph has a cycle are not in the instance.
- *Subagents.* What the model says is one of four results. An iteration in which tools are
  called is one step or a wait. Writing a row succeeds: an SQLite error at
  `subagent.py:502`, before the `try`, or in `_save_task` of the `finally` clause (718)
  would leave a row behind its object, so that `PollAgreesWithList` and `EveryTaskEnds` hold
  only while writes do.
- *Guardian.* Of the chains of `DECISION_TABLE` only the one of "compile" can restart
  anything, and only it is modelled. A pass of the loop is shorter than a tick. A fetch
  that outlives its timeout ends the pass. The alerts are left out, but for what recording
  them may do to the history. `heal` pulls into `REPO_PATH` (or `~/project`), which may be
  another copy than the daemon's: `ChainPull` allows both. The guardian is the unit of
  `SYSTEMD_UNIT`; one that is started by hand shares the `/tmp` of the machine and keeps its
  history, which only makes fewer restarts overlooked.

## Not modelled

- The turn loop of the deprecated synchronous `Worker`, media, `TicalChatChannel` (its poll
  and send have no ledger).
- `TaskSupervisor`: the worker never creates one; see the differences below.
- Checkpoints, snapshots and the files of long tasks (`task_state.py`): files with one writer
  that nothing reads while it writes, and a resumption that never runs; see below.
- Loop guards, budgets and clarification: counters of one turn.
- Tools, memory, self repair, constitution, axioms and decisions, cognitive protocol, vigil,
  iron wall and identity tests: functions of text and scores, or inspections of the
  operating system. They make up most of the lines of the repository and have no protocol
  state; a model would restate tables of patterns.
- Front ends, the anchor client, benchmarks and deployment: I/O.

## Differences between documentation and code

Shown by a run (`findings` in `PROJECT.json`): turns that are never stored.

Noticed while modelling, visible in a few lines, without a run (all paths under
`src/tical_code/core/`):

- `unified_worker.py:1651-1652`: one session never blocks another. A full queue
  (100) suspends the main loop in `put()` at 2295; `EverySettles` shows it goes on.
- `unified_worker.py:1657-1660`: the entry stays until the longer timeout. The idle
  exit removes it at 2369.
- `unified_worker.py:2300-2301`: serial processing. Not on Python 3.10 and 3.11,
  where `wait_for` can swallow the cancellation of a processor.
- `unified_worker.py:2930`: an empty answer without tools leaves `formatted`
  unbound; the turn ends as an error.
- `unified_worker.py:2509`: enrichments are appended to the system prompt that is
  kept in the history, so it grows with every turn.
- `unified_worker.py:2556`: cutting the history can leave a tool result without its
  call, and so can the window of `load_session`, which treats only the opposite
  case.
- `unified_worker.py:2127`: every Telegram chat has the same in-memory session.
- `model_failover.py:131`: one probe in `HALF_OPEN`. The state is never assigned and
  any number of calls use a provider whose cooldown is over.
- `model_failover.py:198`, `1126`: fallbacks only after all primaries. Phase 1
  selects with `include_fallback=True`.
- `model_failover.py:130`: excluded until the cooldown expires. The lists of phases 2
  and 3 are made once and may name a provider that has been cooled down since.
- `model_failover.py:169-170`: the fast path does not look at the family block.
- `model_failover.py:1432`: `call_stream` has no phase 3.
- `unified_worker.py:2681-2682`: tools that are not safe to run together run one by
  one. The hard timeout at 2329 cancels the coroutine but not the thread of its
  tool, which goes on beside the tools of the next message (`toolThread` in
  `AsyncSessions`).
- `unified_worker.py:2854`: only new turns are appended. `last_saved_len` goes with
  the in-memory entry, so after a reload the loaded turns are appended once more
  (`saved` in `SessionHistory`).
- `delivery_ledger.py:30`: pending and failed obligations are sent again by
  `redeliver_pending()`. There is no such function; `Worker` logs them at start-up
  and `AsyncWorker`, the default, does not even expire them.
- `delivery_ledger.py:36-37`: old rows and rows without retries left are abandoned. A
  row with exactly `MAX_RETRIES` failures is neither loaded nor abandoned until
  `Worker` starts a day later.
- `delivery_ledger.py:35`: at most once. The hash prevents a second row, not a
  second send: every `send()` goes out, whatever the row says, and a text that was
  delivered once has no record of a later failure.
- `channel.py:357`: the offset moves on while the batch is read; an exception in one
  message loses those before it.
- `unified_worker.py:3114`: the sweep cancels the tasks of sessions without an entry; a
  session at work whose entry was evicted by another is such a one.
- `model_failover.py:415`: a cooldown after an authentication failure lasts as documented
  unless a timeout of a call that was under way comes later and replaces it by a shorter one.
- `modules/sustained_task.py:280`: "Apply retry-with-backoff or fail permanently". There is no retry: the
  row goes back to PENDING, the error to the caller, who has to run the task again. `run_task` also runs FAILED
  and cancelled tasks, and `max_retries=0` becomes 3 when the row is read.
- `unified_worker.py:2164`: the first recovered task is "resumed" by a call without the
  coroutine it needs; the error is swallowed.
- `unified_worker.py:3229`: the PID lock is read, judged and written in separate steps, and the
  `finally` clause removes the file whoever wrote it.
- `cron.py:419-421`: an added job that exists keeps its time "so restarts don't push execution into
  the future", but nothing calls `load_jobs()`: a start knows the default jobs only and replaces their rows.
  `task_params` is encoded twice on the way to the table, `cron_add` calls a
  `CronSchedule.parse` that does not exist, `run_count` counts failures too, and prompts are
  reported as queued and dropped.
- `workflow.py:26`: "Every node MUST pass Force-Verify". The validator cannot be imported and
  `_verify_node` returns `True`. The result of a condition changes nothing, the successors of a
  PARALLEL node met between two waves are not followed (those of its children are), and only a
  run that meets an END node succeeds.
- `subagent.py:482`: a subagent that was delegated from a tool is cancelled at its first wait,
  when `asyncio.run()` closes its loop, and stored as completed. Rows of a worker that died stay
  `running`: nothing reads them back.
- `task_state.py:444`: the sequence number is read back with a prefix that never matches, so every
  task of a day gets number 1 and replaces the one before. The RESUME section that
  `start_background_task` looks for does not exist.
- `task_supervisor.py:96`: `get_all_progress` and `check_tasks` take a lock that is not reentrant and
  that a method they call takes again. Nothing creates a supervisor.
- `unified_worker.py:915`, `1043`, `1426`, `3188`: checkpoints are saved, listed and restored with
  arguments and a method the manager does not have (`save(state)`, `list_checkpoints()`, no
  `restore()`). The errors are swallowed; no checkpoint of the worker exists.
- `guardian/healer.py:338-342`: "Max 3 consecutive restarts within 1 hour" and "Cooldown between retries
  per action type". The limit is looked at once before up to three attempts, and the daemon adds a
  restart of its own after each; and restarts are overlooked, above all those before the last start of
  the guardian, whose history in `/tmp` (85) its unit makes private (`daemon.py:70`). `StormIsBounded`
  states the limit that holds. The cooldown compares
  the name of a check with that of an action and never applies.
- `guardian/daemon.py`: the outcomes "ALERT" and "PULL" are compared with lower-case names, so the
  branches for rollback and alert never run; safe mode lets the pass go on and is undone by
  `Restart=always`. The guardian is imported from the copy it repairs (67): a pull or an edit that
  breaks `core/paths.py`, `core/module_wiring_check.py` or its own modules does no harm until it is
  started again, and then ends repairs; `KeepsTrying` names this. Several names in `DECISION_TABLE` (`version_mismatch`, `module_file_missing`,
  `gitignore_missing`, `secrets_exposed`) are not those of `checks.py`, and a worker that is not alive
  has no action. The healer restarts `SERVICE_NAME` (`worker.service`), the daemon
  `GUARDIAN_SERVICE` (`unified-worker`).

## Plan

*Done*: the modules, runs and theorems above. What is left, in this order:

1. An abstract specification of the whole path of a message, from `TelegramDelivery` over
   `AsyncSessions` to the answer, and the refinement.
2. Checkpoints and task files, once the worker uses them.
3. The task supervisor, should the worker create one: mutual exclusion, and that every end of a
   task is reported.
