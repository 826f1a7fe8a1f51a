-------------------------------- MODULE Cron --------------------------------
(***************************************************************************)
(* The scheduler of the worker (CronManager in cron.py): the jobs in       *)
(* memory, their rows in SQLite, and the tick of the main loop.            *)
(*                                                                         *)
(* A tick makes one list of the job objects that are due and executes them *)
(* one after another.  While one executes, jobs are added, removed,        *)
(* enabled and disabled; the list keeps the objects it was made of, so the *)
(* object that a job is executed from may no longer be the one in memory.  *)
(* The order of the list is left open.  Every other operation runs in one  *)
(* step of the event loop: its lock is never contended.                    *)
(***************************************************************************)
EXTENDS Naturals

CONSTANTS
    Jobs,          \* job ids
    Defaults,      \* the jobs that every start adds
    Kind,          \* "shell", "tool" or "prompt", per job
    Interval,      \* calculate_next_run() adds this, per job
    MaxFailures,   \* failures in a row after which a job is disabled
    MaxTime,       \* bound on the clock
    MaxOps         \* bound on the operations on jobs and the crashes

None == "none"

ASSUME CronAssumption ==
    /\ None \notin Jobs
    /\ Defaults \subseteq Jobs
    /\ Kind \in [Jobs -> {"shell", "tool", "prompt"}]
    /\ Interval \in [Jobs -> Nat \ {0}]
    /\ MaxFailures \in Nat \ {0}
    /\ MaxTime \in Nat
    /\ MaxOps \in Nat

VARIABLES
    now,       \* the clock
    up,        \* the worker runs
    jobs,      \* the job objects in memory
    rows,      \* the rows of the table
    queue,     \* jobs on the list of the tick that were not executed yet
    running,   \* the job being executed
    orphan,    \* objects on the list that are no longer those in memory
    ops,       \* operations so far
    unsaved,   \* history: jobs whose row is not that of the object in memory
    overtaken, \* history: jobs added or removed while they were on the list
    ended,     \* history: when the last execution of a job ended
    streak     \* history: executions of a job that failed in a row

vars == <<now, up, jobs, rows, queue, running, orphan, ops,
          unsaved, overtaken, ended, streak>>

NoJob == [enabled |-> FALSE, due |-> 0, fails |-> 0, there |-> FALSE]
Never == [past |-> FALSE, at |-> 0]

NewJob(due, fails) == [enabled |-> TRUE, due |-> due, fails |-> fails, there |-> TRUE]

Listed == queue \cup {j \in Jobs : running = j}

\* The object that the tick executes j from.
Object(j) == IF orphan[j].there THEN orphan[j] ELSE jobs[j]

Init ==
    /\ now = 0
    /\ up = FALSE
    /\ jobs = [j \in Jobs |-> NoJob]
    /\ rows = [j \in Jobs |-> NoJob]
    /\ queue = {}
    /\ running = None
    /\ orphan = [j \in Jobs |-> NoJob]
    /\ ops = 0
    /\ unsaved = {}
    /\ overtaken = {}
    /\ ended = [j \in Jobs |-> Never]
    /\ streak = [j \in Jobs |-> 0]

----------------------------------------------------------------------------
(* The table *)

\* _save_job() writes the row, or raises and leaves it.
SaveJob(j, job) ==
    \/ /\ rows' = [rows EXCEPT ![j] = job]
       /\ unsaved' = IF jobs'[j] = job THEN unsaved \ {j} ELSE unsaved \cup {j}
    \/ /\ UNCHANGED rows
       /\ unsaved' = unsaved \cup {j}

\* Fault: the row is left.
KeepRow(j) == UNCHANGED <<rows, unsaved>>

\* remove_job() deletes the row, or raises and leaves it.
DeleteRow(j) ==
    \/ rows' = [rows EXCEPT ![j] = NoJob] /\ unsaved' = unsaved \ {j}
    \/ UNCHANGED rows /\ unsaved' = unsaved \cup {j}

----------------------------------------------------------------------------
(* Operations on jobs *)

Operation ==
    /\ up
    /\ ops < MaxOps
    /\ ops' = ops + 1
    /\ UNCHANGED <<now, up, queue, running>>

\* The list keeps the object of j that an operation takes out of memory.
LeaveToTick(j) ==
    /\ orphan' = IF j \in Listed /\ ~orphan[j].there
                   THEN [orphan EXCEPT ![j] = jobs[j]] ELSE orphan
    /\ overtaken' = IF j \in Listed THEN overtaken \cup {j} ELSE overtaken

\* What a job becomes that is added: one that exists keeps its time and its
\* failures, a new one is due at once.
AddedJob(j) ==
    IF jobs[j].there THEN NewJob(jobs[j].due, jobs[j].fails) ELSE NewJob(now, 0)

Add(j) ==
    /\ Operation
    /\ jobs' = [jobs EXCEPT ![j] = AddedJob(j)]
    /\ SaveJob(j, AddedJob(j))
    /\ LeaveToTick(j)
    /\ streak' = [streak EXCEPT ![j] = 0]
    /\ UNCHANGED ended

Remove(j) ==
    /\ Operation
    /\ jobs[j].there
    /\ jobs' = [jobs EXCEPT ![j] = NoJob]
    /\ DeleteRow(j)
    /\ LeaveToTick(j)
    /\ ended' = [ended EXCEPT ![j] = Never]
    /\ streak' = [streak EXCEPT ![j] = 0]

Enable(j) ==
    LET job == NewJob(now + Interval[j], 0) IN
    /\ Operation
    /\ jobs[j].there
    /\ jobs' = [jobs EXCEPT ![j] = job]
    /\ SaveJob(j, job)
    /\ streak' = [streak EXCEPT ![j] = 0]
    /\ UNCHANGED <<orphan, overtaken, ended>>

Disable(j) ==
    LET job == [jobs[j] EXCEPT !.enabled = FALSE] IN
    /\ Operation
    /\ jobs[j].there
    /\ jobs' = [jobs EXCEPT ![j] = job]
    /\ SaveJob(j, job)
    /\ UNCHANGED <<orphan, overtaken, ended, streak>>

----------------------------------------------------------------------------
(* The tick *)

Due(j) == jobs[j].enabled /\ jobs[j].due <= now

\* Fault: a job that failed is not looked at again.
NeverFailed == {j \in Jobs : Due(j) /\ jobs[j].fails = 0}

DueJobs == {j \in Jobs : Due(j)}

Tick ==
    /\ up /\ Listed = {}
    /\ DueJobs # {}
    /\ queue' = DueJobs
    /\ UNCHANGED <<now, up, jobs, rows, running, orphan, ops,
                   unsaved, overtaken, ended, streak>>

Begin(j) ==
    /\ running = None
    /\ j \in queue
    /\ queue' = queue \ {j}
    /\ running' = j
    /\ UNCHANGED <<now, up, jobs, rows, orphan, ops, unsaved, overtaken, ended, streak>>

\* A prompt is reported as queued although the worker has no queue for it, and a
\* tool is not found: the worker has no registry where the job looks for one.
Outcomes(j) ==
    CASE Kind[j] = "shell"  -> BOOLEAN
      [] Kind[j] = "tool"   -> {FALSE}
      [] Kind[j] = "prompt" -> {TRUE}

\* Fault: the schedule is caught up with.
CatchUp(j) == Object(j).due + Interval[j]

NextRun(j) == now + Interval[j]

\* Fault: one failure more than allowed.
OneFailureMore(fails) == fails > MaxFailures

TooManyFailures(fails) == fails >= MaxFailures

\* The end of execute_job(), for the object the list holds.
Executed(j, ok) ==
    LET fails == IF ok THEN 0 ELSE Object(j).fails + 1
    IN  [Object(j) EXCEPT !.fails = fails, !.due = NextRun(j),
                          !.enabled = @ /\ (ok \/ ~TooManyFailures(fails))]

OffTheList(j) == orphan' = [orphan EXCEPT ![j] = NoJob]

\* The command ends, fails or is killed at its timeout.
Finish(j, ok) ==
    /\ running = j
    /\ ok \in Outcomes(j)
    /\ running' = None
    /\ IF orphan[j].there THEN UNCHANGED jobs
                          ELSE jobs' = [jobs EXCEPT ![j] = Executed(j, ok)]
    /\ OffTheList(j)
    /\ SaveJob(j, Executed(j, ok))
    /\ ended' = [ended EXCEPT ![j] = [past |-> TRUE, at |-> now]]
    /\ streak' = [streak EXCEPT ![j] = IF ok THEN 0 ELSE @ + 1]
    /\ UNCHANGED <<now, up, queue, ops, overtaken>>

----------------------------------------------------------------------------
(* The worker *)

Clock ==
    /\ now < MaxTime
    /\ now' = now + 1
    /\ UNCHANGED <<up, jobs, rows, queue, running, orphan, ops,
                   unsaved, overtaken, ended, streak>>

\* Nothing calls load_jobs(): a start knows only the default jobs, and what it
\* adds replaces their rows.
Start ==
    /\ ~up
    /\ up' = TRUE
    /\ jobs' = [j \in Jobs |-> IF j \in Defaults THEN NewJob(now, 0) ELSE NoJob]
    /\ rows' = [j \in Jobs |-> IF j \in Defaults THEN NewJob(now, 0) ELSE rows[j]]
    /\ unsaved' = Jobs \ Defaults
    /\ UNCHANGED <<now, queue, running, orphan, ops, overtaken, ended, streak>>

Crash ==
    /\ up
    /\ ops < MaxOps
    /\ ops' = ops + 1
    /\ up' = FALSE
    /\ jobs' = [j \in Jobs |-> NoJob]
    /\ queue' = {}
    /\ running' = None
    /\ orphan' = [j \in Jobs |-> NoJob]
    /\ overtaken' = {}
    /\ ended' = [j \in Jobs |-> Never]
    /\ streak' = [j \in Jobs |-> 0]
    /\ UNCHANGED <<now, rows, unsaved>>

----------------------------------------------------------------------------
Loop == Tick \/ \E j \in Jobs : Begin(j) \/ \E ok \in BOOLEAN : Finish(j, ok)

Next ==
    \/ \E j \in Jobs : Add(j) \/ Remove(j) \/ Enable(j) \/ Disable(j)
    \/ Loop \/ Clock \/ Start \/ Crash

Spec == Init /\ [][Next]_vars

\* The main loop ticks once a second, time passes, and an execution ends by its
\* timeout at the latest.
FairSpec == Spec /\ WF_vars(Loop) /\ WF_vars(Clock)

----------------------------------------------------------------------------
(* Properties *)

JobType == [enabled : BOOLEAN, due : Nat, fails : Nat, there : BOOLEAN]

TypeOK ==
    /\ now \in 0..MaxTime
    /\ up \in BOOLEAN
    /\ jobs \in [Jobs -> JobType] /\ rows \in [Jobs -> JobType]
    /\ queue \subseteq Jobs
    /\ running \in Jobs \cup {None} /\ running \notin queue
    /\ orphan \in [Jobs -> JobType]
    /\ \A j \in Jobs : orphan[j].there => j \in Listed
    /\ ops \in 0..MaxOps
    /\ unsaved \subseteq Jobs /\ overtaken \subseteq Jobs
    /\ ended \in [Jobs -> [past : BOOLEAN, at : 0..MaxTime]]
    /\ streak \in [Jobs -> Nat]

\* The tick never executes a job that is neither in memory nor kept by its list.
TickHasObject == \A j \in Listed : Object(j).there

\* The table holds what the memory holds, through every interleaving of operations
\* with an execution, unless writing failed or the execution of an object that was
\* replaced or removed wrote over it.
RowsAgree ==
    up => \A j \in Jobs \ unsaved : rows[j] = jobs[j]

\* A job that nobody touches does not fail more often in a row than allowed,
\* whatever is added, removed, enabled or disabled while it waits in the list.
FailuresEnd ==
    \A j \in Jobs \ overtaken : streak[j] <= MaxFailures

\* A job is not begun again before its interval has passed since it ended.
SpacedOut ==
    [][\A j \in Jobs \ overtaken :
          running # j /\ running' = j /\ ended[j].past
             => now >= ended[j].at + Interval[j]]_vars

\* An enabled job that is due is executed, if the worker stays up and nobody
\* removes, disables or puts off the job.
DueJobsRun ==
    \A j \in Jobs : Due(j) ~> running = j \/ ~Due(j)

=============================================================================
