--------------------------- MODULE SustainedTasks ---------------------------
(***************************************************************************)
(* The persistent tasks of the worker (sustained_task.py) in the processes *)
(* that share the table: rows survive a process, the locks do not.         *)
(*                                                                         *)
(* run_task() and cancel_task() hold an asyncio.Lock per task from the     *)
(* look at the row to the last write, the wait before a retry included.    *)
(* The table is updated in one step of the event loop: its own lock is     *)
(* never contended.  A worker puts the rows that its predecessor left in   *)
(* RUNNING or RETRYING back to PENDING before it serves anybody.           *)
(***************************************************************************)
EXTENDS WorkerLock, Naturals, FiniteSets

CONSTANTS
    Tasks,        \* task ids
    Callers,      \* coroutines of one process that may call the manager
    MaxRetries,   \* the argument of submit(), per task
    MaxCalls      \* bound on the calls of run_task() and cancel_task()

ASSUME TasksAssumption ==
    MaxRetries \in [Tasks -> Nat] /\ MaxCalls \in Nat

VARIABLES
    row,       \* each task's row
    call,      \* what each caller of each process does
    serving,   \* processes that have recovered the rows
    calls,     \* calls made so far
    ends,      \* history: how often each task's coroutine came to a good end
    lost,      \* history: tasks with a good end that was never stored
    stranded   \* history: tasks whose row the last run left for the next worker

taskVars == <<row, call, serving, calls, ends, lost, stranded>>
vars == <<lockVars, taskVars>>

Idle == [at |-> "idle"]
NoRow == [state |-> "absent", retries |-> 0]

Holds == {"running", "returned", "backoff"}   \* the caller has the task's lock

Executes(p, c, t) == call[p][c].at \in {"running", "returned"} /\ call[p][c].task = t
HasLock(p, c, t) == call[p][c].at \in Holds /\ call[p][c].task = t

Init ==
    /\ LockInit
    /\ row = [t \in Tasks |-> NoRow]
    /\ call = [p \in Procs |-> [c \in Callers |-> Idle]]
    /\ serving = {}
    /\ calls = 0
    /\ ends = [t \in Tasks |-> 0]
    /\ lost = {}
    /\ stranded = {}

Goto(p, c, place) == call' = [call EXCEPT ![p][c].at = place]
Return(p, c) == call' = [call EXCEPT ![p][c] = Idle]

\* _update_state(): a row that is gone is not brought back.
SetState(t, state) ==
    row' = [row EXCEPT ![t].state = IF @ = "deleted" THEN @ ELSE state]

----------------------------------------------------------------------------
(* submit() and cleanup_old_tasks() *)

Submit(p, t) ==
    /\ p \in serving
    /\ row[t] = NoRow
    /\ row' = [row EXCEPT ![t] = [state |-> "PENDING", retries |-> 0]]
    /\ UNCHANGED <<lockVars, call, serving, calls, ends, lost, stranded>>

\* Rows that ended long ago are deleted, without a lock; ids are not used again.
CleanUp(p, t) ==
    /\ p \in serving
    /\ row[t].state \in {"COMPLETED", "FAILED"}
    /\ row' = [row EXCEPT ![t].state = "deleted"]
    /\ UNCHANGED <<lockVars, call, serving, calls, ends, lost, stranded>>

----------------------------------------------------------------------------
(* run_task() and cancel_task() *)

Request(p, c, t, op) ==
    /\ p \in serving
    /\ call[p][c] = Idle
    /\ row[t] # NoRow
    /\ calls < MaxCalls
    /\ calls' = calls + 1
    /\ call' = [call EXCEPT ![p][c] = [at |-> "waiting", task |-> t, op |-> op]]
    /\ UNCHANGED <<lockVars, row, serving, ends, lost, stranded>>

\* Fault: the lock is not taken.
NoLock(p, t) == TRUE

\* Fault: the lock is granted only to a caller who is alone.
NobodyElse(p, t) ==
    Cardinality({c \in Callers : call[p][c] # Idle}) <= 1

LockFree(p, t) == \A d \in Callers : ~HasLock(p, d, t)

\* Fault: a completed task is run like any other.
AnyState(t) == row[t].state # "deleted"

\* Everything but COMPLETED is run, FAILED and cancelled tasks too.
Runnable(t) == row[t].state \notin {"COMPLETED", "deleted"}

Cancellable(t) == row[t].state \notin {"COMPLETED", "FAILED", "deleted"}

\* The lock is granted: the row decides, under the lock, what happens.
Enter(p, c) ==
    LET t == call[p][c].task  op == call[p][c].op IN
    /\ call[p][c].at = "waiting"
    /\ LockFree(p, t)
    /\ IF op = "run" /\ Runnable(t)
         THEN /\ SetState(t, "RUNNING")
              /\ Goto(p, c, "running")
              /\ stranded' = stranded \ {t}
         ELSE /\ IF op = "cancel" /\ Cancellable(t) THEN SetState(t, "FAILED")
                                                    ELSE UNCHANGED row
              /\ Return(p, c)
              /\ UNCHANGED stranded
    /\ UNCHANGED <<lockVars, serving, calls, ends, lost>>

\* The coroutine of the task returns ...
Succeed(p, c) ==
    /\ call[p][c].at = "running"
    /\ ends' = [ends EXCEPT ![call[p][c].task] = @ + 1]
    /\ Goto(p, c, "returned")
    /\ UNCHANGED <<lockVars, row, serving, calls, lost, stranded>>

\* ... and its result is stored.
Store(p, c) ==
    /\ call[p][c].at = "returned"
    /\ SetState(call[p][c].task, "COMPLETED")
    /\ Return(p, c)
    /\ UNCHANGED <<lockVars, serving, calls, ends, lost, stranded>>

\* json.dumps() or the table refuses the result: the row stays as it is.
CannotStore(p, c) ==
    /\ call[p][c].at = "returned"
    /\ lost' = lost \cup {call[p][c].task}
    /\ stranded' = stranded \cup {call[p][c].task}
    /\ Return(p, c)
    /\ UNCHANGED <<lockVars, row, serving, calls, ends>>

\* from_row() reads "max_retries or 3"
Budget(t) == IF MaxRetries[t] = 0 THEN 3 ELSE MaxRetries[t]

RetryDue(t, tried) == tried < Budget(t)

\* The coroutine raises or times out: _handle_failure().
Fail(p, c) ==
    LET t == call[p][c].task  tried == row[t].retries + 1 IN
    /\ call[p][c].at = "running"
    /\ \/ /\ row[t].state = "deleted"     \* no record: back to the caller
          /\ UNCHANGED row
          /\ Return(p, c)
       \/ /\ row[t].state # "deleted" /\ RetryDue(t, tried)
          /\ row' = [row EXCEPT ![t] = [state |-> "RETRYING", retries |-> tried]]
          /\ Goto(p, c, "backoff")
       \/ /\ row[t].state # "deleted" /\ ~RetryDue(t, tried)
          /\ row' = [row EXCEPT ![t] = [state |-> "FAILED", retries |-> tried]]
          /\ Return(p, c)
    /\ UNCHANGED <<lockVars, serving, calls, ends, lost, stranded>>

\* The wait before the retry is over; the retry itself is left to the caller,
\* to whom the error is raised.
BackOff(p, c) ==
    /\ call[p][c].at = "backoff"
    /\ SetState(call[p][c].task, "PENDING")
    /\ Return(p, c)
    /\ UNCHANGED <<lockVars, serving, calls, ends, lost, stranded>>

PutBack(t) == SetState(t, "PENDING")

\* The caller's coroutine is cancelled.  The except clause that puts the task
\* back covers its execution, not the wait before a retry.
CancelCaller(p, c) ==
    LET t == call[p][c].task IN
    /\ call[p][c].at \in {"waiting", "running", "backoff"}
    /\ IF call[p][c].at = "running" THEN PutBack(t) ELSE UNCHANGED row
    /\ stranded' = IF call[p][c].at = "backoff" THEN stranded \cup {t} ELSE stranded
    /\ Return(p, c)
    /\ UNCHANGED <<lockVars, serving, calls, ends, lost>>

----------------------------------------------------------------------------
(* Start and end of a worker *)

StartUp(p) == (Check(p) \/ Take(p)) /\ UNCHANGED taskVars

\* Fault: only tasks that wait for a retry are recovered.
LeftRetrying(t) == row[t].state = "RETRYING"

LeftBehind(t) == row[t].state \in {"RUNNING", "RETRYING"}

\* recover_pending_tasks(), before the main loop.  The automatic resumption of
\* the first of them calls run_task() without the coroutine: nothing is run.
Recover(p) ==
    /\ p \in Up \ serving
    /\ \/ /\ row' = [t \in Tasks |->
                   IF LeftBehind(t) THEN [row[t] EXCEPT !.state = "PENDING"] ELSE row[t]]
          /\ stranded' = {}
       \/ /\ UNCHANGED row      \* the error is logged and the worker goes on
          /\ stranded' = stranded \cup {t \in Tasks : LeftBehind(t)}
    /\ serving' = serving \cup {p}
    /\ UNCHANGED <<lockVars, call, calls, ends, lost>>

Gone(p) == serving \ {p}

\* asyncio.run() cancels every coroutine before it returns.
Stop(p) ==
    /\ Leave(p)
    /\ \A c \in Callers : call[p][c] = Idle
    /\ serving' = Gone(p)
    /\ UNCHANGED <<row, call, calls, ends, lost, stranded>>

Kill(p) ==
    /\ Die(p)
    /\ call' = [call EXCEPT ![p] = [c \in Callers |-> Idle]]
    /\ serving' = Gone(p)
    /\ lost' = lost \cup {t \in Tasks : \E c \in Callers :
                            call[p][c].at = "returned" /\ call[p][c].task = t}
    /\ UNCHANGED <<row, calls, ends, stranded>>

----------------------------------------------------------------------------
CallStep(p, c) ==
    Enter(p, c) \/ Succeed(p, c) \/ Store(p, c) \/ CannotStore(p, c) \/ Fail(p, c) \/ BackOff(p, c)

Next ==
    \E p \in Procs :
        \/ \E t \in Tasks : Submit(p, t) \/ CleanUp(p, t)
        \/ \E c \in Callers, t \in Tasks, op \in {"run", "cancel"} : Request(p, c, t, op)
        \/ \E c \in Callers : CallStep(p, c) \/ CancelCaller(p, c)
        \/ StartUp(p) \/ Recover(p) \/ Stop(p) \/ Kill(p)

Spec == Init /\ [][Next]_vars

\* Within a process the loop runs what is ready, an execution ends by its timeout
\* at the latest, and the lock is granted first come first served.
FairSpec == Spec /\ \A p \in Procs, c \in Callers : SF_vars(CallStep(p, c))

----------------------------------------------------------------------------
(* Properties *)

States == {"absent", "PENDING", "RUNNING", "COMPLETED", "FAILED", "RETRYING", "deleted"}

TypeOK ==
    /\ LockTypeOK
    /\ row \in [Tasks -> [state : States, retries : Nat]]
    /\ call \in [Procs -> [Callers -> {Idle} \cup
                   [at : {"waiting"} \cup Holds, task : Tasks, op : {"run", "cancel"}]]]
    /\ serving \subseteq Up
    /\ calls \in 0..MaxCalls
    /\ ends \in [Tasks -> Nat]
    /\ lost \subseteq Tasks
    /\ stranded \subseteq Tasks

\* A task is executed by one caller at a time, over all processes: within one by
\* the lock, between them because there is one worker.
OneAtATime ==
    raced \/ \A t \in Tasks, p, q \in Procs, c, d \in Callers :
                Executes(p, c, t) /\ Executes(q, d, t) => p = q /\ c = d

\* In a worker that serves, a row that says RUNNING has somebody who runs it, and
\* one that says RETRYING somebody who waits to put it back, unless the wait was
\* cancelled, the result could not be stored or the recovery failed.
NoneLeftBehind ==
    raced \/ serving = {} \/ \A t \in Tasks :
        /\ row[t].state = "RUNNING" =>
              t \in stranded \/ \E p \in serving, c \in Callers : Executes(p, c, t)
        /\ row[t].state = "RETRYING" =>
              t \in stranded \/ \E p \in serving, c \in Callers : HasLock(p, c, t)

\* The retry budget decides between RETRYING and FAILED, and it decides in time:
\* nobody waits for a retry that is not due to him.
WithinBudget ==
    \A t \in Tasks : row[t].state = "RETRYING" =>
        row[t].retries \in 1..(Budget(t) - 1)

\* A task comes to a good end once, however often it is run, retried, cancelled and
\* recovered, unless an end of it was not stored or two workers ran side by side.
DoneOnce == raced \/ \A t \in Tasks : ends[t] > 1 => t \in lost

\* A completed task stays completed until its row is deleted, whoever runs,
\* cancels or recovers what.
CompletedStays ==
    [][\A t \in Tasks : ~raced /\ row[t].state = "COMPLETED" =>
            row'[t].state \in {"COMPLETED", "deleted"}]_vars

\* Every call returns: no lock is kept for ever.
EveryCallReturns ==
    \A p \in Procs, c \in Callers : call[p][c] # Idle ~> call[p][c] = Idle

=============================================================================
