----------------------------- MODULE Subagents -----------------------------
(***************************************************************************)
(* Delegation to sub-agents (subagent.py, SubAgentManager).                *)
(*                                                                         *)
(* delegate() stores a row, registers the task object as active and starts *)
(* a coroutine, _run_subagent(); get_result() hands out the object while   *)
(* it is active and a copy of the row afterwards; cancel() marks whatever  *)
(* get_result() hands out.  A coroutine gives way only where it really     *)
(* waits: the call of the model and, under AsyncWorker, the tools are      *)
(* plain calls that hold the event loop.                                   *)
(*                                                                         *)
(* The manager is used in two ways.  The asynchronous handlers of          *)
(* subagent.py run it on one long-lived loop ("loop").  The tools the      *)
(* model calls wrap every call in asyncio.run() ("run"), whose loop closes *)
(* as soon as delegate() returns: the coroutine gets one step, and is      *)
(* cancelled at its first wait.                                            *)
(***************************************************************************)
EXTENDS Naturals

CONSTANTS
    Tasks,           \* task ids, in the order in which they are delegated or not
    MaxIterations    \* task.max_iterations

ASSUME ConstantsAssumption == MaxIterations \in Nat \ {0}

VARIABLES
    host,     \* who runs the coroutines: "loop" or "run"
    eager,    \* asyncio.wait_for() starts its coroutine at once (CPython 3.12)
    pc,       \* where each coroutine is
    iter,     \* the reasoning rounds it has begun
    obj,      \* the SubAgentTask object
    row,      \* its row in the table subagent_tasks, or None
    active,   \* keys of _active_tasks
    closing,  \* coroutines whose event loop is closing
    revoked   \* history: tasks whose cancel() returned True

vars == <<host, eager, pc, iter, obj, row, active, closing, revoked>>

None == [status |-> "none"]

Statuses == {"pending", "running", "completed", "failed", "timeout"}
Results  == {"none", "answer", "error", "empty", "timeout", "cancelled"}
Record   == [status : Statuses, result : Results, verified : BOOLEAN]

Fresh == [status |-> "pending", result |-> "none", verified |-> FALSE]

Waits == {"unstarted", "asleep", "tool"}   \* the coroutine is suspended
Live  == {"scheduled", "round"} \cup Waits
Final == {"completed", "failed", "timeout"}

Init ==
    /\ host \in {"loop", "run"}
    /\ eager \in BOOLEAN
    /\ pc = [t \in Tasks |-> "unborn"]
    /\ iter = [t \in Tasks |-> 0]
    /\ obj = [t \in Tasks |-> Fresh]
    /\ row = [t \in Tasks |-> None]
    /\ active = {}
    /\ closing = {}
    /\ revoked = {}

\* A coroutine between two waits holds its loop; with "run" it has one of its own.
LoopFree == host = "loop" => \A t \in Tasks : pc[t] # "round"

\* The loop of the asynchronous handlers serves new calls until it closes.
Serving == LoopFree /\ (host = "loop" => closing = {})

----------------------------------------------------------------------------
(* The table and the registry *)

\* _save_task() replaces the row by the object's fields.
SaveTask(t, r) == row' = [row EXCEPT ![t] = r]

Deactivate(t) == active' = active \ {t}

----------------------------------------------------------------------------
(* delegate() *)

Delegate(t) ==
    /\ Serving
    /\ pc[t] = "unborn"
    /\ SaveTask(t, Fresh)
    /\ active' = active \cup {t}
    /\ pc' = [pc EXCEPT ![t] = "scheduled"]
    /\ UNCHANGED <<host, eager, iter, obj, closing, revoked>>

----------------------------------------------------------------------------
(* _run_subagent() *)

\* Fault: the row is not told.
StartUnseen(t) ==
    /\ obj' = [obj EXCEPT ![t].status = "running"]
    /\ UNCHANGED row

\* "running" is written over whatever the task was, a cancellation included.
MarkRunning(t) ==
    /\ obj' = [obj EXCEPT ![t].status = "running"]
    /\ row' = [row EXCEPT ![t].status = "running"]

\* wait_for() goes into the first round itself or leaves it to a task of its own.
Start(t) ==
    /\ LoopFree
    /\ pc[t] = "scheduled" /\ t \notin closing
    /\ MarkRunning(t)
    /\ pc' = [pc EXCEPT ![t] = IF eager THEN "round" ELSE "unstarted"]
    /\ closing' = IF host = "run" THEN closing \cup {t} ELSE closing
    /\ UNCHANGED <<host, eager, iter, active, revoked>>

\* Fault: nobody calls a task completed.
OutcomeKept(status) == status

\* The status a task ends with.
Outcome(status) ==
    IF status \in {"timeout", "failed"} THEN status ELSE "completed"

\* The finally clause, after the object got the fields in r.
Conclude(t, r) ==
    LET ended == [r EXCEPT !.status = Outcome(r.status)] IN
    /\ obj' = [obj EXCEPT ![t] = ended]
    /\ SaveTask(t, ended)
    /\ Deactivate(t)
    /\ pc' = [pc EXCEPT ![t] = "done"]

\* _verify_subagent_result(): some text that does not begin with "Error:".
Passes(result) == result \notin {"empty", "error"}

\* The loop ended with this text; the status is still what others left there.
Deliver(t, result) ==
    Conclude(t, [obj[t] EXCEPT !.result = result, !.verified = Passes(result)])

WaitAt(t, place) == pc' = [pc EXCEPT ![t] = place] /\ UNCHANGED <<obj, row, active>>

\* A round without an end is followed by the next, after a wait or at once ...
Another(t, n, place, result) ==
    IF n < MaxIterations THEN WaitAt(t, place) ELSE Deliver(t, result)

\* ... also when the tools have returned, unless the text announced the end.
AfterTools(t, n) ==
    \/ Another(t, n, "round", "empty")
    \/ \E result \in {"answer", "error"} : Deliver(t, result)

Failed == [status |-> "failed", result |-> "error", verified |-> FALSE]

\* One reasoning round: the model fails, says nothing, answers, or calls tools,
\* which return or are awaited; anything else that is raised fails the task.
Round(t) ==
    /\ pc[t] = "round"
    /\ iter' = [iter EXCEPT ![t] = @ + 1]
    /\ \/ Another(t, iter'[t], "asleep", "error")
       \/ Another(t, iter'[t], "asleep", "empty")
       \/ AfterTools(t, iter'[t])
       \/ WaitAt(t, "tool")
       \/ Conclude(t, Failed)
    /\ UNCHANGED <<host, eager, closing, revoked>>

\* The wait is over: the inner coroutine starts, a nap ends, a tool returns.
Wake(t) ==
    /\ LoopFree
    /\ pc[t] \in Waits /\ t \notin closing
    /\ IF pc[t] = "tool" THEN AfterTools(t, iter[t]) ELSE WaitAt(t, "round")
    /\ UNCHANGED <<host, eager, iter, closing, revoked>>

\* Fault: the timeout falls through to the finally clause.
TimedOutUncaught(t) == obj[t]

TimedOut(t) == [status |-> "timeout", result |-> "timeout", verified |-> FALSE]

\* wait_for() runs out of time; it can only notice while the coroutine waits.
Timeout(t) ==
    /\ LoopFree
    /\ pc[t] \in Waits /\ t \notin closing
    /\ Conclude(t, TimedOut(t))
    /\ UNCHANGED <<host, eager, iter, closing, revoked>>

\* The loop closes and cancels the coroutine: CancelledError passes both except
\* clauses, so that only the finally clause is left; a coroutine that has not
\* begun does not even get there.
Cancelled(t) ==
    /\ t \in closing
    /\ \/ pc[t] \in Waits /\ Conclude(t, obj[t])
       \/ pc[t] = "scheduled" /\ WaitAt(t, "done")
    /\ UNCHANGED <<host, eager, iter, closing, revoked>>

----------------------------------------------------------------------------
(* cancel(), which the asynchronous handlers alone offer *)

\* Fault: completed tasks can be cancelled.
RefusesFailed == {"failed"}

Refuses == {"completed", "failed"}

\* get_result(): the live object or a copy of the row.
Found(t) == IF t \in active THEN obj[t] ELSE row[t]

Revoke(t) ==
    /\ host = "loop" /\ Serving
    /\ row[t] # None
    /\ Found(t).status \notin Refuses
    /\ LET marked == [Found(t) EXCEPT !.status = "failed", !.result = "cancelled"] IN
       /\ obj' = IF t \in active THEN [obj EXCEPT ![t] = marked] ELSE obj
       /\ SaveTask(t, marked)
    /\ Deactivate(t)
    /\ revoked' = revoked \cup {t}
    /\ UNCHANGED <<host, eager, pc, iter, closing>>

----------------------------------------------------------------------------
(* The process *)

\* The worker stops in good order and its loop closes.
Shutdown ==
    /\ host = "loop" /\ Serving
    /\ closing' = Tasks
    /\ UNCHANGED <<host, eager, pc, iter, obj, row, active, revoked>>

\* The process dies; the next one has the rows and nothing that reads them back.
Crash ==
    /\ \E t \in Tasks : pc[t] \in Live
    /\ pc' = [t \in Tasks |-> IF pc[t] \in Live THEN "lost" ELSE pc[t]]
    /\ active' = {}
    /\ UNCHANGED <<host, eager, iter, obj, row, closing, revoked>>

Coroutine(t) == Start(t) \/ Round(t) \/ Wake(t) \/ Timeout(t) \/ Cancelled(t)

Next ==
    \/ \E t \in Tasks : Delegate(t) \/ Coroutine(t) \/ Revoke(t)
    \/ Shutdown
    \/ Crash

Spec == Init /\ [][Next]_vars

\* Event loops run whatever is ready; nobody has to delegate, cancel or stop.
FairSpec == Spec /\ \A t \in Tasks : SF_vars(Coroutine(t))

----------------------------------------------------------------------------
(* Properties *)

TypeOK ==
    /\ host \in {"loop", "run"} /\ eager \in BOOLEAN
    /\ pc \in [Tasks -> Live \cup {"unborn", "done", "lost"}]
    /\ iter \in [Tasks -> 0..MaxIterations]
    /\ obj \in [Tasks -> Record]
    /\ row \in [Tasks -> Record \cup {None}]
    /\ active \subseteq Tasks /\ closing \subseteq Tasks /\ revoked \subseteq Tasks

\* A poll, which reads the object of an active task, and the list of tasks, which
\* reads rows, tell the same story, and so does a poll after a restart.
PollAgreesWithList == \A t \in active : row[t] = obj[t]

\* Only an answer is ever marked verified, in a task that was not given up by its
\* own timeout or by an exception.
VerifiedIsAnswer ==
    \A t \in Tasks : row[t] # None /\ row[t].verified =>
        /\ row[t].result = "answer"
        /\ row[t].status = "completed" \/ t \in revoked

\* The registry holds the tasks whose coroutine lives, but for those cancelled;
\* it neither leaks ended tasks nor loses one that a parent may still ask for.
\* (A coroutine that was cancelled before it began leaves its task behind, in a
\* process that is about to end.)
RegistryAgrees ==
    /\ \A t \in active : pc[t] \in Live \/ t \in closing
    /\ \A t \in Tasks : pc[t] \in Live => t \in active \cup revoked

\* On a loop that goes on, a completed task has a result, be it an error text.
NoEmptySuccess ==
    \A t \in Tasks :
        row[t] # None /\ row[t].status = "completed" /\ row[t].result = "none" =>
            host = "run" \/ t \in closing

\* No later step touches the row of a completed task: no cancellation, no late
\* timeout, no second end.
CompletedStays ==
    [][\A t \in Tasks : row[t] # None /\ row[t].status = "completed" => row'[t] = row[t]]_vars

\* Whatever the model and the tools do, a delegated task gets a final row, unless
\* the process ends first.
EveryTaskEnds ==
    \A t \in Tasks : pc[t] = "scheduled" ~>
        (row[t].status \in Final \/ pc[t] = "lost" \/ (host = "loop" /\ t \in closing))

=============================================================================
