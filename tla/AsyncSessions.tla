--------------------------- MODULE AsyncSessions ---------------------------
(* The session layer of AsyncWorker (src/tical_code/core/unified_worker.py): *)
(* the in-memory SessionManager, the registries _session_queues and          *)
(* _session_tasks, the main loop that dispatches polled messages and sweeps, *)
(* and one _session_processor task per session.                              *)
(*                                                                           *)
(* Everything runs on one asyncio event loop, so a step is the code between  *)
(* two suspension points.  No coroutine suspends while it holds _async_lock, *)
(* hence the lock never contends and has no variable.                        *)
(*                                                                           *)
(* Messages are numbered in the order the channels return them.  A processor *)
(* task and the queue created with it are named by the message whose         *)
(* dispatch created them.                                                    *)
EXTENDS Integers, Sequences, FiniteSets

CONSTANTS
    Sessions,        \* session ids, "<source>:<sender>"
    QueueSize,       \* asyncio.Queue(maxsize=100)
    MaxSessions,     \* SessionManager.max_sessions
    SessionTimeout,  \* idle seconds after which a processor exits
    StuckThreshold,  \* idle seconds after which a processor is killed
    HardTimeout,     \* seconds one message may be processed
    IdleTimeout,     \* idle seconds after which an entry expires
    MaxToolRounds,   \* MAX_TOOL_ITERATIONS
    SwallowsCancel,  \* asyncio.wait_for of Python 3.10 and 3.11 drops a
                     \* cancellation that meets a completed inner future
    MaxMsgs          \* bound: messages that ever arrive

ASSUME ConstantsAssumption ==
    /\ QueueSize \in Nat \ {0} /\ MaxSessions \in Nat \ {0}
    /\ SessionTimeout \in Nat /\ StuckThreshold \in Nat
    /\ HardTimeout \in Nat /\ IdleTimeout \in Nat
    /\ MaxToolRounds \in Nat /\ MaxMsgs \in Nat
    /\ SwallowsCancel \in BOOLEAN

VARIABLES
    entry,      \* keys of SessionManager._sessions
    idle,       \* time since last_access of each entry
    queues,     \* _session_queues: session -> queue, None when absent
    tasks,      \* _session_tasks: session -> processor, None when absent
    buf,        \* content of each queue object
    pc,         \* where each processor is suspended
    msg,        \* message a processor works on, None when it works on none
    rounds,     \* tool_iterations of the message in progress
    wait,       \* time since the current wait_for of a processor began
    cancelled,  \* processors with an undelivered Task.cancel()
    toolThread, \* messages with a tool thread in the executor
    running,    \* FALSE once the main loop has been cancelled
    putTo,      \* queue the main loop waits on in put(), None when it does not
    arrived,    \* messages polled so far
    sid,        \* session of each message, hence of each processor
    fate        \* history: what became of each message

None == 0
Msgs == 1 .. MaxMsgs
NoSession == "no session"

registry  == <<entry, idle, queues, tasks>>
processor == <<pc, msg, rounds, wait>>
vars == <<registry, processor, buf, cancelled, toolThread, running, putTo,
          arrived, sid, fate>>

InProcess  == {"llm", "tool", "summary"}
Suspended  == {"starting", "get", "expiring", "pause"} \cup InProcess
Settled    == {"superseded", "ended", "lost"}

Live(w)     == pc[w] \in Suspended /\ w \notin cancelled
Contents(q) == {buf[q][i] : i \in DOMAIN buf[q]}

TypeOK ==
    /\ entry \in SUBSET Sessions
    /\ idle \in [Sessions -> Nat]
    /\ queues \in [Sessions -> Msgs \cup {None}]
    /\ tasks \in [Sessions -> Msgs \cup {None}]
    /\ buf \in [Msgs -> Seq(Msgs)]
    /\ pc \in [Msgs -> Suspended \cup {"unborn", "done"}]
    /\ msg \in [Msgs -> Msgs \cup {None}]
    /\ rounds \in [Msgs -> Nat]
    /\ wait \in [Msgs -> Nat]
    /\ cancelled \in SUBSET Msgs
    /\ toolThread \in SUBSET Msgs
    /\ running \in BOOLEAN
    /\ putTo \in Msgs \cup {None}
    /\ arrived \in 0 .. MaxMsgs
    /\ sid \in [Msgs -> Sessions \cup {NoSession}]
    /\ fate \in [Msgs -> Settled \cup {"unseen", "queued", "processing"}]

Init ==
    /\ entry = {}
    /\ idle = [s \in Sessions |-> 0]
    /\ queues = [s \in Sessions |-> None]
    /\ tasks = [s \in Sessions |-> None]
    /\ buf = [w \in Msgs |-> <<>>]
    /\ pc = [w \in Msgs |-> "unborn"]
    /\ msg = [w \in Msgs |-> None]
    /\ rounds = [w \in Msgs |-> 0]
    /\ wait = [w \in Msgs |-> 0]
    /\ cancelled = {}
    /\ toolThread = {}
    /\ running = TRUE
    /\ putTo = None
    /\ arrived = 0
    /\ sid = [n \in Msgs |-> NoSession]
    /\ fate = [n \in Msgs |-> "unseen"]

----------------------------------------------------------------------------
(* SessionManager *)

(* touch(): nothing happens to a session that has no entry *)
Touch(s) == idle' = [idle EXCEPT ![s] = 0]

(* _evict_lru() picks an entry with the oldest access, whatever its session *)
(* is doing; the clock's resolution may leave several                       *)
LeastRecentlyUsed == {v \in entry : \A u \in entry : idle[u] <= idle[v]}

GetOrCreate(s) ==
    \/ s \in entry /\ Touch(s) /\ UNCHANGED entry
    \/ /\ s \notin entry
       /\ Cardinality(entry) < MaxSessions
       /\ entry' = entry \cup {s}
       /\ Touch(s)
    \/ /\ s \notin entry
       /\ Cardinality(entry) >= MaxSessions
       /\ \E v \in LeastRecentlyUsed :
            /\ entry' = (entry \ {v}) \cup {s}
            /\ idle' = [idle EXCEPT ![s] = 0, ![v] = 0]

(* fault: the entry of an ended task is forgotten *)
RemoveNothing(S) == UNCHANGED <<entry, idle>>

Remove(S) ==
    /\ entry' = entry \ S
    /\ idle' = [s \in Sessions |-> IF s \in S THEN 0 ELSE idle[s]]

Expired == {s \in entry : idle[s] > IdleTimeout}

----------------------------------------------------------------------------
(* The main loop: dispatch, sweep, shutdown *)

Ready == running /\ putTo = None

(* _dispatch_to_session() for the next polled message.  Queue.put() does    *)
(* not suspend unless the queue is full, so a batch of one poll is a run of *)
(* these steps.  A processor whose idle timer has fired runs before the     *)
(* main loop polls again: at most one batch can reach its queue.            *)
Dispatch(s) ==
    LET n == arrived + 1
        new == queues[s] = None
        q == IF new THEN n ELSE queues[s]
    IN  /\ Ready
        /\ arrived < MaxMsgs
        /\ \A w \in Msgs : pc[w] = "expiring" => buf[w] = <<>>
        /\ arrived' = n
        /\ sid' = [sid EXCEPT ![n] = s]
        /\ fate' = [fate EXCEPT ![n] = "queued"]
        /\ IF new
           THEN /\ GetOrCreate(s)
                /\ queues' = [queues EXCEPT ![s] = n]
                /\ tasks' = [tasks EXCEPT ![s] = n]
                /\ pc' = [pc EXCEPT ![n] = "starting"]
           ELSE Touch(s) /\ UNCHANGED <<entry, queues, tasks, pc>>
        /\ IF Len(buf[q]) < QueueSize
           THEN buf' = [buf EXCEPT ![q] = Append(@, n)] /\ UNCHANGED putTo
           ELSE putTo' = q /\ UNCHANGED buf
        /\ UNCHANGED <<msg, rounds, wait, cancelled, toolThread, running>>

(* the suspended put() of the last message finds room *)
PutResumes ==
    /\ running /\ putTo # None
    /\ Len(buf[putTo]) < QueueSize
    /\ buf' = [buf EXCEPT ![putTo] = Append(@, arrived)]
    /\ putTo' = None
    /\ UNCHANGED <<registry, processor, cancelled, toolThread, running, arrived,
                   sid, fate>>

(* cleanup_expired() has just dropped the expired entries; *)
(* a task whose session has no entry goes                  *)
Orphans == {s \in Sessions : tasks[s] # None /\ (s \notin entry \/ s \in Expired)}

Stuck == {s \in Sessions :
            /\ tasks[s] # None /\ s \notin Orphans
            /\ pc[tasks[s]] # "done"
            /\ s \in entry /\ idle[s] > StuckThreshold}

(* fault: the task is unregistered, its queue stays *)
DropTasks(S) ==
    /\ UNCHANGED queues
    /\ tasks' = [s \in Sessions |-> IF s \in S THEN None ELSE tasks[s]]

Drop(S) ==
    /\ queues' = [s \in Sessions |-> IF s \in S THEN None ELSE queues[s]]
    /\ tasks' = [s \in Sessions |-> IF s \in S THEN None ELSE tasks[s]]

(* fault: tasks are unregistered but not cancelled *)
CancelNobody(S) == UNCHANGED cancelled

Cancel(S) ==
    cancelled' = cancelled \cup
        {w \in Msgs : pc[w] # "done" /\ \E s \in S : tasks[s] = w}

(* every 60 iterations: _cleanup_sessions(), then _kill_stuck_sessions() *)
Sweep ==
    /\ Ready
    /\ Remove(Expired \cup Stuck)
    /\ Drop(Orphans \cup Stuck)
    /\ Cancel(Orphans \cup Stuck)
    /\ UNCHANGED <<processor, buf, toolThread, running, putTo, arrived, sid, fate>>

(* the main loop is cancelled, at a suspended put() or anywhere else *)
Shutdown ==
    /\ running
    /\ running' = FALSE
    /\ Drop(Sessions)
    /\ Cancel(Sessions)
    /\ fate' = IF putTo = None THEN fate ELSE [fate EXCEPT ![arrived] = "lost"]
    /\ UNCHANGED <<entry, idle, processor, buf, toolThread, putTo, arrived, sid>>

----------------------------------------------------------------------------
(* _session_processor(), processor w *)

Goto(w, label) ==
    /\ pc' = [pc EXCEPT ![w] = label]
    /\ wait' = [wait EXCEPT ![w] = 0]

(* the message in progress is over, the processor goes to `label' *)
End(w, label) ==
    /\ Goto(w, label)
    /\ fate' = [fate EXCEPT ![msg[w]] = "ended"]
    /\ msg' = [msg EXCEPT ![w] = None]
    /\ rounds' = [rounds EXCEPT ![w] = 0]

Start(w) ==
    /\ pc[w] = "starting" /\ Live(w)
    /\ Goto(w, IF queues[sid[w]] = None THEN "done" ELSE "get")
    /\ UNCHANGED <<registry, msg, rounds, buf, cancelled, toolThread, running,
                   putTo, arrived, sid, fate>>

(* fault: the drain loop discards what it reads *)
Oldest(w) == buf[w][1]

Latest(w) == buf[w][Len(buf[w])]

(* queue.get() returns; the queue is drained to its latest message, the *)
(* others are dropped.  _process_message() refuses a sender outside     *)
(* ALLOWED_SENDERS before it touches the session.                       *)
Receive(w) ==
    LET n == Latest(w)
        Settle(how) ==
            fate' = [m \in Msgs |-> IF m = n THEN how
                                    ELSE IF m \in Contents(w) THEN "superseded"
                                    ELSE fate[m]]
    IN  /\ pc[w] = "get" /\ Live(w)
        /\ buf[w] # <<>>
        /\ buf' = [buf EXCEPT ![w] = <<>>]
        /\ \/ /\ Goto(w, "llm")
              /\ Settle("processing")
              /\ msg' = [msg EXCEPT ![w] = n]
              /\ GetOrCreate(sid[w])
           \/ /\ Goto(w, "get")
              /\ Settle("ended")
              /\ UNCHANGED <<entry, idle, msg>>
        /\ UNCHANGED <<queues, tasks, rounds, cancelled, toolThread, running,
                       putTo, arrived, sid>>

(* wait_for(queue.get(), session_timeout): the timer fires, and the task *)
(* is scheduled to run with TimeoutError.  A put() this queue made room  *)
(* for was scheduled when the wait began, long before the timer.         *)
IdleTimer(w) ==
    /\ pc[w] = "get" /\ Live(w)
    /\ buf[w] = <<>> /\ putTo # w
    /\ wait[w] >= SessionTimeout
    /\ Goto(w, "expiring")
    /\ UNCHANGED <<registry, msg, rounds, buf, cancelled, toolThread, running,
                   putTo, arrived, sid, fate>>

(* ... removes what is registered under its session and exits.  What *)
(* reached the queue in between is gone with it.                     *)
IdleExit(w) ==
    LET s == sid[w]
    IN  /\ pc[w] = "expiring" /\ Live(w)
        /\ Goto(w, "done")
        /\ Drop({s})
        /\ Remove({s})
        /\ fate' = [m \in Msgs |-> IF m \in Contents(w) THEN "lost" ELSE fate[m]]
        /\ buf' = [buf EXCEPT ![w] = <<>>]
        /\ UNCHANGED <<msg, rounds, cancelled, toolThread, running, putTo,
                       arrived, sid>>

(* CancelledError arrives at the suspension point, even an unstarted one *)
Cancelled(w) ==
    /\ w \in cancelled
    /\ Goto(w, "done")
    /\ fate' = [m \in Msgs |-> IF m = msg[w] THEN "ended"
                               ELSE IF m \in Contents(w) THEN "lost"
                               ELSE fate[m]]
    /\ msg' = [msg EXCEPT ![w] = None]
    /\ rounds' = [rounds EXCEPT ![w] = 0]
    /\ buf' = [buf EXCEPT ![w] = <<>>]
    /\ cancelled' = cancelled \ {w}
    /\ UNCHANGED <<registry, toolThread, running, putTo, arrived, sid>>

(* ... unless wait_for() swallows it: the inner queue.get() is complete *)
SwallowCancel(w) ==
    /\ SwallowsCancel
    /\ w \in cancelled
    /\ pc[w] = "get" /\ buf[w] # <<>>
    /\ cancelled' = cancelled \ {w}
    /\ UNCHANGED <<registry, processor, buf, toolThread, running, putTo,
                   arrived, sid, fate>>

----------------------------------------------------------------------------
(* _process_message(), run by processor w under the hard timeout *)

(* the preemption check looks the queue up in the registry *)
NewerQueued(w) ==
    LET q == queues[sid[w]] IN q # None /\ buf[q] # <<>>

(* a model answer with tool calls starts a round of tools in the executor *)
ToolRound(w) ==
    /\ pc[w] = "llm" /\ Live(w)
    /\ rounds[w] < MaxToolRounds
    /\ ~NewerQueued(w)
    /\ pc' = [pc EXCEPT ![w] = "tool"]
    /\ rounds' = [rounds EXCEPT ![w] = @ + 1]
    /\ toolThread' = toolThread \cup {msg[w]}
    /\ UNCHANGED <<registry, msg, wait, buf, cancelled, running, putTo, arrived,
                   sid, fate>>

ToolReturns(w) ==
    /\ pc[w] = "tool" /\ Live(w)
    /\ pc' = [pc EXCEPT ![w] = "llm"]
    /\ toolThread' = toolThread \ {msg[w]}
    /\ UNCHANGED <<registry, msg, rounds, wait, buf, cancelled, running, putTo,
                   arrived, sid, fate>>

(* tools ran, or were preempted, and the text is empty: ask once more *)
ForceSummary(w) ==
    /\ pc[w] = "llm" /\ Live(w)
    /\ rounds[w] > 0 \/ (MaxToolRounds > 0 /\ NewerQueued(w))
    /\ pc' = [pc EXCEPT ![w] = "summary"]
    /\ UNCHANGED <<registry, msg, rounds, wait, buf, cancelled, toolThread,
                   running, putTo, arrived, sid, fate>>

Reply(w) ==
    /\ pc[w] \in {"llm", "summary"} /\ Live(w)
    /\ End(w, "get")
    /\ Touch(sid[w])
    /\ UNCHANGED <<entry, queues, tasks, buf, cancelled, toolThread, running,
                   putTo, arrived, sid>>

(* Vigil blocks the message: an early return that touches nothing *)
Block(w) ==
    /\ pc[w] = "llm" /\ Live(w) /\ rounds[w] = 0
    /\ End(w, "get")
    /\ UNCHANGED <<registry, buf, cancelled, toolThread, running, putTo, arrived,
                   sid>>

(* any other exception: an error notice, then a pause of 0.1 s *)
Raise(w) ==
    /\ pc[w] \in {"llm", "summary"} /\ Live(w)
    /\ End(w, "pause")
    /\ UNCHANGED <<registry, buf, cancelled, toolThread, running, putTo, arrived,
                   sid>>

Resume(w) ==
    /\ pc[w] = "pause" /\ Live(w)
    /\ Goto(w, "get")
    /\ UNCHANGED <<registry, msg, rounds, buf, cancelled, toolThread, running,
                   putTo, arrived, sid, fate>>

(* wait_for(_process_message(), hard timeout): the coroutine is cancelled, *)
(* the thread that runs its tool is not                                    *)
ProcessTimeout(w) ==
    /\ pc[w] \in InProcess /\ Live(w)
    /\ wait[w] >= HardTimeout
    /\ End(w, "get")
    /\ UNCHANGED <<registry, buf, cancelled, toolThread, running, putTo, arrived,
                   sid>>

(* a tool thread whose message is over ends, and nobody reads its result *)
AbandonedToolEnds ==
    \E n \in toolThread :
        /\ \A w \in Msgs : msg[w] # n
        /\ toolThread' = toolThread \ {n}
        /\ UNCHANGED <<registry, processor, buf, cancelled, running, putTo,
                       arrived, sid, fate>>

(* clocks stop once every limit they are compared with is passed *)
Later(t, cap) == IF t < cap THEN t + 1 ELSE t
IdleCap == 1 + IF IdleTimeout > StuckThreshold THEN IdleTimeout ELSE StuckThreshold

Tick ==
    /\ idle' = [s \in Sessions |->
                  IF s \in entry THEN Later(idle[s], IdleCap)
                  ELSE idle[s]]
    /\ wait' = [w \in Msgs |->
                  IF pc[w] = "get" THEN Later(wait[w], SessionTimeout)
                  ELSE IF pc[w] \in InProcess THEN Later(wait[w], HardTimeout)
                  ELSE wait[w]]
    /\ UNCHANGED <<entry, queues, tasks, pc, msg, rounds, buf, cancelled,
                   toolThread, running, putTo, arrived, sid, fate>>

----------------------------------------------------------------------------
(* The tools of a round may hang for ever, so ToolReturns is not fair; every *)
(* LLM call ends within _llm_hard_timeout.                                   *)
ProcessorStep(w) ==
    \/ Start(w) \/ Receive(w) \/ IdleTimer(w) \/ IdleExit(w)
    \/ Cancelled(w) \/ SwallowCancel(w)
    \/ ToolRound(w) \/ ForceSummary(w) \/ Reply(w) \/ Block(w) \/ Raise(w)
    \/ Resume(w) \/ ProcessTimeout(w)

MainLoop == (\E s \in Sessions : Dispatch(s)) \/ PutResumes \/ Sweep \/ Shutdown

Next ==
    \/ MainLoop
    \/ \E w \in Msgs : ProcessorStep(w) \/ ToolReturns(w)
    \/ AbandonedToolEnds
    \/ Tick

Spec == Init /\ [][Next]_vars

(* The event loop runs every task that is ready and time goes on; nothing *)
(* obliges the channels to deliver messages nor anyone to stop the worker *)
FairSpec ==
    /\ Spec
    /\ WF_vars(PutResumes) /\ WF_vars(Tick)
    /\ \A w \in Msgs : WF_vars(ProcessorStep(w))

----------------------------------------------------------------------------
(* Messages within a session are processed serially: of the processors that *)
(* can still take a step for a session, at most one, and it is the one the  *)
(* registry names (the docstring of _session_processor).                    *)
SerialProcessing ==
    \A w \in Msgs : Live(w) => tasks[sid[w]] = w

(* A message put into a registered queue has a reader: the queue belongs to *)
(* the registered processor and that processor has not ended and is not     *)
(* about to be cancelled.                                                   *)
QueueHasReader ==
    \A s \in Sessions :
        /\ queues[s] = tasks[s]
        /\ queues[s] # None => Live(queues[s]) /\ sid[queues[s]] = s

(* SessionManager keeps no entry that nothing would ever remove: while the  *)
(* worker runs an entry stands for a registered task.                       *)
EntryHasTask == running => \A s \in entry : tasks[s] # None

(* max_sessions bounds the entries, whichever path creates them. *)
WithinCapacity == Cardinality(entry) <= MaxSessions

(* Draining to the latest message never turns a conversation around: a     *)
(* message starts only when every message of its session that was started  *)
(* before is older.                                                        *)
Begun(n) == fate[n] \notin {"unseen", "queued", "superseded", "lost"}
InOrder ==
    [][\A n, m \in Msgs :
         fate[n] = "queued" /\ fate'[n] = "processing" /\ sid[m] = sid[n] /\ Begun(m)
            => m < n]_vars

(* The session layer implements the service it offers: cancelled processors *)
(* have no place in it, so they must have no effect either.                 *)
Service == INSTANCE SessionService WITH
    accepted <- IF putTo = None THEN arrived ELSE arrived - 1,
    waiting <- [s \in Sessions |->
                  IF queues[s] = None THEN {} ELSE Contents(queues[s])],
    active <- [s \in Sessions |-> IF tasks[s] = None THEN None ELSE msg[tasks[s]]]

ImplementsService == Service!Spec

(* Every message that was dispatched is settled in the end: answered,      *)
(* refused, failed, superseded by a newer one, or dropped with its session.*)
(* Nothing is claimed where a swallowed cancellation has left a second     *)
(* processor alive: its exit unregisters its successor, which then finds   *)
(* no queue and ends with its message unread.                              *)
EverySettles ==
    []SerialProcessing =>
        \A n \in Msgs : fate[n] = "queued" ~> fate[n] \in Settled

============================================================================
