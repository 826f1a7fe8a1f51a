------------------------------ MODULE Workflow ------------------------------
(***************************************************************************)
(* The workflow engine (WorkflowExecutor in workflow.py): runs of one      *)
(* Workflow object.  A run executes its nodes in waves; a node that passed *)
(* adds its successors to the next wave, once for every path.  A PARALLEL  *)
(* node that is met between two waves is executed there and then, and the  *)
(* run goes on with the successors of those of its children that passed.   *)
(*                                                                         *)
(* The status of a node is kept in the node, so all runs of the object     *)
(* share it.  Runs interleave wherever a node waits; the model lets them   *)
(* interleave between any two nodes.  Verification never refuses a result: *)
(* the validator that _verify_node() needs cannot be imported.             *)
(***************************************************************************)
EXTENDS Naturals, SequencesExt

CONSTANTS
    Nodes,      \* node ids
    StartNode,  \* where a run starts
    Kind,       \* the type of a node
    NextNodes,  \* next_nodes
    Children,   \* config['nodes'] of a PARALLEL node, each named once
    Runs        \* calls of execute()

Kinds == {"start", "end", "llm", "code", "http", "parallel"}
None == "none"

ASSUME WorkflowAssumption ==
    /\ StartNode \in Nodes
    /\ Kind \in [Nodes -> Kinds]
    /\ NextNodes \in [Nodes -> Seq(Nodes)]
    /\ Children \in [Nodes -> Seq(Nodes)]
    /\ \A n \in Nodes : \A c \in ToSet(Children[n]) :
          Kind[n] = "parallel" /\ Kind[c] # "parallel"
    /\ None \notin Nodes

VARIABLES
    status,      \* NodeStatus of each node, shared by all runs
    run,         \* where each call of execute() is
    begun,       \* history: the nodes a run began to execute
    passed,      \* history: the nodes that passed in a run
    lostChild,   \* history: runs in which a child of a PARALLEL node failed
    overlapped,  \* history: a run began while another was under way
    cancelled    \* history: a run was cancelled

vars == <<status, run, begun, passed, lostChild, overlapped, cancelled>>

NewRun == [place |-> "new", wave |-> <<>>, next |-> <<>>, busy |-> None,
           kids |-> {}, open |-> {}, success |-> FALSE, error |-> FALSE]

Init ==
    /\ status = [n \in Nodes |-> "PENDING"]
    /\ run = [r \in Runs |-> NewRun]
    /\ begun = [r \in Runs |-> {}]
    /\ passed = [r \in Runs |-> {}]
    /\ lostChild = {}
    /\ overlapped = FALSE
    /\ cancelled = FALSE

UnderWay(r) == run[r].place \notin {"new", "done"}

IsEnd(n) == Kind[n] = "end"

Set(n, value) == status' = [status EXCEPT ![n] = value]

SetFailed(n) == Set(n, "FAILED")

----------------------------------------------------------------------------
Begin(r) ==
    /\ run[r].place = "new"
    /\ run' = [run EXCEPT ![r].place = "wave", ![r].wave = <<StartNode>>]
    /\ overlapped' = (overlapped \/ \E q \in Runs \ {r} : UnderWay(q))
    /\ UNCHANGED <<status, begun, passed, lostChild, cancelled>>

\* The first node of the wave, when none is being executed.
AtNode(r, n) ==
    /\ run[r].place = "wave" /\ run[r].busy = None
    /\ run[r].wave # <<>> /\ n = Head(run[r].wave)

\* A node of the wave is over and its successors are noted.
GoOn(r, n) ==
    run' = [run EXCEPT ![r].wave = Tail(@), ![r].next = @ \o NextNodes[n], ![r].busy = None]

Pass(r, n) ==
    /\ Set(n, "PASSED")
    /\ passed' = [passed EXCEPT ![r] = @ \cup {n}]

\* Fault: a run that has seen an END node keeps its success.
KeepSuccess(r) == run[r].success

SuccessAfterError(r) == FALSE

\* An exception ends the whole run.
Break(r, n) ==
    /\ SetFailed(n)
    /\ run' = [run EXCEPT ![r].place = "done", ![r].busy = None, ![r].error = TRUE,
                          ![r].success = SuccessAfterError(r)]
    /\ UNCHANGED passed

Note(r, n) == begun' = [begun EXCEPT ![r] = @ \cup {n}]

\* START and END nodes pass without being executed.
Skip(r, n) ==
    /\ AtNode(r, n) /\ Kind[n] \in {"start", "end"}
    /\ Pass(r, n)
    /\ GoOn(r, n)
    /\ Note(r, n)
    /\ UNCHANGED <<lostChild, overlapped, cancelled>>

\* A node that does not wait: the mock of an LLM call, and code in the sandbox,
\* which blocks the loop.  A condition is one that may fail too, if it cannot be
\* evaluated; whether it holds changes nothing.
Execute(r, n) ==
    /\ AtNode(r, n) /\ Kind[n] \in {"llm", "code"}
    /\ \/ Pass(r, n) /\ GoOn(r, n)
       \/ Kind[n] = "code" /\ Break(r, n)
    /\ Note(r, n)
    /\ UNCHANGED <<lostChild, overlapped, cancelled>>

SendRequest(r, n) ==
    /\ AtNode(r, n) /\ Kind[n] = "http"
    /\ Set(n, "RUNNING")
    /\ run' = [run EXCEPT ![r].busy = n]
    /\ Note(r, n)
    /\ UNCHANGED <<passed, lostChild, overlapped, cancelled>>

\* The response, an error, or the timeout of the request.
Respond(r, n) ==
    /\ run[r].place = "wave" /\ run[r].busy = n /\ Kind[n] = "http"
    /\ (Pass(r, n) /\ GoOn(r, n)) \/ Break(r, n)
    /\ UNCHANGED <<begun, lostChild, overlapped, cancelled>>

----------------------------------------------------------------------------
(* PARALLEL nodes *)

\* gather(), for a node of the wave or for one met between two waves.
Fork(r, n) ==
    /\ run[r].busy = None /\ Kind[n] = "parallel"
    /\ \/ run[r].place = "wave" /\ run[r].wave # <<>> /\ n = Head(run[r].wave)
       \/ run[r].place = "turn" /\ run[r].next # <<>> /\ n = Head(run[r].next)
    /\ Set(n, "RUNNING")
    /\ run' = [run EXCEPT ![r].busy = n, ![r].kids = ToSet(Children[n])]
    /\ Note(r, n)
    /\ UNCHANGED <<passed, lostChild, overlapped, cancelled>>

\* Fault: a child that is over is still counted as executing.
ChildStaysOpen(r, c) == run' = [run EXCEPT ![r].kids = @ \ {c}]

ChildOver(r, c) ==
    run' = [run EXCEPT ![r].kids = @ \ {c}, ![r].open = @ \ {c}]

\* Fault: gather() without return_exceptions.
ChildBreaks(r, c) ==
    run' = [run EXCEPT ![r].kids = @ \ {c}, ![r].open = @ \ {c},
                       ![r].place = "done", ![r].busy = None, ![r].error = TRUE]

\* Fault: only results are counted, not exceptions.
ChildIsLost(r, c) == run' = [run EXCEPT ![r].open = @ \ {c}]

ChildFailed(r, c) == ChildOver(r, c)

\* A START or END node has no executor.
MayPass(c) == Kind[c] \notin {"start", "end"}
MayFail(c) == Kind[c] # "llm"

EndChild(r, c) ==
    \/ /\ MayPass(c)
       /\ Pass(r, c)
       /\ ChildOver(r, c)
       /\ UNCHANGED lostChild
    \/ /\ MayFail(c)
       /\ SetFailed(c)
       /\ ChildFailed(r, c)
       /\ lostChild' = lostChild \cup {r}
       /\ UNCHANGED passed

ChildExecute(r, c) ==
    /\ c \in run[r].kids /\ Kind[c] # "http"
    /\ EndChild(r, c)
    /\ Note(r, c)
    /\ UNCHANGED <<overlapped, cancelled>>

ChildRequest(r, c) ==
    /\ c \in run[r].kids \ run[r].open /\ Kind[c] = "http"
    /\ Set(c, "RUNNING")
    /\ run' = [run EXCEPT ![r].open = @ \cup {c}]
    /\ Note(r, c)
    /\ UNCHANGED <<passed, lostChild, overlapped, cancelled>>

ChildRespond(r, c) ==
    /\ c \in run[r].open
    /\ EndChild(r, c)
    /\ UNCHANGED <<begun, overlapped, cancelled>>

\* Fault: the run goes on after every child.
AnyStatus(c) == TRUE

\* Asked of the node, so the answer may be that of another run.
HasPassed(c) == status[c] = "PASSED"

\* What the run goes on with after a PARALLEL node met between two waves: the
\* successors of each child that passed.  Those of the node itself are not used.
Arrivals(n) ==
    FlattenSeq([i \in DOMAIN Children[n] |->
        IF HasPassed(Children[n][i]) THEN NextNodes[Children[n][i]] ELSE <<>>])

Join(r, n) ==
    /\ run[r].busy = n /\ Kind[n] = "parallel" /\ run[r].kids = {}
    /\ Pass(r, n)
    /\ IF run[r].place = "wave"
         THEN GoOn(r, n)
         ELSE run' = [run EXCEPT ![r].next = Tail(@), ![r].busy = None,
                                 ![r].wave = @ \o Arrivals(n)]
    /\ UNCHANGED <<begun, lostChild, overlapped, cancelled>>

----------------------------------------------------------------------------
(* Between two waves *)

EndWave(r) ==
    /\ run[r].place = "wave" /\ run[r].wave = <<>>
    /\ run' = [run EXCEPT ![r].place = "turn"]
    /\ UNCHANGED <<status, begun, passed, lostChild, overlapped, cancelled>>

MoveOn(r) ==
    /\ run[r].place = "turn" /\ run[r].busy = None
    /\ run[r].next # <<>> /\ Kind[Head(run[r].next)] # "parallel"
    /\ run' = [run EXCEPT ![r].next = Tail(@), ![r].wave = Append(@, Head(run[r].next))]
    /\ UNCHANGED <<status, begun, passed, lostChild, overlapped, cancelled>>

NextWave(r) ==
    /\ run[r].place = "turn" /\ run[r].busy = None /\ run[r].next = <<>>
    /\ run' = [run EXCEPT ![r].place = IF run[r].wave = <<>> THEN "done" ELSE "wave",
                          ![r].success = @ \/ \E n \in ToSet(run[r].wave) : IsEnd(n)]
    /\ UNCHANGED <<status, begun, passed, lostChild, overlapped, cancelled>>

\* The caller gives up while a node waits and gets no result.  Nothing catches the
\* cancellation: the nodes keep their status.
Cancel(r) ==
    /\ run[r].busy # None
    /\ run' = [run EXCEPT ![r].place = "done", ![r].busy = None, ![r].kids = {},
                          ![r].open = {}, ![r].success = FALSE, ![r].error = TRUE]
    /\ cancelled' = TRUE
    /\ UNCHANGED <<status, begun, passed, lostChild, overlapped>>

----------------------------------------------------------------------------
NodeStep(r, n) ==
    \/ Skip(r, n) \/ Execute(r, n) \/ SendRequest(r, n) \/ Respond(r, n)
    \/ Fork(r, n) \/ Join(r, n)
    \/ ChildExecute(r, n) \/ ChildRequest(r, n) \/ ChildRespond(r, n)

Step(r) ==
    \/ \E n \in Nodes : NodeStep(r, n)
    \/ EndWave(r) \/ MoveOn(r) \/ NextWave(r)

Next == \E r \in Runs : Begin(r) \/ Step(r) \/ Cancel(r)

Spec == Init /\ [][Next]_vars

\* A request ends by its timeout, and the loop runs what is ready.
FairSpec == Spec /\ \A r \in Runs : WF_vars(Step(r))

----------------------------------------------------------------------------
(* Properties *)

\* Types; only the node in hand has children, and those still open are among them.
TypeOK ==
    /\ status \in [Nodes -> {"PENDING", "RUNNING", "PASSED", "FAILED"}]
    /\ run \in [Runs -> [place : {"new", "wave", "turn", "done"},
                         wave : Seq(Nodes), next : Seq(Nodes), busy : Nodes \cup {None},
                         kids : SUBSET Nodes, open : SUBSET Nodes,
                         success : BOOLEAN, error : BOOLEAN]]
    /\ \A r \in Runs : /\ run[r].open \subseteq run[r].kids
                       /\ run[r].kids # {} => run[r].busy # None
    /\ begun \in [Runs -> SUBSET Nodes] /\ passed \in [Runs -> SUBSET Nodes]
    /\ lostChild \subseteq Runs
    /\ overlapped \in BOOLEAN /\ cancelled \in BOOLEAN

\* A run executes a node only after one of its predecessors has passed in the same
\* run, or as a child of a PARALLEL node it executes.  Where two runs share the
\* nodes at a time, one may go on from a child that passed in the other only.
OnlyAfterPass ==
    overlapped \/ \A r \in Runs : \A n \in begun[r] :
        \/ n = StartNode
        \/ \E p \in passed[r] : n \in ToSet(NextNodes[p])
        \/ \E p \in begun[r] : n \in ToSet(Children[p])

\* From the start on some branch goes on until it comes to an END node, whether the
\* PARALLEL nodes on it are executed in a wave or between two waves.
OnTheWay(ns) ==
    /\ StartNode \in ns /\ ~IsEnd(StartNode)
    /\ \A n \in ns : ~IsEnd(n) =>
          /\ ToSet(NextNodes[n]) \cap ns # {}
          /\ Kind[n] = "parallel" =>
                \E c \in ToSet(Children[n]) : ToSet(NextNodes[c]) \cap ns # {}

LeadsToEnd == \E ns \in SUBSET Nodes : OnTheWay(ns)

\* The result says success or has an error, never both, and it says success only
\* when the run has come to an END node along nodes that passed.  Where the workflow
\* leads to an END node at all, a result with neither has lost a branch to a child
\* that failed, the only failure that leaves no trace in it.
HonestResult ==
    \A r \in Runs : run[r].place = "done" =>
        /\ ~(run[r].success /\ run[r].error)
        /\ run[r].success =>
              \/ overlapped
              \/ \E p \in passed[r] : \E n \in ToSet(NextNodes[p]) : IsEnd(n)
        /\ LeadsToEnd /\ ~run[r].success /\ ~run[r].error => r \in lostChild \/ overlapped

\* Nothing is left running: when a run is over, cancelled or not, no child of it is
\* still executing, and until a run is cancelled a node that says RUNNING is being
\* executed.
NoneLeftRunning ==
    /\ \A r \in Runs : ~UnderWay(r) => run[r].open = {}
    /\ cancelled \/ \A n \in Nodes : status[n] = "RUNNING" =>
          \E r \in Runs : UnderWay(r) /\ (run[r].busy = n \/ n \in run[r].open)

\* A run of an acyclic workflow comes to an end.
EveryRunEnds == \A r \in Runs : UnderWay(r) ~> run[r].place = "done"

=============================================================================
