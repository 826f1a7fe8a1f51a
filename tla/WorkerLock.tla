----------------------------- MODULE WorkerLock -----------------------------
(***************************************************************************)
(* The PID lock of the worker (async_main() in unified_worker.py): a file  *)
(* in /tmp that a starting process reads, judges and then writes, each in  *)
(* a step of its own, and that a stopping process removes without looking  *)
(* whose it is.  A process is known by its PID, so a process that starts   *)
(* after another has died may get the PID of the dead one.                 *)
(***************************************************************************)

CONSTANT Procs    \* PIDs

VARIABLES
    pidFile,   \* what the file holds: a PID, or None when there is none
    proc,      \* what each PID is: no process, one past the check, or a worker
    raced      \* history: two starting processes were past the check at a time

lockVars == <<pidFile, proc, raced>>

None == "none"
ASSUME NoneIsNoProcess == None \notin Procs

LockInit ==
    /\ pidFile = None
    /\ proc = [p \in Procs |-> "off"]
    /\ raced = FALSE

Up == {p \in Procs : proc[p] = "up"}

\* Fault: any file is taken for stale.
AlwaysStale(p) == TRUE

\* No file, or one whose PID has no entry in /proc; a starter's own PID has one.
Stale(p) == pidFile \notin {p} \cup {q \in Procs : proc[q] # "off"}

\* The file is read and judged; a process that finds a live PID gives up.
Check(p) ==
    /\ proc[p] = "off"
    /\ Stale(p)
    /\ proc' = [proc EXCEPT ![p] = "checked"]
    /\ raced' = (raced \/ \E q \in Procs : proc[q] = "checked")
    /\ UNCHANGED pidFile

WritePid(p) == pidFile' = p

Take(p) ==
    /\ proc[p] = "checked"
    /\ WritePid(p)
    /\ proc' = [proc EXCEPT ![p] = "up"]
    /\ UNCHANGED raced

\* The finally clause: the file goes, whoever wrote it.
Leave(p) ==
    /\ proc[p] = "up"
    /\ pidFile' = None
    /\ proc' = [proc EXCEPT ![p] = "off"]
    /\ UNCHANGED raced

\* The process is killed; before the try statement a signal has the same effect.
Die(p) ==
    /\ proc[p] # "off"
    /\ proc' = [proc EXCEPT ![p] = "off"]
    /\ UNCHANGED <<pidFile, raced>>

LockNext == \E p \in Procs : Check(p) \/ Take(p) \/ Leave(p) \/ Die(p)

----------------------------------------------------------------------------
LockTypeOK ==
    /\ pidFile \in Procs \cup {None}
    /\ proc \in [Procs -> {"off", "checked", "up"}]
    /\ raced \in BOOLEAN

\* Whatever dies or stops when, there are never two workers, unless two of them
\* were once between reading the file and writing it at the same time.
LoneWorker == raced \/ \A p, q \in Up : p = q

=============================================================================
