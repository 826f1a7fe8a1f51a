----------------------- MODULE SustainedTasksProofs -----------------------
(* What WorkerLock and SustainedTasks promise for any number of processes,   *)
(* callers, tasks and retries.                                               *)
EXTENDS SustainedTasks, TLAPS

-----------------------------------------------------------------------------
(* The PID lock.  Before two starting processes have met between reading and *)
(* writing the file, at most one process is past the check, and the file     *)
(* names it once it serves.                                                  *)

On == {p \in Procs : proc[p] # "off"}

LockInv ==
    /\ LockTypeOK
    /\ raced \/ \A p, q \in On : p = q
    /\ raced \/ \A p \in Up : pidFile = p

LEMMA LockInitially == LockInit => LockInv
BY DEF LockInit, LockInv, LockTypeOK, On, Up

LEMMA LockStep ==
  ASSUME LockInv, NEW p \in Procs, Check(p) \/ Take(p) \/ Leave(p) \/ Die(p)
  PROVE  LockInv' /\ (raced => raced')
<1>1. LockTypeOK
  BY DEF LockInv
<1>2. CASE Check(p)
  <2>1. LockTypeOK' /\ (raced => raced')
    BY <1>1, <1>2 DEF Check, LockTypeOK
  <2>2. ASSUME ~raced' PROVE On = {}
    <3>1. ~raced /\ \A q \in Procs : proc[q] # "checked"
      BY <1>2, <2>2 DEF Check
    <3>2. ASSUME NEW q \in On PROVE FALSE
      <4>1. q \in Up
        BY <1>1, <3>1, <3>2 DEF On, Up, LockTypeOK
      <4>2. pidFile = q
        BY <3>1, <4>1 DEF LockInv
      <4>. QED  BY <1>2, <3>2, <4>2 DEF Check, Stale, On
    <3>. QED  BY <3>2
  <2>3. proc' = [proc EXCEPT ![p] = "checked"]
    BY <1>2 DEF Check
  <2>4. ASSUME ~raced' PROVE On' = {p} /\ Up' = {}
    BY <1>1, <2>2, <2>3, <2>4 DEF LockTypeOK, On, Up
  <2>. QED  BY <2>1, <2>4 DEF LockInv
<1>3. CASE Take(p)
  <2>1. LockTypeOK' /\ raced' = raced
    BY <1>1, <1>3 DEF Take, WritePid, LockTypeOK
  <2>2. On' = On /\ p \in On /\ pidFile' = p /\ Up' \subseteq On
    BY <1>1, <1>3 DEF Take, WritePid, LockTypeOK, On, Up
  <2>. QED  BY <2>1, <2>2 DEF LockInv
<1>4. CASE Leave(p) \/ Die(p)
  <2>1. LockTypeOK' /\ raced' = raced
    BY <1>1, <1>4 DEF Leave, Die, LockTypeOK
  <2>2. On' = On \ {p} /\ Up' = Up \ {p} /\ p \in On
    BY <1>1, <1>4 DEF Leave, Die, LockTypeOK, On, Up
  <2>3. ASSUME ~raced PROVE On' = {} /\ Up' = {}
    BY <2>2, <2>3 DEF LockInv, On, Up
  <2>. QED  BY <2>1, <2>3 DEF LockInv
<1>. QED  BY <1>2, <1>3, <1>4

-----------------------------------------------------------------------------
(* Callers and the locks of tasks.                                           *)

Waits(p, c, t) == call[p][c].at = "backoff" /\ call[p][c].task = t
Returned(p, c, t) == call[p][c].at = "returned" /\ call[p][c].task = t

\* Only a process that serves has callers at work.
OnlyServing == \A p \in Procs \ serving : \A c \in Callers : call[p][c] = Idle

\* A lock has one holder in its process.
Mutex == \A p \in Procs, t \in Tasks : \A c, d \in Callers :
            HasLock(p, c, t) /\ HasLock(p, d, t) => c = d

Known(t) ==
    /\ \A p \in Procs, c \in Callers : Executes(p, c, t) => row[t].state = "RUNNING"
    /\ \A p \in Procs, c \in Callers : Waits(p, c, t) => row[t].state = "RETRYING"

Cared(t) ==
    serving # {} /\ t \notin stranded =>
        /\ row[t].state = "RUNNING" => \E p \in serving, c \in Callers : Executes(p, c, t)
        /\ row[t].state = "RETRYING" => \E p \in serving, c \in Callers : Waits(p, c, t)

Once(t) ==
    \/ ends[t] = 0
    \/ t \in lost
    \/ /\ ends[t] = 1
       /\ \/ row[t].state \in {"COMPLETED", "deleted"}
          \/ \E p \in Procs, c \in Callers : Returned(p, c, t)

TaskInv(t) == Known(t) /\ Cared(t) /\ Once(t)

IInv ==
    /\ TypeOK /\ LockInv /\ OnlyServing /\ Mutex /\ WithinBudget
    /\ raced \/ \A t \in Tasks : TaskInv(t)

Busy == [at : {"waiting"} \cup Holds, task : Tasks, op : {"run", "cancel"}]

LEMMA CallKinds ==
  ASSUME TypeOK, NEW p \in Procs, NEW c \in Callers
  PROVE  /\ call[p][c] = Idle \/ call[p][c] \in Busy
         /\ Idle.at = "idle" /\ Idle \notin Busy
         /\ call[p][c].at # "idle" => call[p][c] \in Busy
<1>1. call[p][c] \in {Idle} \cup Busy
  BY DEF TypeOK, Busy
<1>2. Idle.at = "idle"
  BY DEF Idle
<1>3. ASSUME NEW b \in Busy PROVE b.at # "idle"
  BY <1>3 DEF Busy, Holds
<1>. QED  BY <1>1, <1>2, <1>3

(* While there was no race, a task has one lock in all.                      *)
LEMMA OneServer ==
  ASSUME IInv, ~raced, NEW p \in Procs, proc[p] # "off"
  PROVE  serving \subseteq {p} /\ \A q \in Procs \ {p} : \A c \in Callers : call[q][c] = Idle
<1>1. serving \subseteq Up /\ Up \subseteq On /\ p \in On
  BY DEF IInv, TypeOK, Up, On
<1>2. serving \subseteq {p}
  BY <1>1 DEF IInv, LockInv
<1>. QED  BY <1>2 DEF IInv, OnlyServing

LEMMA ServerIsOn ==
  ASSUME IInv, NEW p \in serving
  PROVE  p \in Procs /\ proc[p] = "up"
BY DEF IInv, TypeOK, Up

LEMMA CallerServes ==
  ASSUME IInv, NEW p \in Procs, NEW c \in Callers, call[p][c].at # "idle"
  PROVE  p \in serving
BY CallKinds DEF IInv, OnlyServing

LEMMA Unique ==
  ASSUME IInv, ~raced, NEW t \in Tasks, NEW p \in serving,
         NEW q \in Procs, NEW d \in Callers, HasLock(q, d, t)
  PROVE  q = p /\ ~LockFree(p, t) /\ \A c \in Callers : HasLock(p, c, t) => c = d
<1>1. q = p
  BY OneServer, ServerIsOn, CallKinds DEF HasLock, Holds, IInv
<1>. QED  BY <1>1 DEF IInv, Mutex, LockFree

-----------------------------------------------------------------------------
(* A step of a caller that is busy with task u.                              *)

Moves(p, c, u, x) ==
    /\ call[p][c] \in Busy /\ call[p][c].task = u
    /\ call' = [call EXCEPT ![p][c] = x]
    /\ x = Idle \/ (x \in Busy /\ x.task = u)
    /\ x.at \in Holds => call[p][c].at \in Holds \/ LockFree(p, u)
    /\ \A t \in Tasks \ {u} :
          /\ row'[t] = row[t] /\ ends'[t] = ends[t]
          /\ t \in lost' <=> t \in lost
          /\ t \in stranded' <=> t \in stranded
    /\ UNCHANGED <<lockVars, serving>>

LEMMA CallAt ==
  ASSUME TypeOK, NEW p \in Procs, NEW c \in Callers, NEW x,
         call' = [call EXCEPT ![p][c] = x]
  PROVE  /\ call'[p][c] = x
         /\ \A q \in Procs, d \in Callers : q # p \/ d # c => call'[q][d] = call[q][d]
         /\ x \in {Idle} \cup Busy => call' \in [Procs -> [Callers -> {Idle} \cup Busy]]
BY DEF TypeOK, Busy

LEMMA SameTask ==
  ASSUME NEW t \in Tasks, TaskInv(t),
         row'[t] = row[t], ends'[t] = ends[t],
         t \in lost' <=> t \in lost, t \in stranded' <=> t \in stranded,
         serving' = serving,
         \A q \in Procs, d \in Callers :
            /\ Executes(q, d, t)' <=> Executes(q, d, t)
            /\ Waits(q, d, t)' <=> Waits(q, d, t)
            /\ Returned(q, d, t)' <=> Returned(q, d, t),
         serving \subseteq Procs
  PROVE  TaskInv(t)'
<1>1. Known(t)'
  BY DEF TaskInv, Known
<1>2. Cared(t)'
  BY DEF TaskInv, Cared
<1>3. Once(t)'
  BY DEF TaskInv, Once
<1>. QED  BY <1>1, <1>2, <1>3 DEF TaskInv

LEMMA Moving ==
  ASSUME IInv, NEW p \in Procs, NEW c \in Callers, NEW u \in Tasks, NEW x,
         Moves(p, c, u, x)
  PROVE  /\ p \in serving /\ OnlyServing' /\ Mutex'
         /\ ~raced => \A t \in Tasks \ {u} : TaskInv(t)'
<1>1. TypeOK /\ p \in serving
  BY CallerServes, CallKinds DEF IInv, Moves, Busy, Holds
<1>2. /\ call'[p][c] = x
      /\ \A q \in Procs, d \in Callers : q # p \/ d # c => call'[q][d] = call[q][d]
  BY <1>1, CallAt DEF Moves
<1>3. OnlyServing'
  BY <1>1, <1>2 DEF IInv, OnlyServing, Moves
<1>4. ASSUME NEW t \in Tasks \ {u}, NEW q \in Procs, NEW d \in Callers
      PROVE  /\ Executes(q, d, t)' <=> Executes(q, d, t)
             /\ Waits(q, d, t)' <=> Waits(q, d, t)
             /\ Returned(q, d, t)' <=> Returned(q, d, t)
             /\ HasLock(q, d, t)' <=> HasLock(q, d, t)
  <2>1. CASE q # p \/ d # c
    BY <1>2, <2>1 DEF Executes, Waits, Returned, HasLock
  <2>2. CASE q = p /\ d = c
    <3>1. x.at = "idle" \/ x.task = u
      BY DEF Moves, Idle
    <3>. QED  BY <1>2, <1>4, <2>2, <3>1 DEF Executes, Waits, Returned, HasLock, Holds, Moves
  <2>. QED  BY <2>1, <2>2
<1>5. Mutex'
  <2>. SUFFICES ASSUME NEW q \in Procs, NEW t \in Tasks, NEW d \in Callers, NEW e \in Callers,
                       HasLock(q, d, t)', HasLock(q, e, t)'
                PROVE  d = e
    BY DEF Mutex
  <2>1. CASE t # u
    BY <1>4, <2>1 DEF IInv, Mutex
  <2>2. CASE t = u /\ q # p
    BY <1>2, <2>2 DEF IInv, Mutex, HasLock
  <2>3. CASE t = u /\ q = p
    <3>1. ASSUME NEW f \in Callers, f # c, HasLock(p, f, u)' PROVE HasLock(p, f, u)
      BY <1>2, <3>1 DEF HasLock
    <3>2. HasLock(p, c, u)' => HasLock(p, c, u) \/ LockFree(p, u)
      BY <1>2 DEF HasLock, Moves
    <3>. QED  BY <2>3, <3>1, <3>2 DEF IInv, Mutex, LockFree
  <2>. QED  BY <2>1, <2>2, <2>3
<1>6. ASSUME ~raced, NEW t \in Tasks \ {u} PROVE TaskInv(t)'
  <2>1. TaskInv(t) /\ serving \subseteq Procs
    BY <1>1, <1>6 DEF IInv, TypeOK, Up
  <2>2. /\ row'[t] = row[t] /\ ends'[t] = ends[t] /\ serving' = serving
        /\ t \in lost' <=> t \in lost
        /\ t \in stranded' <=> t \in stranded
    BY DEF Moves
  <2>. QED  BY <1>4, <2>1, <2>2, SameTask
<1>. QED  BY <1>1, <1>3, <1>5, <1>6

LEMMA Moved ==
  ASSUME IInv, NEW p \in Procs, NEW c \in Callers, NEW u \in Tasks, NEW x,
         Moves(p, c, u, x), calls' \in 0..MaxCalls,
         row' \in [Tasks -> [state : States, retries : Nat]], ends' \in [Tasks -> Nat],
         lost' \subseteq Tasks, stranded' \subseteq Tasks,
         row'[u].state = "RETRYING" => row'[u].retries \in 1..(Budget(u) - 1),
         ~raced => TaskInv(u)'
  PROVE  IInv'
<1>1. TypeOK /\ x \in {Idle} \cup Busy /\ UNCHANGED <<lockVars, serving>>
  BY DEF IInv, Moves
<1>2. TypeOK'
  <2>1. call' \in [Procs -> [Callers -> {Idle} \cup Busy]]
    BY <1>1, CallAt DEF Moves
  <2>. QED  BY <1>1, <2>1 DEF TypeOK, lockVars, LockTypeOK, Up, Busy
<1>3. LockInv'
  BY <1>1 DEF IInv, LockInv, lockVars, LockTypeOK, Up, On
<1>4. WithinBudget'
  <2>1. \A t \in Tasks \ {u} : row'[t] = row[t]
    BY DEF Moves
  <2>. QED  BY <2>1 DEF IInv, WithinBudget, Budget
<1>5. OnlyServing' /\ Mutex' /\ (~raced => \A t \in Tasks \ {u} : TaskInv(t)')
  BY Moving
<1>6. raced' = raced
  BY <1>1 DEF lockVars
<1>7. raced' \/ \A t \in Tasks : TaskInv(t)'
  BY <1>5, <1>6
<1>. QED  BY <1>2, <1>3, <1>4, <1>5, <1>7 DEF IInv

(* What a step of (p, c) leaves in the task it is busy with.                 *)
LEMMA HolderAlone ==
  ASSUME IInv, ~raced, NEW p \in Procs, NEW c \in Callers, NEW u \in Tasks, NEW x,
         Moves(p, c, u, x), call[p][c].at \in Holds \/ LockFree(p, u),
         NEW q \in Procs, NEW d \in Callers, q # p \/ d # c
  PROVE  ~HasLock(q, d, u) /\ ~HasLock(q, d, u)'
<1>1. p \in serving /\ TypeOK
  BY Moving DEF IInv
<1>2. ~HasLock(q, d, u)
  <2>1. SUFFICES ASSUME HasLock(q, d, u) PROVE FALSE
    OBVIOUS
  <2>2. q = p /\ ~LockFree(p, u) /\ \A e \in Callers : HasLock(p, e, u) => e = d
    BY <1>1, <2>1, Unique
  <2>. QED  BY <2>2 DEF HasLock, Moves
<1>3. call'[q][d] = call[q][d]
  BY <1>1, CallAt DEF Moves
<1>. QED  BY <1>2, <1>3 DEF HasLock

LEMMA OwnTask ==
  ASSUME IInv, ~raced, NEW p \in Procs, NEW c \in Callers, NEW u \in Tasks, NEW x,
         Moves(p, c, u, x), call[p][c].at \in Holds \/ LockFree(p, u),
         x.at \in {"running", "returned"} => row'[u].state = "RUNNING",
         x.at = "backoff" => row'[u].state = "RETRYING",
         x.at \notin Holds => row'[u].state \notin {"RUNNING", "RETRYING"} \/ u \in stranded',
         \/ ends'[u] = 0 \/ u \in lost'
         \/ ends'[u] = 1 /\ (row'[u].state \in {"COMPLETED", "deleted"} \/ x.at = "returned")
  PROVE  TaskInv(u)'
<1>1. p \in serving /\ serving' = serving /\ call'[p][c] = x
  BY Moving, CallAt DEF IInv, Moves
<1>2. x.at \in Holds => x.task = u
  BY DEF Moves, Idle, Holds
<1>3. ASSUME NEW q \in Procs, NEW d \in Callers, HasLock(q, d, u)'
      PROVE  q = p /\ d = c
  BY <1>3, HolderAlone
<1>4. Known(u)'
  BY <1>1, <1>3 DEF Known, Executes, Waits, HasLock, Holds
<1>5. Cared(u)'
  BY <1>1, <1>2 DEF Cared, Executes, Waits, Holds
<1>6. Once(u)'
  BY <1>1, <1>2 DEF Once, Returned, Holds
<1>. QED  BY <1>4, <1>5, <1>6 DEF TaskInv

(* What is known of the task before.                                         *)
LEMMA Before ==
  ASSUME IInv, ~raced, NEW p \in serving, NEW c \in Callers, NEW u \in Tasks,
         call[p][c] \in Busy, call[p][c].task = u,
         call[p][c].at \in Holds \/ LockFree(p, u)
  PROVE  /\ call[p][c].at \in {"running", "returned"} => row[u].state = "RUNNING"
         /\ call[p][c].at = "backoff" => row[u].state = "RETRYING"
         /\ call[p][c].at \notin Holds =>
               row[u].state \notin {"RUNNING", "RETRYING"} \/ u \in stranded
         /\ \/ ends[u] = 0 \/ u \in lost
            \/ /\ ends[u] = 1
               /\ row[u].state \in {"COMPLETED", "deleted"} \/ call[p][c].at = "returned"
<1>1. TaskInv(u) /\ p \in Procs
  BY ServerIsOn DEF IInv
<1>2. ASSUME NEW q \in Procs, NEW d \in Callers, HasLock(q, d, u)
      PROVE  q = p /\ d = c
  <2>1. q = p /\ ~LockFree(p, u) /\ \A e \in Callers : HasLock(p, e, u) => e = d
    BY <1>2, Unique
  <2>. QED  BY <2>1 DEF HasLock
<1>3. serving \subseteq Procs
  BY ServerIsOn
<1>4. /\ call[p][c].at \in {"running", "returned"} => row[u].state = "RUNNING"
      /\ call[p][c].at = "backoff" => row[u].state = "RETRYING"
  BY <1>1 DEF TaskInv, Known, Executes, Waits
<1>5. ASSUME call[p][c].at \notin Holds, u \notin stranded
      PROVE  row[u].state \notin {"RUNNING", "RETRYING"}
  BY <1>1, <1>2, <1>3, <1>5 DEF TaskInv, Cared, Executes, Waits, HasLock, Holds
<1>6. \/ ends[u] = 0 \/ u \in lost
      \/ /\ ends[u] = 1
         /\ row[u].state \in {"COMPLETED", "deleted"} \/ call[p][c].at = "returned"
  BY <1>1, <1>2 DEF TaskInv, Once, Returned, HasLock, Holds
<1>. QED  BY <1>4, <1>5, <1>6

LEMMA Setting ==
  ASSUME TypeOK, NEW t \in Tasks, NEW state \in States, SetState(t, state)
  PROVE  /\ row' \in [Tasks -> [state : States, retries : Nat]]
         /\ row'[t].state = IF row[t].state = "deleted" THEN "deleted" ELSE state
         /\ row'[t].retries = row[t].retries
         /\ \A u \in Tasks \ {t} : row'[u] = row[u]
<1> DEFINE s == IF row[t].state = "deleted" THEN "deleted" ELSE state
           r == [row[t] EXCEPT !.state = s]
<1>1. s \in States
  BY DEF States
<1>2. row[t] \in [state : States, retries : Nat]
  BY DEF TypeOK
<1>3. r \in [state : States, retries : Nat] /\ r.state = s /\ r.retries = row[t].retries
  BY <1>1, <1>2
<1>4. row' = [row EXCEPT ![t] = r]
  BY <1>2 DEF SetState, TypeOK
<1> HIDE DEF r
<1>. QED  BY <1>3, <1>4 DEF TypeOK

-----------------------------------------------------------------------------
(* The steps of run_task() and cancel_task().                                *)

\* A completed task stays so.
Keeps == \A t \in Tasks : ~raced /\ row[t].state = "COMPLETED" =>
            row'[t].state \in {"COMPLETED", "deleted"}

LEMMA KeepsElsewhere ==
  ASSUME NEW u \in Tasks, \A t \in Tasks \ {u} : row'[t] = row[t],
         ~raced /\ row[u].state = "COMPLETED" => row'[u].state \in {"COMPLETED", "deleted"}
  PROVE  Keeps
BY DEF Keeps

LEMMA BusyCall ==
  ASSUME IInv, NEW p \in Procs, NEW c \in Callers, call[p][c].at # "idle"
  PROVE  /\ TypeOK /\ p \in serving /\ call[p][c] \in Busy /\ call[p][c].task \in Tasks
         /\ Idle.at \notin Holds /\ Idle.at = "idle"
         /\ \A place \in {"waiting"} \cup Holds :
              LET x == [call[p][c] EXCEPT !.at = place]
              IN  x \in Busy /\ x.at = place /\ x.task = call[p][c].task
<1>1. TypeOK /\ call[p][c] \in Busy
  BY CallKinds DEF IInv
<1>. QED  BY <1>1, CallerServes DEF Busy, Holds, Idle

LEMMA SucceedSound ==
  ASSUME IInv, NEW p \in Procs, NEW c \in Callers, Succeed(p, c)
  PROVE  IInv' /\ Keeps
<1>1. call[p][c].at = "running" /\ "running" \in Holds /\ "returned" \in Holds
  BY DEF Succeed, Holds
<1>2. PICK u \in Tasks : u = call[p][c].task
  BY <1>1, BusyCall
<1> DEFINE x == [call[p][c] EXCEPT !.at = "returned"]
<1>3. /\ TypeOK /\ p \in serving /\ call[p][c] \in Busy
      /\ x \in Busy /\ x.at = "returned" /\ x.task = u
  BY <1>1, <1>2, BusyCall
<1>4. /\ call' = [call EXCEPT ![p][c] = x]
      /\ ends' = [ends EXCEPT ![u] = @ + 1]
      /\ UNCHANGED <<lockVars, row, serving, calls, lost, stranded>>
  BY <1>2, <1>3 DEF Succeed, Goto, TypeOK
<1> HIDE DEF x
<1>5. /\ ends' \in [Tasks -> Nat] /\ ends'[u] = ends[u] + 1 /\ ends[u] \in Nat
      /\ \A t \in Tasks \ {u} : ends'[t] = ends[t]
  BY <1>3, <1>4 DEF TypeOK
<1>6. Moves(p, c, u, x)
  BY <1>1, <1>2, <1>3, <1>4, <1>5 DEF Moves
<1>7. ASSUME ~raced PROVE TaskInv(u)'
  <2>1. /\ row[u].state = "RUNNING"
        /\ ends[u] = 0 \/ u \in lost
    BY <1>1, <1>2, <1>3, <1>7, Before
  <2>2. /\ row'[u].state = "RUNNING"
        /\ ends'[u] = 1 \/ u \in lost'
    BY <1>4, <1>5, <2>1
  <2>. QED  BY <1>1, <1>3, <1>6, <1>7, <2>2, OwnTask
<1>8. row'[u].state = "RETRYING" => row'[u].retries \in 1..(Budget(u) - 1)
  BY <1>4 DEF IInv, WithinBudget
<1>9. IInv'
  BY <1>3, <1>4, <1>5, <1>6, <1>7, <1>8, Moved DEF TypeOK
<1>. QED  BY <1>4, <1>9 DEF Keeps

(* A call that returns: the rows of the others are left alone.               *)
LEMMA Returning ==
  ASSUME IInv, NEW p \in Procs, NEW c \in Callers, call[p][c].at # "idle",
         NEW u \in Tasks, u = call[p][c].task,
         call[p][c].at \in Holds \/ LockFree(p, u),
         Return(p, c), UNCHANGED <<lockVars, serving, calls, ends>>,
         row' \in [Tasks -> [state : States, retries : Nat]],
         \A t \in Tasks \ {u} : row'[t] = row[t],
         row'[u].state # "RETRYING" \/ row' = row,
         lost' \in {lost, lost \cup {u}},
         stranded' \in {stranded, stranded \cup {u}},
         ~raced =>
           /\ row'[u].state \notin {"RUNNING", "RETRYING"} \/ u \in stranded'
           /\ row[u].state = "COMPLETED" => row'[u].state \in {"COMPLETED", "deleted"}
           /\ row[u].state = "deleted" => row'[u].state = "deleted"
           /\ call[p][c].at = "returned" =>
                 row'[u].state \in {"COMPLETED", "deleted"} \/ u \in lost'
  PROVE  IInv' /\ Keeps
<1>1. /\ TypeOK /\ p \in serving /\ call[p][c] \in Busy
      /\ Idle.at \notin Holds
  BY BusyCall
<1>2. /\ lost' \subseteq Tasks /\ stranded' \subseteq Tasks
      /\ \A t \in Tasks \ {u} : /\ t \in lost' <=> t \in lost
                              /\ t \in stranded' <=> t \in stranded
      /\ lost \subseteq lost'
  BY <1>1 DEF TypeOK
<1>3. Moves(p, c, u, Idle)
  BY <1>1, <1>2 DEF Moves, Return
<1>4. ASSUME ~raced PROVE TaskInv(u)'
  <2>1. \/ ends[u] = 0 \/ u \in lost
        \/ /\ ends[u] = 1
           /\ row[u].state \in {"COMPLETED", "deleted"} \/ call[p][c].at = "returned"
    BY <1>1, <1>4, Before
  <2>2. \/ ends'[u] = 0 \/ u \in lost'
        \/ ends'[u] = 1 /\ row'[u].state \in {"COMPLETED", "deleted"}
    BY <1>2, <1>4, <2>1
  <2>3. Idle.at \notin {"running", "returned"} /\ Idle.at # "backoff"
    BY DEF Idle
  <2>. QED  BY <1>1, <1>3, <1>4, <2>2, <2>3, OwnTask
<1>5. row'[u].state = "RETRYING" => row'[u].retries \in 1..(Budget(u) - 1)
  BY <1>1 DEF IInv, WithinBudget
<1>6. IInv'
  BY <1>1, <1>2, <1>3, <1>4, <1>5, Moved DEF TypeOK
<1>7. row[u].state = "COMPLETED" /\ ~raced => row'[u].state \in {"COMPLETED", "deleted"}
  OBVIOUS
<1>. QED  BY <1>6, <1>7, KeepsElsewhere

LEMMA StoreSound ==
  ASSUME IInv, NEW p \in Procs, NEW c \in Callers, Store(p, c) \/ CannotStore(p, c)
  PROVE  IInv' /\ Keeps
<1>1. call[p][c].at = "returned" /\ "returned" \in Holds
  BY DEF Store, CannotStore, Holds
<1>2. PICK u \in Tasks : u = call[p][c].task
  BY <1>1, BusyCall
<1>3. TypeOK /\ p \in serving /\ call[p][c] \in Busy
  BY <1>1, BusyCall
<1>4. ~raced => row[u].state = "RUNNING"
  BY <1>1, <1>2, <1>3, Before
<1>5. CASE Store(p, c)
  <2>1. /\ Return(p, c) /\ SetState(u, "COMPLETED")
        /\ UNCHANGED <<lockVars, serving, calls, ends, lost, stranded>>
    BY <1>2, <1>5 DEF Store
  <2>2. "COMPLETED" \in States
    BY DEF States
  <2>3. /\ row' \in [Tasks -> [state : States, retries : Nat]]
        /\ row'[u].state = IF row[u].state = "deleted" THEN "deleted" ELSE "COMPLETED"
        /\ \A t \in Tasks \ {u} : row'[t] = row[t]
    BY <1>3, <2>1, <2>2, Setting
  <2>. QED  BY <1>1, <1>2, <1>3, <2>1, <2>3, Returning
<1>6. CASE CannotStore(p, c)
  <2>1. /\ Return(p, c) /\ row' = row /\ lost' = lost \cup {u}
        /\ stranded' = stranded \cup {u}
        /\ UNCHANGED <<lockVars, serving, calls, ends>>
    BY <1>2, <1>6 DEF CannotStore
  <2>2. row' \in [Tasks -> [state : States, retries : Nat]]
    BY <1>3, <2>1 DEF TypeOK
  <2>3. u \in lost' /\ u \in stranded'
    BY <2>1
  <2>. QED  BY <1>1, <1>2, <1>3, <2>1, <2>2, <2>3, Returning
<1>. QED  BY <1>5, <1>6

LEMMA BudgetIsNat == \A t \in Tasks : Budget(t) \in Nat
BY TasksAssumption DEF Budget

LEMMA FailSound ==
  ASSUME IInv, NEW p \in Procs, NEW c \in Callers, Fail(p, c)
  PROVE  IInv' /\ Keeps
<1>1. call[p][c].at = "running" /\ "running" \in Holds /\ "backoff" \in Holds
  BY DEF Fail, Holds
<1>2. PICK u \in Tasks : u = call[p][c].task
  BY <1>1, BusyCall
<1>3. TypeOK /\ p \in serving /\ call[p][c] \in Busy /\ row[u].retries \in Nat
  BY <1>1, BusyCall DEF TypeOK
<1>4. ~raced => row[u].state = "RUNNING"
  BY <1>1, <1>2, <1>3, Before
<1>5. UNCHANGED <<lockVars, serving, calls, ends, lost, stranded>>
  BY DEF Fail
<1> DEFINE tried == row[u].retries + 1
           r(s) == [state |-> s, retries |-> tried]
<1>6. ASSUME NEW s \in States, row' = [row EXCEPT ![u] = r(s)]
      PROVE  /\ row' \in [Tasks -> [state : States, retries : Nat]]
             /\ row'[u].state = s /\ row'[u].retries = tried
             /\ \A t \in Tasks \ {u} : row'[t] = row[t]
  <2>1. r(s) \in [state : States, retries : Nat] /\ r(s).state = s /\ r(s).retries = tried
    BY <1>3, <1>6
  <2> HIDE DEF r
  <2>. QED  BY <1>3, <1>6, <2>1 DEF TypeOK
<1>7. CASE row[u].state = "deleted" /\ UNCHANGED row /\ Return(p, c)
  <2>1. raced
    BY <1>4, <1>7
  <2>. QED  BY <1>1, <1>2, <1>3, <1>5, <1>7, <2>1, Returning DEF TypeOK
<1>8. CASE /\ row[u].state # "deleted" /\ RetryDue(u, tried)
           /\ row' = [row EXCEPT ![u] = r("RETRYING")] /\ Goto(p, c, "backoff")
  <2> DEFINE x == [call[p][c] EXCEPT !.at = "backoff"]
  <2>1. /\ x \in Busy /\ x.at = "backoff" /\ x.task = u
        /\ call' = [call EXCEPT ![p][c] = x]
    BY <1>1, <1>2, <1>3, <1>8, BusyCall DEF Goto, TypeOK
  <2> HIDE DEF x
  <2>2. "RETRYING" \in States
    BY DEF States
  <2>3. /\ row' \in [Tasks -> [state : States, retries : Nat]]
        /\ row'[u].state = "RETRYING" /\ row'[u].retries = tried
        /\ \A t \in Tasks \ {u} : row'[t] = row[t]
    BY <1>6, <1>8, <2>2
  <2>4. tried \in 1..(Budget(u) - 1)
    BY <1>3, <1>8, BudgetIsNat DEF RetryDue
  <2>5. Moves(p, c, u, x)
    BY <1>1, <1>2, <1>3, <1>5, <2>1, <2>3 DEF Moves
  <2>6. ASSUME ~raced PROVE TaskInv(u)'
    <3>1. ends[u] = 0 \/ u \in lost
      BY <1>1, <1>2, <1>3, <1>4, <2>6, Before
    <3>. QED  BY <1>1, <1>5, <2>1, <2>3, <2>5, <2>6, <3>1, OwnTask
  <2>7. IInv'
    BY <1>3, <1>5, <2>3, <2>4, <2>5, <2>6, Moved DEF TypeOK
  <2>. QED  BY <1>4, <2>3, <2>7, KeepsElsewhere
<1>9. CASE /\ row[u].state # "deleted" /\ ~RetryDue(u, tried)
           /\ row' = [row EXCEPT ![u] = r("FAILED")] /\ Return(p, c)
  <2>1. "FAILED" \in States
    BY DEF States
  <2>2. /\ row' \in [Tasks -> [state : States, retries : Nat]]
        /\ row'[u].state = "FAILED"
        /\ \A t \in Tasks \ {u} : row'[t] = row[t]
    BY <1>6, <1>9, <2>1
  <2>. QED  BY <1>1, <1>2, <1>3, <1>4, <1>5, <1>9, <2>2, Returning
<1>. QED  BY <1>2, <1>7, <1>8, <1>9 DEF Fail

LEMMA BackOffSound ==
  ASSUME IInv, NEW p \in Procs, NEW c \in Callers, BackOff(p, c)
  PROVE  IInv' /\ Keeps
<1>1. call[p][c].at = "backoff" /\ "backoff" \in Holds
  BY DEF BackOff, Holds
<1>2. PICK u \in Tasks : u = call[p][c].task
  BY <1>1, BusyCall
<1>3. TypeOK /\ p \in serving /\ call[p][c] \in Busy
  BY <1>1, BusyCall
<1>4. ~raced => row[u].state = "RETRYING"
  BY <1>1, <1>2, <1>3, Before
<1>5. /\ Return(p, c) /\ SetState(u, "PENDING")
      /\ UNCHANGED <<lockVars, serving, calls, ends, lost, stranded>>
  BY <1>2 DEF BackOff
<1>6. "PENDING" \in States
  BY DEF States
<1>7. /\ row' \in [Tasks -> [state : States, retries : Nat]]
      /\ row'[u].state = IF row[u].state = "deleted" THEN "deleted" ELSE "PENDING"
      /\ \A t \in Tasks \ {u} : row'[t] = row[t]
  BY <1>3, <1>5, <1>6, Setting
<1>. QED  BY <1>1, <1>2, <1>3, <1>4, <1>5, <1>7, Returning

LEMMA EnterSound ==
  ASSUME IInv, NEW p \in Procs, NEW c \in Callers, Enter(p, c)
  PROVE  IInv' /\ Keeps
<1>1. call[p][c].at = "waiting" /\ call[p][c].at \notin Holds /\ "running" \in Holds
  BY DEF Enter, Holds
<1>2. PICK u \in Tasks : u = call[p][c].task
  BY <1>1, BusyCall
<1>3. TypeOK /\ p \in serving /\ call[p][c] \in Busy /\ LockFree(p, u)
  BY <1>1, <1>2, BusyCall DEF Enter
<1>4. UNCHANGED <<lockVars, serving, calls, ends, lost>>
  BY DEF Enter
<1>5. ~raced =>
        /\ row[u].state \notin {"RUNNING", "RETRYING"} \/ u \in stranded
        /\ ends[u] = 0 \/ u \in lost \/ row[u].state \in {"COMPLETED", "deleted"}
  BY <1>1, <1>2, <1>3, Before
<1>6. CASE /\ Runnable(u) /\ SetState(u, "RUNNING") /\ Goto(p, c, "running")
           /\ stranded' = stranded \ {u}
  <2> DEFINE x == [call[p][c] EXCEPT !.at = "running"]
  <2>1. /\ x \in Busy /\ x.at = "running" /\ x.task = u
        /\ call' = [call EXCEPT ![p][c] = x]
    BY <1>1, <1>2, <1>3, <1>6, BusyCall DEF Goto, TypeOK
  <2> HIDE DEF x
  <2>2. "RUNNING" \in States /\ row[u].state \notin {"COMPLETED", "deleted"}
    BY <1>6 DEF States, Runnable
  <2>3. /\ row' \in [Tasks -> [state : States, retries : Nat]]
        /\ row'[u].state = "RUNNING"
        /\ \A t \in Tasks \ {u} : row'[t] = row[t]
    BY <1>3, <1>6, <2>2, Setting
  <2>4. stranded' \subseteq Tasks /\ \A t \in Tasks \ {u} : t \in stranded' <=> t \in stranded
    BY <1>3, <1>6 DEF TypeOK
  <2>5. Moves(p, c, u, x)
    BY <1>2, <1>3, <1>4, <2>1, <2>3, <2>4 DEF Moves
  <2>6. ASSUME ~raced PROVE TaskInv(u)'
    BY <1>1, <1>3, <1>4, <1>5, <2>1, <2>2, <2>3, <2>5, <2>6, OwnTask
  <2>7. IInv'
    BY <1>3, <1>4, <2>3, <2>4, <2>5, <2>6, Moved DEF TypeOK
  <2>. QED  BY <2>2, <2>3, <2>7, KeepsElsewhere
<1>7. CASE /\ Cancellable(u) /\ SetState(u, "FAILED")
           /\ Return(p, c) /\ UNCHANGED stranded
  <2>1. "FAILED" \in States /\ row[u].state \notin {"COMPLETED", "deleted"}
    BY <1>7 DEF States, Cancellable
  <2>2. /\ row' \in [Tasks -> [state : States, retries : Nat]]
        /\ row'[u].state = "FAILED"
        /\ \A t \in Tasks \ {u} : row'[t] = row[t]
    BY <1>3, <1>7, <2>1, Setting
  <2>. QED  BY <1>1, <1>2, <1>3, <1>4, <1>7, <2>1, <2>2, Returning
<1>8. CASE UNCHANGED row /\ Return(p, c) /\ UNCHANGED stranded
  <2>1. row' \in [Tasks -> [state : States, retries : Nat]]
    BY <1>3, <1>8 DEF TypeOK
  <2>. QED  BY <1>1, <1>2, <1>3, <1>4, <1>5, <1>8, <2>1, Returning
<1>. QED  BY <1>2, <1>6, <1>7, <1>8 DEF Enter

(* A step in which no lock is at stake.                                      *)
LEMMA Unheld ==
  ASSUME IInv, NEW p \in serving, NEW c \in Callers, NEW x,
         call' = [call EXCEPT ![p][c] = x], x \in {Idle} \cup Busy,
         call[p][c].at \in {"idle", "waiting"}, x.at \in {"idle", "waiting"},
         calls' \in 0..MaxCalls,
         UNCHANGED <<lockVars, row, serving, ends, lost, stranded>>
  PROVE  IInv' /\ Keeps
<1>1. TypeOK /\ p \in Procs
  BY ServerIsOn DEF IInv
<1>2. /\ call'[p][c] = x /\ call' \in [Procs -> [Callers -> {Idle} \cup Busy]]
      /\ \A q \in Procs, d \in Callers : q # p \/ d # c => call'[q][d] = call[q][d]
  BY <1>1, CallAt
<1>3. ASSUME NEW t \in Tasks, NEW q \in Procs, NEW d \in Callers
      PROVE  /\ Executes(q, d, t)' <=> Executes(q, d, t)
             /\ Waits(q, d, t)' <=> Waits(q, d, t)
             /\ Returned(q, d, t)' <=> Returned(q, d, t)
             /\ HasLock(q, d, t)' <=> HasLock(q, d, t)
  <2>1. CASE q # p \/ d # c
    BY <1>2, <2>1 DEF Executes, Waits, Returned, HasLock
  <2>2. CASE q = p /\ d = c
    BY <1>2, <2>2 DEF Executes, Waits, Returned, HasLock, Holds
  <2>. QED  BY <2>1, <2>2
<1>4. TypeOK' /\ LockInv' /\ WithinBudget' /\ raced' = raced
  BY <1>1, <1>2 DEF IInv, TypeOK, LockInv, LockTypeOK, lockVars, Up, On, Busy, WithinBudget, Budget
<1>5. OnlyServing' /\ Mutex'
  BY <1>2, <1>3 DEF IInv, OnlyServing, Mutex
<1>6. ASSUME ~raced, NEW t \in Tasks PROVE TaskInv(t)'
  <2>1. TaskInv(t) /\ serving \subseteq Procs
    BY <1>6, ServerIsOn DEF IInv
  <2>. QED  BY <1>3, <2>1, SameTask
<1>7. Keeps
  BY DEF Keeps
<1>. QED  BY <1>4, <1>5, <1>6, <1>7 DEF IInv

LEMMA CancelCallerSound ==
  ASSUME IInv, NEW p \in Procs, NEW c \in Callers, CancelCaller(p, c)
  PROVE  IInv' /\ Keeps
<1>1. call[p][c].at \in {"waiting", "running", "backoff"} /\ call[p][c].at # "idle"
  BY DEF CancelCaller
<1>2. PICK u \in Tasks : u = call[p][c].task
  BY <1>1, BusyCall
<1>3. TypeOK /\ p \in serving /\ call[p][c] \in Busy /\ Idle.at = "idle"
  BY <1>1, BusyCall
<1>4. Return(p, c) /\ UNCHANGED <<lockVars, serving, calls, ends, lost>>
  BY DEF CancelCaller
<1>5. call[p][c].at \in Holds /\ ~raced =>
         row[u].state = IF call[p][c].at = "backoff" THEN "RETRYING" ELSE "RUNNING"
  BY <1>1, <1>2, <1>3, Before DEF Holds
<1>6. CASE call[p][c].at = "running"
  <2>1. "PENDING" \in States /\ call[p][c].at \in Holds
    BY <1>6 DEF States, Holds
  <2>2. SetState(u, "PENDING") /\ stranded' = stranded
    BY <1>2, <1>6 DEF CancelCaller, PutBack
  <2>3. /\ row' \in [Tasks -> [state : States, retries : Nat]]
        /\ row'[u].state = IF row[u].state = "deleted" THEN "deleted" ELSE "PENDING"
        /\ \A t \in Tasks \ {u} : row'[t] = row[t]
    BY <1>3, <2>1, <2>2, Setting
  <2>. QED  BY <1>1, <1>2, <1>4, <1>5, <1>6, <2>1, <2>2, <2>3, Returning
<1>7. CASE call[p][c].at = "backoff"
  <2>1. /\ row' = row /\ stranded' = stranded \cup {u} /\ call[p][c].at \in Holds
        /\ row' \in [Tasks -> [state : States, retries : Nat]]
    BY <1>2, <1>3, <1>7 DEF CancelCaller, Holds, TypeOK
  <2>. QED  BY <1>1, <1>2, <1>4, <1>5, <1>7, <2>1, Returning
<1>8. CASE call[p][c].at = "waiting"
  <2>1. row' = row /\ stranded' = stranded
    BY <1>8 DEF CancelCaller
  <2>. QED  BY <1>3, <1>4, <1>8, <2>1, Unheld DEF Return, TypeOK
<1>. QED  BY <1>1, <1>6, <1>7, <1>8

LEMMA RequestSound ==
  ASSUME IInv, NEW p \in Procs, NEW c \in Callers, NEW t \in Tasks,
         NEW op \in {"run", "cancel"}, Request(p, c, t, op)
  PROVE  IInv' /\ Keeps
<1> DEFINE x == [at |-> "waiting", task |-> t, op |-> op]
<1>1. /\ p \in serving /\ call[p][c] = Idle /\ Idle.at = "idle"
      /\ call' = [call EXCEPT ![p][c] = x] /\ x \in Busy /\ x.at = "waiting"
      /\ UNCHANGED <<lockVars, row, serving, ends, lost, stranded>>
  BY DEF Request, Busy, Idle
<1> HIDE DEF x
<1>2. calls' \in 0..MaxCalls
  BY TasksAssumption DEF Request, IInv, TypeOK
<1>. QED  BY <1>1, <1>2, Unheld

-----------------------------------------------------------------------------
(* submit(), cleanup_old_tasks(), start and end of a worker.                 *)

LEMMA RowOnly ==
  ASSUME IInv, NEW t \in Tasks, UNCHANGED <<lockVars, call, serving, calls, ends, lost, stranded>>,
         row' \in [Tasks -> [state : States, retries : Nat]],
         \A u \in Tasks \ {t} : row'[u] = row[u],
         row[t].state \in {"absent", "COMPLETED", "FAILED"},
         row'[t].state \in {"PENDING", "deleted"},
         row[t].state = "COMPLETED" => row'[t].state = "deleted"
  PROVE  IInv' /\ Keeps
<1>1. TypeOK' /\ LockInv' /\ OnlyServing' /\ Mutex' /\ raced' = raced
  BY DEF IInv, TypeOK, LockInv, LockTypeOK, lockVars, Up, On, OnlyServing, Mutex, HasLock
<1>2. WithinBudget'
  BY DEF IInv, WithinBudget, Budget
<1>3. ASSUME ~raced, NEW u \in Tasks PROVE TaskInv(u)'
  <2>1. TaskInv(u) /\ serving \subseteq Procs
    BY <1>3, ServerIsOn DEF IInv
  <2>2. CASE u # t
    BY <2>1, <2>2, SameTask DEF Executes, Waits, Returned
  <2>3. CASE u = t
    <3>1. ASSUME NEW q \in Procs, NEW d \in Callers
          PROVE  ~Executes(q, d, t) /\ ~Waits(q, d, t) /\ ~Returned(q, d, t)
      BY <2>1, <2>3 DEF TaskInv, Known, Executes, Returned
    <3>2. ends[t] = 0 \/ t \in lost \/ (ends[t] = 1 /\ row[t].state = "COMPLETED")
      BY <2>1, <2>3, <3>1 DEF TaskInv, Once
    <3>3. Known(t)' /\ Cared(t)'
      BY <3>1 DEF Known, Cared, Executes, Waits
    <3>4. Once(t)'
      BY <3>2 DEF Once
    <3>. QED  BY <2>3, <3>3, <3>4 DEF TaskInv
  <2>. QED  BY <2>2, <2>3
<1>4. Keeps
  BY KeepsElsewhere
<1>. QED  BY <1>1, <1>2, <1>3, <1>4 DEF IInv

LEMMA SubmitSound ==
  ASSUME IInv, NEW p \in Procs, NEW t \in Tasks, Submit(p, t) \/ CleanUp(p, t)
  PROVE  IInv' /\ Keeps
<1>1. TypeOK
  BY DEF IInv
<1>2. CASE Submit(p, t)
  <2> DEFINE r == [state |-> "PENDING", retries |-> 0]
  <2>1. r \in [state : States, retries : Nat] /\ r.state = "PENDING"
    BY DEF States
  <2>2. /\ row' = [row EXCEPT ![t] = r] /\ row[t].state = "absent"
        /\ UNCHANGED <<lockVars, call, serving, calls, ends, lost, stranded>>
    BY <1>2 DEF Submit, NoRow
  <2> HIDE DEF r
  <2>. QED  BY <1>1, <2>1, <2>2, RowOnly DEF TypeOK
<1>3. CASE CleanUp(p, t)
  <2>1. row[t].state \in {"COMPLETED", "FAILED"} /\ "deleted" \in States
    BY <1>3 DEF CleanUp, States
  <2>2. /\ SetState(t, "deleted")
        /\ UNCHANGED <<lockVars, call, serving, calls, ends, lost, stranded>>
    BY <1>1, <1>3, <2>1 DEF CleanUp, SetState
  <2>3. /\ row' \in [Tasks -> [state : States, retries : Nat]]
        /\ row'[t].state = "deleted"
        /\ \A u \in Tasks \ {t} : row'[u] = row[u]
    BY <1>1, <2>1, <2>2, Setting
  <2>. QED  BY <2>1, <2>2, <2>3, RowOnly
<1>. QED  BY <1>2, <1>3

LEMMA StartUpSound ==
  ASSUME IInv, NEW p \in Procs, StartUp(p)
  PROVE  IInv' /\ Keeps
<1>1. LockInv' /\ (raced => raced') /\ UNCHANGED taskVars
  BY LockStep DEF StartUp, IInv
<1>2. Up \subseteq Up'
  BY DEF StartUp, Check, Take, Up, IInv, TypeOK, LockTypeOK
<1>3. TypeOK' /\ OnlyServing' /\ Mutex' /\ WithinBudget'
  BY <1>1, <1>2 DEF IInv, TypeOK, LockInv, taskVars, OnlyServing, Mutex, HasLock,
                    WithinBudget, Budget
<1>4. ASSUME ~raced, NEW t \in Tasks PROVE TaskInv(t)'
  <2>1. TaskInv(t) /\ serving \subseteq Procs
    BY <1>4, ServerIsOn DEF IInv
  <2>. QED  BY <1>1, <2>1, SameTask DEF taskVars, Executes, Waits, Returned
<1>5. Keeps
  BY <1>1 DEF Keeps, taskVars
<1>. QED  BY <1>1, <1>3, <1>4, <1>5 DEF IInv

LEMMA RecoverSound ==
  ASSUME IInv, NEW p \in Procs, Recover(p)
  PROVE  IInv' /\ Keeps
<1>1. /\ TypeOK /\ p \in Up /\ p \notin serving /\ serving' = serving \cup {p}
      /\ UNCHANGED <<lockVars, call, calls, ends, lost>>
  BY DEF Recover, IInv
<1>2. ASSUME ~raced
      PROVE  \A q \in Procs, d \in Callers : call[q][d] = Idle
  BY <1>1, <1>2, OneServer DEF Up, IInv, OnlyServing
<1>3. /\ row' \in [Tasks -> [state : States, retries : Nat]] /\ stranded' \subseteq Tasks
      /\ \A t \in Tasks :
           \/ ~LeftBehind(t) /\ row'[t] = row[t]
           \/ row'[t].state = "PENDING" /\ LeftBehind(t)
           \/ row'[t] = row[t] /\ t \in stranded'
  <2>1. CASE /\ row' = [t \in Tasks |->
                  IF LeftBehind(t) THEN [row[t] EXCEPT !.state = "PENDING"] ELSE row[t]]
             /\ stranded' = {}
    <3>1. ASSUME NEW t \in Tasks
          PROVE  /\ [row[t] EXCEPT !.state = "PENDING"] \in [state : States, retries : Nat]
                 /\ [row[t] EXCEPT !.state = "PENDING"].state = "PENDING"
                 /\ row[t] \in [state : States, retries : Nat]
      <4>1. row[t] \in [state : States, retries : Nat] /\ "PENDING" \in States
        BY <1>1 DEF TypeOK, States
      <4>. QED  BY <4>1
    <3>. QED  BY <2>1, <3>1
  <2>2. CASE UNCHANGED row /\ stranded' = stranded \cup {t \in Tasks : LeftBehind(t)}
    BY <1>1, <2>2 DEF TypeOK
  <2>. QED  BY <2>1, <2>2 DEF Recover
<1>4. TypeOK'
  BY <1>1, <1>3 DEF TypeOK, LockTypeOK, lockVars, Up
<1>5. LockInv' /\ OnlyServing' /\ Mutex' /\ raced' = raced
  BY <1>1 DEF IInv, LockInv, LockTypeOK, lockVars, Up, On, OnlyServing, Mutex, HasLock
<1>6. WithinBudget'
  BY <1>3 DEF IInv, WithinBudget, Budget
<1>7. ASSUME ~raced, NEW t \in Tasks PROVE TaskInv(t)'
  <2>1. ASSUME NEW q \in Procs, NEW d \in Callers
        PROVE  ~Executes(q, d, t) /\ ~Waits(q, d, t) /\ ~Returned(q, d, t)
    BY <1>2, <1>7 DEF Idle, Executes, Waits, Returned
  <2>2. Known(t)'
    BY <1>1, <2>1 DEF Known, Executes, Waits
  <2>3. Cared(t)'
    BY <1>3 DEF Cared, LeftBehind
  <2>4. ends[t] = 0 \/ t \in lost \/ (ends[t] = 1 /\ row[t].state \in {"COMPLETED", "deleted"})
    BY <1>7, <2>1 DEF IInv, TaskInv, Once
  <2>5. Once(t)'
    BY <1>1, <1>3, <2>4 DEF Once, LeftBehind
  <2>. QED  BY <2>2, <2>3, <2>5 DEF TaskInv
<1>8. Keeps
  BY <1>3 DEF Keeps, LeftBehind
<1>. QED  BY <1>4, <1>5, <1>6, <1>7, <1>8 DEF IInv

(* A worker that is gone leaves nobody at work, and its successor has yet to *)
(* recover the rows.                                                         *)
LEMMA EndSound ==
  ASSUME IInv, NEW p \in Procs, Stop(p) \/ Kill(p)
  PROVE  IInv' /\ Keeps
<1>1. /\ TypeOK /\ (Leave(p) \/ Die(p)) /\ serving' = serving \ {p}
      /\ UNCHANGED <<row, calls, ends, stranded>>
  BY DEF Stop, Kill, Gone, IInv
<1>2. LockInv' /\ (raced => raced')
  BY <1>1, LockStep DEF IInv
<1>3. proc[p] # "off" /\ Up' = Up \ {p}
  BY <1>1 DEF Leave, Die, Up, TypeOK, LockTypeOK
<1>4. /\ call' \in [Procs -> [Callers -> {Idle} \cup Busy]]
      /\ \A d \in Callers : call'[p][d] = Idle
      /\ \A q \in Procs \ {p} : call'[q] = call[q]
      /\ \A q \in Procs, d \in Callers : call'[q][d] = call[q][d] \/ call'[q][d] = Idle
  <2>1. call \in [Procs -> [Callers -> {Idle} \cup Busy]]
    BY <1>1 DEF TypeOK, Busy
  <2>2. CASE Stop(p)
    BY <2>1, <2>2 DEF Stop
  <2>3. CASE Kill(p)
    <3> DEFINE none == [c \in Callers |-> Idle]
    <3>1. call' = [call EXCEPT ![p] = none]
      BY <2>3 DEF Kill
    <3>2. none \in [Callers -> {Idle} \cup Busy] /\ \A d \in Callers : none[d] = Idle
      OBVIOUS
    <3> HIDE DEF none
    <3>. QED  BY <2>1, <3>1, <3>2
  <2>. QED  BY <2>2, <2>3
<1>5. /\ lost \subseteq lost' /\ lost' \subseteq Tasks
      /\ \A t \in Tasks, d \in Callers : Returned(p, d, t) => t \in lost'
  <2>1. CASE Stop(p)
    BY <1>1, <2>1 DEF Stop, TypeOK, Returned, Idle
  <2>2. CASE Kill(p)
    BY <1>1, <2>2 DEF Kill, TypeOK, Returned
  <2>. QED  BY <2>1, <2>2
<1>6. TypeOK'
  BY <1>1, <1>2, <1>3, <1>4, <1>5 DEF TypeOK, LockInv, Busy
<1>7. OnlyServing' /\ WithinBudget'
  BY <1>1, <1>4 DEF IInv, OnlyServing, WithinBudget, Budget
<1>8. ASSUME NEW q \in Procs, NEW d \in Callers, NEW t \in Tasks
      PROVE  /\ HasLock(q, d, t)' => HasLock(q, d, t)
             /\ Executes(q, d, t)' => Executes(q, d, t)
             /\ Waits(q, d, t)' => Waits(q, d, t)
  BY <1>4 DEF HasLock, Executes, Waits, Holds, Idle
<1>9. Mutex'
  BY <1>8 DEF IInv, Mutex
<1>10. ASSUME ~raced, NEW t \in Tasks PROVE TaskInv(t)'
  <2>1. TaskInv(t) /\ serving' = {} /\ \A q \in Procs \ {p} : \A d \in Callers : call[q][d] = Idle
    BY <1>1, <1>3, <1>10, OneServer DEF IInv
  <2>2. Known(t)' /\ Cared(t)'
    BY <1>1, <1>8, <2>1 DEF TaskInv, Known, Cared
  <2>3. \A q \in Procs, d \in Callers : Returned(q, d, t) => q = p
    BY <2>1 DEF Returned, Idle
  <2>4. Once(t)'
    BY <1>1, <1>5, <2>1, <2>3 DEF TaskInv, Once
  <2>. QED  BY <2>2, <2>4 DEF TaskInv
<1>11. Keeps
  BY <1>1 DEF Keeps
<1>. QED  BY <1>2, <1>6, <1>7, <1>9, <1>10, <1>11 DEF IInv

-----------------------------------------------------------------------------
LEMMA Initially == Init => IInv
<1>. SUFFICES ASSUME Init PROVE IInv
  OBVIOUS
<1>1. LockInv
  BY LockInitially DEF Init
<1>2. \A p \in Procs, c \in Callers : call[p][c] = Idle
  BY DEF Init
<1>3. /\ row \in [Tasks -> [state : States, retries : Nat]]
      /\ \A t \in Tasks : row[t].state = "absent"
  <2>1. NoRow \in [state : States, retries : Nat] /\ NoRow.state = "absent"
    BY DEF NoRow, States
  <2>. QED  BY <2>1 DEF Init
<1>4. TypeOK
  BY <1>1, <1>3, TasksAssumption DEF Init, LockInv, TypeOK
<1>5. OnlyServing /\ Mutex
  BY <1>2 DEF OnlyServing, Mutex, HasLock, Holds, Idle
<1>6. WithinBudget /\ \A t \in Tasks : Cared(t)
  BY <1>3 DEF WithinBudget, Cared
<1>7. \A t \in Tasks : Known(t) /\ Once(t)
  BY <1>2 DEF Init, Known, Once, Executes, Waits, Idle
<1>. QED  BY <1>1, <1>4, <1>5, <1>6, <1>7 DEF IInv, TaskInv

LEMMA Stepwise == IInv /\ [Next]_vars => IInv' /\ Keeps
<1>1. ASSUME IInv, UNCHANGED vars PROVE IInv' /\ Keeps
  <2>1. UNCHANGED <<lockVars, row, call, serving, calls, ends, lost, stranded>>
    BY <1>1 DEF vars, taskVars
  <2>2. TypeOK' /\ LockInv' /\ OnlyServing' /\ Mutex' /\ WithinBudget' /\ raced' = raced
    BY <1>1, <2>1 DEF IInv, TypeOK, LockInv, LockTypeOK, lockVars, Up, On, OnlyServing,
                      Mutex, HasLock, WithinBudget, Budget
  <2>3. \A t \in Tasks : TaskInv(t) => TaskInv(t)'
    BY <2>1 DEF TaskInv, Known, Cared, Once, Executes, Waits, Returned
  <2>. QED  BY <1>1, <2>1, <2>2, <2>3 DEF IInv, Keeps
<1>2. ASSUME IInv, NEW p \in Procs, NEW c \in Callers, CallStep(p, c) \/ CancelCaller(p, c)
      PROVE  IInv' /\ Keeps
  BY <1>2, EnterSound, SucceedSound, StoreSound, FailSound, BackOffSound, CancelCallerSound
     DEF CallStep
<1>3. ASSUME IInv, NEW p \in Procs, NEW c \in Callers, NEW t \in Tasks,
             NEW op \in {"run", "cancel"}, Request(p, c, t, op)
      PROVE  IInv' /\ Keeps
  BY <1>3, RequestSound
<1>4. ASSUME IInv, NEW p \in Procs, NEW t \in Tasks, Submit(p, t) \/ CleanUp(p, t)
      PROVE  IInv' /\ Keeps
  BY <1>4, SubmitSound
<1>5. ASSUME IInv, NEW p \in Procs, StartUp(p) \/ Recover(p) \/ Stop(p) \/ Kill(p)
      PROVE  IInv' /\ Keeps
  BY <1>5, StartUpSound, RecoverSound, EndSound
<1>. QED  BY <1>1, <1>2, <1>3, <1>4, <1>5 DEF Next

LEMMA Inductive == Spec => []IInv
<1>1. IInv /\ [Next]_vars => IInv'
  BY Stepwise
<1>. QED  BY Initially, <1>1, PTL DEF Spec

\* Rows, calls, locks and the PID file keep their types, and only a worker that has
\* taken the PID lock serves.
THEOREM TypeCorrect == Spec => []TypeOK
<1>1. IInv => TypeOK
  BY DEF IInv
<1>. QED  BY Inductive, <1>1, PTL

\* The PID lock of async_main(): unless two starting processes read the file before
\* either wrote it, there is one worker, whoever stops or is killed when.
THEOREM OneWorker == Spec => []LoneWorker
<1>1. IInv => LoneWorker
  BY DEF IInv, LockInv, LoneWorker, Up, On
<1>. QED  BY Inductive, <1>1, PTL

\* run_task() executes a task in one coroutine at a time, over all processes.
THEOREM Exclusive == Spec => []OneAtATime
<1>1. IInv => OneAtATime
  <2>. SUFFICES ASSUME IInv, ~raced, NEW t \in Tasks, NEW p \in Procs, NEW q \in Procs,
                       NEW c \in Callers, NEW d \in Callers,
                       Executes(p, c, t), Executes(q, d, t)
                PROVE  p = q /\ c = d
    BY DEF OneAtATime
  <2>1. HasLock(p, c, t) /\ HasLock(q, d, t) /\ p \in serving
    BY CallerServes DEF Executes, HasLock, Holds
  <2>2. q = p
    BY <2>1, Unique
  <2>. QED  BY <2>1, <2>2 DEF IInv, Mutex
<1>. QED  BY Inductive, <1>1, PTL

\* recover_pending_tasks() and the handlers of run_task() together: in a worker that
\* serves, a row in RUNNING or RETRYING is somebody's business, but for the named ways out.
THEOREM SomebodyCares == Spec => []NoneLeftBehind
<1>1. IInv => NoneLeftBehind
  <2>. SUFFICES ASSUME IInv, ~raced, serving # {}, NEW t \in Tasks, t \notin stranded
                PROVE  /\ row[t].state = "RUNNING" =>
                             \E p \in serving, c \in Callers : Executes(p, c, t)
                       /\ row[t].state = "RETRYING" =>
                             \E p \in serving, c \in Callers : HasLock(p, c, t)
    BY DEF NoneLeftBehind
  <2>1. Cared(t)
    BY DEF IInv, TaskInv
  <2>2. ASSUME NEW p \in serving, NEW c \in Callers, Waits(p, c, t) PROVE HasLock(p, c, t)
    BY <2>2 DEF Waits, HasLock, Holds
  <2>. QED  BY <2>1, <2>2 DEF Cared
<1>. QED  BY Inductive, <1>1, PTL

\* _handle_failure() puts a task into RETRYING only while its budget lasts.
THEOREM BudgetHolds == Spec => []WithinBudget
<1>1. IInv => WithinBudget
  BY DEF IInv
<1>. QED  BY Inductive, <1>1, PTL

\* However often a task is run, retried, cancelled and recovered, its coroutine comes
\* to a good end at most once unless an end of it could not be stored.
THEOREM OnceOnly == Spec => []DoneOnce
<1>1. IInv => DoneOnce
  BY DEF IInv, DoneOnce, TaskInv, Once
<1>. QED  BY Inductive, <1>1, PTL

\* No step of any caller or worker takes a completed task back.
THEOREM StaysCompleted == Spec => CompletedStays
<1>1. IInv /\ [Next]_vars =>
        [\A t \in Tasks : ~raced /\ row[t].state = "COMPLETED" =>
            row'[t].state \in {"COMPLETED", "deleted"}]_vars
  BY Stepwise DEF Keeps
<1>. QED  BY Inductive, <1>1, PTL DEF Spec, CompletedStays

=============================================================================
