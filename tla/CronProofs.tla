----------------------------- MODULE CronProofs -----------------------------
(* What the scheduler of Cron promises for any jobs, intervals and limits.   *)
EXTENDS Cron, TLAPS

-----------------------------------------------------------------------------
(* What is known of one job.                                                 *)

\* The object that a tick executes is there, and an object that was taken out of
\* memory while it was on the list is remembered.
Held(j) ==
    /\ jobs[j].enabled => jobs[j].there
    /\ j \in Listed => Object(j).there
    /\ orphan[j].there => j \in overtaken

\* A worker that is down has no list and starts its jobs anew.
Fresh(j) == ~up => j \notin Listed /\ ended[j] = Never /\ streak[j] = 0

\* The failures of a job that is due, or on the list, leave room for one more.
Failing(j) ==
    j \notin overtaken =>
        /\ streak[j] <= jobs[j].fails
        /\ streak[j] <= MaxFailures
        /\ jobs[j].enabled \/ j \in Listed => streak[j] < MaxFailures

\* The next run is an interval after the last, and the list respects it.
Spaced(j) ==
    j \notin overtaken /\ ended[j].past =>
        /\ jobs[j].there
        /\ ended[j].at <= now
        /\ jobs[j].due >= ended[j].at + Interval[j]
        /\ j \in queue => now >= ended[j].at + Interval[j]

JobInv(j) == Held(j) /\ Fresh(j) /\ Failing(j) /\ Spaced(j)

IInv == TypeOK /\ RowsAgree /\ \A j \in Jobs : JobInv(j)

-----------------------------------------------------------------------------
\* A step that is about j: nothing changes for the other jobs.
Only(j) ==
    /\ UNCHANGED <<now, up>>
    /\ \A i \in Jobs \ {j} :
          /\ jobs'[i] = jobs[i] /\ rows'[i] = rows[i] /\ orphan'[i] = orphan[i]
          /\ ended'[i] = ended[i] /\ streak'[i] = streak[i]
          /\ i \in queue' <=> i \in queue
          /\ running' = i <=> running = i
          /\ i \in unsaved' <=> i \in unsaved
          /\ i \in overtaken' <=> i \in overtaken

LEMMA Locality ==
  ASSUME IInv, NEW j \in Jobs, Only(j), TypeOK', JobInv(j)',
         up => j \in unsaved' \/ rows'[j] = jobs'[j]
  PROVE  IInv'
<1>1. ASSUME NEW i \in Jobs \ {j} PROVE JobInv(i)'
  <2>1. JobInv(i)
    BY DEF IInv
  <2>2. (i \in Listed)' <=> i \in Listed
    BY DEF Only, Listed
  <2>3. Held(i)'
    BY <2>1, <2>2 DEF JobInv, Held, Object, Only
  <2>4. Fresh(i)'
    BY <2>1, <2>2 DEF JobInv, Fresh, Only
  <2>5. Failing(i)'
    BY <2>1, <2>2 DEF JobInv, Failing, Only
  <2>6. Spaced(i)'
    BY <2>1 DEF JobInv, Spaced, Only
  <2>. QED  BY <2>3, <2>4, <2>5, <2>6 DEF JobInv
<1>2. RowsAgree'
  BY DEF IInv, RowsAgree, Only
<1>. QED  BY <1>1, <1>2 DEF IInv

LEMMA Saved ==
  ASSUME TypeOK, NEW j \in Jobs, NEW job \in JobType, SaveJob(j, job)
  PROVE  /\ rows' \in [Jobs -> JobType] /\ unsaved' \subseteq Jobs
         /\ \A i \in Jobs \ {j} : rows'[i] = rows[i] /\ (i \in unsaved' <=> i \in unsaved)
         /\ j \in unsaved' \/ rows'[j] = jobs'[j]
BY DEF TypeOK, SaveJob

LEMMA JobTypes ==
  /\ NoJob \in JobType /\ ~NoJob.there /\ ~NoJob.enabled /\ NoJob.fails = 0
  /\ \A due, fails \in Nat :
        /\ NewJob(due, fails) \in JobType
        /\ NewJob(due, fails).there /\ NewJob(due, fails).enabled
        /\ NewJob(due, fails).due = due /\ NewJob(due, fails).fails = fails
BY DEF NoJob, NewJob, JobType

\* The list keeps the object.
LEMMA Left ==
  ASSUME IInv, NEW j \in Jobs, LeaveToTick(j), UNCHANGED <<queue, running>>
  PROVE  /\ orphan' \in [Jobs -> JobType] /\ overtaken' \subseteq Jobs
         /\ \A i \in Jobs \ {j} :
               orphan'[i] = orphan[i] /\ (i \in overtaken' <=> i \in overtaken)
         /\ Listed' = Listed
         /\ IF j \in Listed THEN orphan'[j].there /\ j \in overtaken'
                            ELSE orphan'[j] = orphan[j] /\ (j \in overtaken' <=> j \in overtaken)
<1>1. Listed' = Listed
  BY DEF Listed
<1>2. Held(j) /\ TypeOK
  BY DEF IInv, JobInv
<1>3. CASE j \in Listed
  BY <1>1, <1>2, <1>3 DEF TypeOK, LeaveToTick, Held, Object
<1>4. CASE j \notin Listed
  BY <1>1, <1>2, <1>4 DEF TypeOK, LeaveToTick
<1>. QED  BY <1>1, <1>3, <1>4

-----------------------------------------------------------------------------
(* Operations on jobs.                                                       *)

LEMMA Known == ASSUME IInv, NEW j \in Jobs
  PROVE  /\ TypeOK /\ JobInv(j)
         /\ jobs[j] \in JobType /\ now \in Nat /\ Interval[j] \in Nat \ {0}
         /\ MaxFailures \in Nat \ {0} /\ MaxTime \in Nat /\ MaxOps \in Nat
         /\ streak[j] \in Nat /\ ended[j].at \in Nat
BY CronAssumption DEF IInv, TypeOK

LEMMA AddSound ==
  ASSUME IInv, NEW j \in Jobs, Add(j)
  PROVE  IInv'
<1>1. /\ TypeOK /\ JobInv(j) /\ up /\ ops' \in 0..MaxOps
      /\ UNCHANGED <<now, up, queue, running, ended>>
  BY Known, CronAssumption DEF Add, Operation, TypeOK
<1> DEFINE job == AddedJob(j)
<1>2. /\ job \in JobType /\ job.there /\ job.enabled
      /\ jobs[j].there => job.due = jobs[j].due
      /\ job.fails \in Nat
  <2>1. jobs[j].due \in Nat /\ jobs[j].fails \in Nat /\ now \in Nat
    BY Known DEF JobType
  <2>. QED  BY <2>1, JobTypes DEF AddedJob
<1>3. /\ jobs' = [jobs EXCEPT ![j] = job] /\ SaveJob(j, job) /\ LeaveToTick(j)
      /\ streak' = [streak EXCEPT ![j] = 0]
  BY DEF Add
<1> HIDE DEF job
<1>4. /\ jobs' \in [Jobs -> JobType] /\ jobs'[j] = job /\ \A i \in Jobs \ {j} : jobs'[i] = jobs[i]
      /\ streak' \in [Jobs -> Nat] /\ streak'[j] = 0
      /\ \A i \in Jobs \ {j} : streak'[i] = streak[i]
  BY <1>1, <1>2, <1>3 DEF TypeOK
<1>5. /\ rows' \in [Jobs -> JobType] /\ unsaved' \subseteq Jobs
      /\ \A i \in Jobs \ {j} : rows'[i] = rows[i] /\ (i \in unsaved' <=> i \in unsaved)
      /\ j \in unsaved' \/ rows'[j] = jobs'[j]
  BY <1>1, <1>2, <1>3, Saved
<1>6. /\ orphan' \in [Jobs -> JobType] /\ overtaken' \subseteq Jobs
      /\ \A i \in Jobs \ {j} :
            orphan'[i] = orphan[i] /\ (i \in overtaken' <=> i \in overtaken)
      /\ Listed' = Listed
      /\ IF j \in Listed THEN orphan'[j].there /\ j \in overtaken'
                         ELSE orphan'[j] = orphan[j] /\ (j \in overtaken' <=> j \in overtaken)
  BY <1>1, <1>3, Left
<1>7. TypeOK'
  BY <1>1, <1>4, <1>5, <1>6 DEF TypeOK
<1>8. Only(j)
  BY <1>1, <1>4, <1>5, <1>6 DEF Only
<1>9. Held(j)' /\ Fresh(j)'
  BY <1>1, <1>2, <1>4, <1>6 DEF JobInv, Held, Fresh, Object
<1>10. Failing(j)'
  BY <1>2, <1>4, <1>6, Known DEF Failing
<1>11. Spaced(j)'
  BY <1>1, <1>2, <1>4, <1>6 DEF JobInv, Spaced
<1>. QED  BY <1>5, <1>7, <1>8, <1>9, <1>10, <1>11, Locality DEF JobInv

LEMMA RemoveSound ==
  ASSUME IInv, NEW j \in Jobs, Remove(j)
  PROVE  IInv'
<1>1. /\ TypeOK /\ JobInv(j) /\ up /\ ops' \in 0..MaxOps
      /\ UNCHANGED <<now, up, queue, running>>
  BY Known, CronAssumption DEF Remove, Operation, TypeOK
<1>2. /\ jobs' = [jobs EXCEPT ![j] = NoJob] /\ DeleteRow(j) /\ LeaveToTick(j)
      /\ ended' = [ended EXCEPT ![j] = Never] /\ streak' = [streak EXCEPT ![j] = 0]
  BY DEF Remove
<1>3. Never \in [past : BOOLEAN, at : 0..MaxTime] /\ Never.past = FALSE
  BY CronAssumption DEF Never
<1>4. /\ jobs' \in [Jobs -> JobType] /\ jobs'[j] = NoJob /\ \A i \in Jobs \ {j} : jobs'[i] = jobs[i]
      /\ streak' \in [Jobs -> Nat] /\ streak'[j] = 0
      /\ \A i \in Jobs \ {j} : streak'[i] = streak[i]
      /\ ended' \in [Jobs -> [past : BOOLEAN, at : 0..MaxTime]] /\ ended'[j] = Never
      /\ \A i \in Jobs \ {j} : ended'[i] = ended[i]
  BY <1>1, <1>2, <1>3, JobTypes DEF TypeOK
<1>5. /\ rows' \in [Jobs -> JobType] /\ unsaved' \subseteq Jobs
      /\ \A i \in Jobs \ {j} : rows'[i] = rows[i] /\ (i \in unsaved' <=> i \in unsaved)
      /\ j \in unsaved' \/ rows'[j] = jobs'[j]
  <2>1. rows \in [Jobs -> JobType] /\ unsaved \subseteq Jobs /\ NoJob \in JobType
    BY <1>1, JobTypes DEF TypeOK
  <2>2. CASE rows' = [rows EXCEPT ![j] = NoJob] /\ unsaved' = unsaved \ {j}
    BY <1>4, <2>1, <2>2
  <2>3. CASE UNCHANGED rows /\ unsaved' = unsaved \cup {j}
    BY <2>1, <2>3
  <2>. QED  BY <1>2, <2>2, <2>3 DEF DeleteRow
<1>6. /\ orphan' \in [Jobs -> JobType] /\ overtaken' \subseteq Jobs
      /\ \A i \in Jobs \ {j} :
            orphan'[i] = orphan[i] /\ (i \in overtaken' <=> i \in overtaken)
      /\ Listed' = Listed
      /\ IF j \in Listed THEN orphan'[j].there /\ j \in overtaken'
                         ELSE orphan'[j] = orphan[j] /\ (j \in overtaken' <=> j \in overtaken)
  BY <1>1, <1>2, Left
<1>7. TypeOK'
  BY <1>1, <1>4, <1>5, <1>6 DEF TypeOK
<1>8. Only(j)
  BY <1>1, <1>4, <1>5, <1>6 DEF Only
<1>9. Held(j)' /\ Fresh(j)'
  BY <1>1, <1>4, <1>6, JobTypes DEF JobInv, Held, Fresh, Object
<1>10. Failing(j)'
  BY <1>4, <1>6, JobTypes, Known DEF Failing
<1>11. Spaced(j)'
  BY <1>3, <1>4 DEF Spaced
<1>. QED  BY <1>5, <1>7, <1>8, <1>9, <1>10, <1>11, Locality DEF JobInv

LEMMA EnableSound ==
  ASSUME IInv, NEW j \in Jobs, Enable(j)
  PROVE  IInv'
<1>1. /\ TypeOK /\ JobInv(j) /\ up /\ ops' \in 0..MaxOps /\ jobs[j].there
      /\ UNCHANGED <<now, up, queue, running, orphan, overtaken, ended>>
  BY Known, CronAssumption DEF Enable, Operation, TypeOK
<1> DEFINE job == NewJob(now + Interval[j], 0)
<1>2. /\ job \in JobType /\ job.there /\ job.enabled
      /\ job.due = now + Interval[j] /\ job.fails = 0
  <2>1. now + Interval[j] \in Nat /\ 0 \in Nat
    BY Known
  <2>. QED  BY <2>1, JobTypes
<1>3. /\ jobs' = [jobs EXCEPT ![j] = job] /\ SaveJob(j, job)
      /\ streak' = [streak EXCEPT ![j] = 0]
  BY DEF Enable
<1> HIDE DEF job
<1>4. /\ jobs' \in [Jobs -> JobType] /\ jobs'[j] = job /\ \A i \in Jobs \ {j} : jobs'[i] = jobs[i]
      /\ streak' \in [Jobs -> Nat] /\ streak'[j] = 0
      /\ \A i \in Jobs \ {j} : streak'[i] = streak[i]
  BY <1>1, <1>2, <1>3 DEF TypeOK
<1>5. /\ rows' \in [Jobs -> JobType] /\ unsaved' \subseteq Jobs
      /\ \A i \in Jobs \ {j} : rows'[i] = rows[i] /\ (i \in unsaved' <=> i \in unsaved)
      /\ j \in unsaved' \/ rows'[j] = jobs'[j]
  BY <1>1, <1>2, <1>3, Saved
<1>6. Listed' = Listed
  BY <1>1 DEF Listed
<1>7. TypeOK'
  BY <1>1, <1>4, <1>5, <1>6 DEF TypeOK
<1>8. Only(j)
  BY <1>1, <1>4, <1>5, <1>6 DEF Only
<1>9. Held(j)' /\ Fresh(j)'
  BY <1>1, <1>2, <1>4, <1>6 DEF JobInv, Held, Fresh, Object
<1>10. Failing(j)'
  BY <1>2, <1>4, Known DEF Failing
<1>11. Spaced(j)'
  BY <1>1, <1>2, <1>4, Known DEF JobInv, Spaced
<1>. QED  BY <1>5, <1>7, <1>8, <1>9, <1>10, <1>11, Locality DEF JobInv

LEMMA DisableSound ==
  ASSUME IInv, NEW j \in Jobs, Disable(j)
  PROVE  IInv'
<1>1. /\ TypeOK /\ JobInv(j) /\ up /\ ops' \in 0..MaxOps /\ jobs[j].there
      /\ UNCHANGED <<now, up, queue, running, orphan, overtaken, ended, streak>>
  BY Known, CronAssumption DEF Disable, Operation, TypeOK
<1> DEFINE job == [jobs[j] EXCEPT !.enabled = FALSE]
<1>2. /\ job \in JobType /\ job.there /\ ~job.enabled
      /\ job.due = jobs[j].due /\ job.fails = jobs[j].fails
  BY <1>1, Known DEF JobType
<1>3. jobs' = [jobs EXCEPT ![j] = job] /\ SaveJob(j, job)
  BY DEF Disable
<1> HIDE DEF job
<1>4. /\ jobs' \in [Jobs -> JobType] /\ jobs'[j] = job /\ \A i \in Jobs \ {j} : jobs'[i] = jobs[i]
  BY <1>1, <1>2, <1>3 DEF TypeOK
<1>5. /\ rows' \in [Jobs -> JobType] /\ unsaved' \subseteq Jobs
      /\ \A i \in Jobs \ {j} : rows'[i] = rows[i] /\ (i \in unsaved' <=> i \in unsaved)
      /\ j \in unsaved' \/ rows'[j] = jobs'[j]
  BY <1>1, <1>2, <1>3, <1>4, Saved
<1>6. Listed' = Listed
  BY <1>1 DEF Listed
<1>7. TypeOK'
  BY <1>1, <1>4, <1>5, <1>6 DEF TypeOK
<1>8. Only(j)
  BY <1>1, <1>4, <1>5, <1>6 DEF Only
<1>9. Held(j)' /\ Fresh(j)'
  BY <1>1, <1>2, <1>4, <1>6 DEF JobInv, Held, Fresh, Object
<1>10. Failing(j)'
  BY <1>1, <1>2, <1>4, <1>6 DEF JobInv, Failing
<1>11. Spaced(j)'
  BY <1>1, <1>2, <1>4 DEF JobInv, Spaced
<1>. QED  BY <1>5, <1>7, <1>8, <1>9, <1>10, <1>11, Locality DEF JobInv

-----------------------------------------------------------------------------
(* The tick.                                                                 *)

\* A step that changes the list only; a job gets on it by being due.
LEMMA ListSound ==
  ASSUME IInv, UNCHANGED <<now, up, jobs, rows, orphan, ops, unsaved, overtaken, ended, streak>>,
         up \/ Listed' = {}, queue' \subseteq Jobs,
         running' \in Jobs \cup {None}, running' \notin queue',
         \A j \in Jobs : j \in queue' => j \in queue \/ Due(j),
         \A j \in Jobs : running' = j => j \in queue \/ running = j,
         Listed \subseteq Listed'
  PROVE  IInv'
<1>1. TypeOK' /\ RowsAgree'
  BY DEF IInv, TypeOK, RowsAgree
<1>2. ASSUME NEW j \in Jobs PROVE JobInv(j)'
  <2>1. JobInv(j) /\ TypeOK /\ jobs[j] \in JobType /\ now \in Nat
    BY Known
  <2>2. (j \in Listed)' => j \in Listed \/ Due(j)
    BY DEF Listed
  <2>3. j \notin Listed => ~orphan[j].there
    BY <2>1 DEF TypeOK
  <2>4. Held(j)'
    BY <2>1, <2>2, <2>3 DEF JobInv, Held, Object, Due
  <2>5. Fresh(j)'
    BY <2>1 DEF JobInv, Fresh
  <2>6. Failing(j)'
    BY <2>1, <2>2 DEF JobInv, Failing, Due
  <2>7. Spaced(j)'
    <3>1. jobs[j].due \in Nat /\ ended[j].at \in Nat /\ Interval[j] \in Nat
      BY <2>1, Known DEF JobType
    <3>. QED  BY <2>1, <3>1 DEF JobInv, Spaced, Due
  <2>. QED  BY <2>4, <2>5, <2>6, <2>7 DEF JobInv
<1>. QED  BY <1>1, <1>2 DEF IInv

LEMMA TickSound == ASSUME IInv, Tick PROVE IInv'
<1>1. running = None /\ None \notin Jobs
  BY CronAssumption DEF Tick, Listed, IInv, TypeOK
<1>2. /\ UNCHANGED <<now, up, jobs, rows, running, orphan, ops,
                     unsaved, overtaken, ended, streak>>
      /\ up /\ Listed = {} /\ queue' = DueJobs
  BY DEF Tick
<1>. QED  BY <1>1, <1>2, ListSound DEF DueJobs

LEMMA BeginSound ==
  ASSUME IInv, NEW j \in Jobs, Begin(j)
  PROVE  /\ IInv'
         /\ j \notin overtaken /\ ended[j].past => now >= ended[j].at + Interval[j]
<1>1. /\ running = None /\ j \in queue /\ queue' = queue \ {j} /\ running' = j
      /\ UNCHANGED <<now, up, jobs, rows, orphan, ops, unsaved, overtaken, ended, streak>>
  BY DEF Begin
<1>2. Listed' = Listed
  BY <1>1, CronAssumption DEF Listed
<1>3. TypeOK /\ JobInv(j)
  BY Known
<1>4. up
  BY <1>1, <1>3 DEF JobInv, Fresh, Listed
<1>5. IInv'
  BY <1>1, <1>2, <1>3, <1>4, ListSound DEF TypeOK
<1>. QED  BY <1>1, <1>3, <1>5 DEF JobInv, Spaced

LEMMA ExecutedJob ==
  ASSUME IInv, NEW j \in Jobs, NEW ok \in BOOLEAN, running = j
  PROVE  LET job == Executed(j, ok) IN
         /\ job \in JobType /\ job.there /\ job.due = now + Interval[j]
         /\ job.fails = IF ok THEN 0 ELSE Object(j).fails + 1
         /\ job.enabled => ok \/ ~TooManyFailures(Object(j).fails + 1)
<1> DEFINE fails == IF ok THEN 0 ELSE Object(j).fails + 1
           on == Object(j).enabled /\ (ok \/ ~TooManyFailures(fails))
<1>1. Object(j) \in JobType /\ Object(j).there
  BY Known DEF Object, JobInv, Held, Listed, IInv, TypeOK
<1>2. fails \in Nat /\ now + Interval[j] \in Nat
  BY <1>1, Known DEF JobType
<1>3. on \in BOOLEAN
  OBVIOUS
<1>4. Executed(j, ok) = [Object(j) EXCEPT !.fails = fails, !.due = now + Interval[j],
                                          !.enabled = on]
  BY DEF Executed, NextRun
<1>5. on => ok \/ ~TooManyFailures(Object(j).fails + 1)
  OBVIOUS
<1>6. fails = IF ok THEN 0 ELSE Object(j).fails + 1
  OBVIOUS
<1> HIDE DEF fails, on
<1>. QED  BY <1>1, <1>2, <1>3, <1>4, <1>5, <1>6 DEF JobType

LEMMA FinishSound ==
  ASSUME IInv, NEW j \in Jobs, NEW ok \in BOOLEAN, Finish(j, ok)
  PROVE  IInv'
<1>1. /\ TypeOK /\ JobInv(j) /\ running = j /\ running' = None
      /\ UNCHANGED <<now, up, queue, ops, overtaken>>
  BY Known DEF Finish
<1>2. PICK job : job = Executed(j, ok)
  OBVIOUS
<1>3. /\ job \in JobType /\ job.there /\ job.due = now + Interval[j]
      /\ job.fails = IF ok THEN 0 ELSE Object(j).fails + 1
      /\ job.enabled => ok \/ ~TooManyFailures(Object(j).fails + 1)
  BY <1>1, <1>2, ExecutedJob
<1>4. /\ IF orphan[j].there THEN UNCHANGED jobs ELSE jobs' = [jobs EXCEPT ![j] = job]
      /\ orphan' = [orphan EXCEPT ![j] = NoJob] /\ SaveJob(j, job)
  BY <1>2 DEF Finish, OffTheList
<1>5. /\ jobs' \in [Jobs -> JobType] /\ \A i \in Jobs \ {j} : jobs'[i] = jobs[i]
      /\ IF orphan[j].there THEN jobs'[j] = jobs[j] ELSE jobs'[j] = job
      /\ orphan' \in [Jobs -> JobType] /\ orphan'[j] = NoJob
      /\ \A i \in Jobs \ {j} : orphan'[i] = orphan[i]
  BY <1>1, <1>3, <1>4, JobTypes DEF TypeOK
<1>6. /\ rows' \in [Jobs -> JobType] /\ unsaved' \subseteq Jobs
      /\ \A i \in Jobs \ {j} : rows'[i] = rows[i] /\ (i \in unsaved' <=> i \in unsaved)
      /\ j \in unsaved' \/ rows'[j] = jobs'[j]
  BY <1>1, <1>3, <1>4, Saved
<1>7. /\ ended' \in [Jobs -> [past : BOOLEAN, at : 0..MaxTime]]
      /\ ended'[j].past /\ ended'[j].at = now
      /\ \A i \in Jobs \ {j} : ended'[i] = ended[i]
  <2> DEFINE e == [past |-> TRUE, at |-> now]
  <2>1. e \in [past : BOOLEAN, at : 0..MaxTime] /\ e.past /\ e.at = now
    BY <1>1 DEF TypeOK
  <2>2. ended' = [ended EXCEPT ![j] = e]
    BY DEF Finish
  <2> HIDE DEF e
  <2>. QED  BY <1>1, <2>1, <2>2 DEF TypeOK
<1>8. /\ streak' \in [Jobs -> Nat] /\ streak'[j] = IF ok THEN 0 ELSE streak[j] + 1
      /\ \A i \in Jobs \ {j} : streak'[i] = streak[i]
  BY <1>1 DEF Finish, TypeOK
<1>9. Listed' = Listed \ {j} /\ j \in Listed /\ None \notin Jobs
  BY <1>1, CronAssumption DEF Listed, TypeOK
<1>10. TypeOK'
  BY <1>1, <1>5, <1>6, <1>7, <1>8, <1>9, JobTypes DEF TypeOK
<1>11. Only(j)
  BY <1>1, <1>5, <1>6, <1>7, <1>8, <1>9 DEF Only
<1>12. up /\ j \notin queue /\ (j \notin overtaken => ~orphan[j].there)
  BY <1>1, <1>9 DEF JobInv, Fresh, Held, TypeOK
<1>13. Held(j)' /\ Fresh(j)'
  BY <1>1, <1>3, <1>5, <1>9, <1>12, JobTypes DEF JobInv, Held, Fresh
<1>14. Failing(j)'
  <2>. SUFFICES ASSUME j \notin overtaken PROVE Failing(j)'
    BY <1>1 DEF Failing
  <2>1. jobs'[j] = job /\ Object(j) = jobs[j]
    BY <1>5, <1>12 DEF Object
  <2>2. /\ streak[j] <= jobs[j].fails /\ streak[j] < MaxFailures
        /\ streak[j] \in Nat /\ jobs[j].fails \in Nat /\ MaxFailures \in Nat \ {0}
    BY <1>1, <1>9, Known DEF JobInv, Failing, JobType
  <2>3. streak'[j] <= jobs'[j].fails /\ streak'[j] <= MaxFailures
    BY <1>3, <1>8, <2>1, <2>2
  <2>4. job.enabled => streak'[j] < MaxFailures
    BY <1>3, <1>8, <2>1, <2>2 DEF TooManyFailures
  <2>. QED  BY <1>9, <2>1, <2>3, <2>4 DEF Failing
<1>15. Spaced(j)'
  BY <1>1, <1>3, <1>5, <1>7, <1>12, Known DEF Spaced
<1>. QED  BY <1>6, <1>10, <1>11, <1>13, <1>14, <1>15, Locality DEF JobInv

-----------------------------------------------------------------------------
(* The worker.                                                               *)

LEMMA NeverPast == Never \in [past : BOOLEAN, at : 0..MaxTime] /\ Never.past = FALSE
BY CronAssumption DEF Never

LEMMA ClockSound == ASSUME IInv, Clock PROVE IInv'
<1>1. /\ now' = now + 1 /\ now' \in 0..MaxTime
      /\ UNCHANGED <<up, jobs, rows, queue, running, orphan, ops,
                     unsaved, overtaken, ended, streak>>
  BY CronAssumption DEF Clock, IInv, TypeOK
<1>2. TypeOK' /\ RowsAgree' /\ Listed' = Listed
  BY <1>1 DEF IInv, TypeOK, RowsAgree, Listed
<1>3. ASSUME NEW j \in Jobs PROVE JobInv(j)'
  <2>1. JobInv(j) /\ now \in Nat /\ ended[j].at \in Nat /\ Interval[j] \in Nat
    BY Known
  <2>. QED  BY <1>1, <1>2, <2>1 DEF JobInv, Held, Fresh, Failing, Spaced, Object
<1>. QED  BY <1>2, <1>3 DEF IInv

LEMMA StartSound == ASSUME IInv, Start PROVE IInv'
<1>1. /\ ~up /\ up' = TRUE
      /\ UNCHANGED <<now, queue, running, orphan, ops, overtaken, ended, streak>>
  BY DEF Start
<1> DEFINE job == NewJob(now, 0)
<1>2. job \in JobType /\ job.there /\ job.enabled /\ job.fails = 0
  BY JobTypes, CronAssumption DEF IInv, TypeOK
<1>3. /\ jobs' = [j \in Jobs |-> IF j \in Defaults THEN job ELSE NoJob]
      /\ rows' = [j \in Jobs |-> IF j \in Defaults THEN job ELSE rows[j]]
      /\ unsaved' = Jobs \ Defaults
  BY DEF Start
<1> HIDE DEF job
<1>4. TypeOK'
  BY <1>1, <1>2, <1>3, JobTypes DEF IInv, TypeOK, Listed
<1>5. RowsAgree'
  BY <1>3 DEF RowsAgree
<1>6. ASSUME NEW j \in Jobs PROVE JobInv(j)'
  <2>1. j \notin Listed /\ ended[j] = Never /\ streak[j] = 0 /\ (j \notin Listed)'
        /\ (orphan[j].there => j \in overtaken)
    BY <1>1, Known DEF JobInv, Fresh, Held, Listed
  <2>2. jobs'[j] = job \/ jobs'[j] = NoJob
    BY <1>3
  <2>. QED  BY <1>1, <1>2, <2>1, <2>2, JobTypes, NeverPast, Known
            DEF JobInv, Held, Fresh, Failing, Spaced
<1>. QED  BY <1>4, <1>5, <1>6 DEF IInv

LEMMA CrashSound == ASSUME IInv, Crash PROVE IInv'
<1>1. /\ up' = FALSE /\ queue' = {} /\ running' = None /\ overtaken' = {}
      /\ jobs' = [j \in Jobs |-> NoJob] /\ orphan' = [j \in Jobs |-> NoJob]
      /\ ended' = [j \in Jobs |-> Never] /\ streak' = [j \in Jobs |-> 0]
      /\ UNCHANGED <<now, rows, unsaved>> /\ ops' \in 0..MaxOps
  BY CronAssumption DEF Crash, IInv, TypeOK
<1>2. TypeOK' /\ RowsAgree'
  BY <1>1, JobTypes, NeverPast DEF IInv, TypeOK, RowsAgree
<1>3. ASSUME NEW j \in Jobs PROVE JobInv(j)'
  <2>1. (j \notin Listed)'
    BY <1>1, CronAssumption DEF Listed
  <2>. QED  BY <1>1, <2>1, JobTypes, NeverPast, Known DEF JobInv, Held, Fresh, Failing, Spaced
<1>. QED  BY <1>2, <1>3 DEF IInv

LEMMA Initially == Init => IInv
<1>. SUFFICES ASSUME Init PROVE IInv
  OBVIOUS
<1>1. TypeOK /\ RowsAgree
  <2>1. /\ jobs \in [Jobs -> JobType] /\ rows \in [Jobs -> JobType]
        /\ orphan \in [Jobs -> JobType] /\ \A j \in Jobs : ~orphan[j].there
        /\ ended \in [Jobs -> [past : BOOLEAN, at : 0..MaxTime]]
    BY JobTypes, NeverPast DEF Init
  <2>2. /\ now \in 0..MaxTime /\ ops \in 0..MaxOps /\ streak \in [Jobs -> Nat]
        /\ queue \subseteq Jobs /\ running \in Jobs \cup {None} /\ running \notin queue
    BY CronAssumption DEF Init
  <2>. QED  BY <2>1, <2>2 DEF Init, TypeOK, RowsAgree
<1>2. ASSUME NEW j \in Jobs PROVE JobInv(j)
  <2>1. j \notin Listed
    BY CronAssumption DEF Init, Listed
  <2>. QED  BY <2>1, CronAssumption, JobTypes, NeverPast
            DEF Init, JobInv, Held, Fresh, Failing, Spaced
<1>. QED  BY <1>1, <1>2 DEF IInv

\* A step of the loop that begins a job.
BeginsSpaced ==
    \A j \in Jobs \ overtaken :
        running # j /\ running' = j /\ ended[j].past => now >= ended[j].at + Interval[j]

LEMMA Stepwise == IInv /\ [Next]_vars => IInv' /\ BeginsSpaced
<1>1. ASSUME IInv, UNCHANGED vars PROVE IInv' /\ BeginsSpaced
  <2>1. TypeOK' /\ RowsAgree' /\ Listed' = Listed /\ BeginsSpaced
    BY <1>1 DEF vars, IInv, TypeOK, RowsAgree, Listed, BeginsSpaced
  <2>2. \A j \in Jobs : JobInv(j) => JobInv(j)'
    BY <1>1, <2>1 DEF vars, JobInv, Held, Fresh, Failing, Spaced, Object
  <2>. QED  BY <1>1, <2>1, <2>2 DEF IInv
<1>2. ASSUME IInv, NEW j \in Jobs, Begin(j) PROVE IInv' /\ BeginsSpaced
  <2>1. running' = j
    BY <1>2 DEF Begin
  <2>. QED  BY <1>2, <2>1, BeginSound DEF BeginsSpaced
<1>3. ASSUME IInv,
             \/ \E j \in Jobs : Add(j) \/ Remove(j) \/ Enable(j) \/ Disable(j)
             \/ \E j \in Jobs, ok \in BOOLEAN : Finish(j, ok)
             \/ Tick \/ Clock \/ Start \/ Crash
      PROVE  IInv' /\ BeginsSpaced
  <2>1. IInv'
    BY <1>3, AddSound, RemoveSound, EnableSound, DisableSound, FinishSound, TickSound,
       ClockSound, StartSound, CrashSound
  <2>2. running' = running \/ running' = None
    BY <1>3 DEF Add, Remove, Enable, Disable, Operation, Finish, Tick, Clock, Start, Crash
  <2>. QED  BY <2>1, <2>2, CronAssumption DEF BeginsSpaced
<1>. QED  BY <1>1, <1>2, <1>3 DEF Next, Loop

LEMMA Inductive == Spec => []IInv
<1>1. IInv /\ [Next]_vars => IInv'
  BY Stepwise
<1>. QED  BY Initially, <1>1, PTL DEF Spec

\* Jobs, rows and lists keep their types; only an object of the list is kept for it.
THEOREM TypeCorrect == Spec => []TypeOK
<1>1. IInv => TypeOK
  BY DEF IInv
<1>. QED  BY Inductive, <1>1, PTL

\* check_and_run() always has an object to execute, whatever is removed or replaced
\* while it waits for a command.
THEOREM ObjectsStay == Spec => []TickHasObject
<1>1. IInv => TickHasObject
  BY CronAssumption DEF IInv, TypeOK, JobInv, Held, TickHasObject, Listed
<1>. QED  BY Inductive, <1>1, PTL

\* The rows of the table agree with the jobs of the worker, but for the named ways out.
THEOREM TableAgrees == Spec => []RowsAgree
<1>1. IInv => RowsAgree
  BY DEF IInv
<1>. QED  BY Inductive, <1>1, PTL

\* execute_job() disables a job in time: it never fails more than max_failures times in
\* a row, whatever is done to jobs while they wait on the list.
THEOREM FailuresStop == Spec => []FailuresEnd
<1>1. IInv => FailuresEnd
  BY DEF IInv, JobInv, Failing, FailuresEnd
<1>. QED  BY Inductive, <1>1, PTL

\* No job is begun before its interval has passed since it ended.
THEOREM RunsAreSpaced == Spec => SpacedOut
<1>1. IInv /\ [Next]_vars =>
        [\A j \in Jobs \ overtaken :
            running # j /\ running' = j /\ ended[j].past
               => now >= ended[j].at + Interval[j]]_vars
  BY Stepwise DEF BeginsSpaced
<1>. QED  BY Inductive, <1>1, PTL DEF Spec, SpacedOut

=============================================================================
