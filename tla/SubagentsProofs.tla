-------------------------- MODULE SubagentsProofs --------------------------
(* What Subagents promises for any number of tasks and rounds, on both kinds *)
(* of event loop and under both behaviours of wait_for().                    *)
EXTENDS Subagents, TLAPS

-----------------------------------------------------------------------------
(* The inductive invariant says of one task what all steps preserve.         *)

Places == Live \cup {"unborn", "done", "lost"}

\* A round may begin here.
Ahead == {"unborn", "scheduled", "unstarted", "asleep", "round"}

Counted(t) == pc[t] \in Ahead => iter[t] < MaxIterations

\* A task has a row from the moment it is delegated.
Stored(t) == row[t] \in Record <=> pc[t] # "unborn"

Unborn(t) == pc[t] = "unborn" => obj[t] = Fresh

Registered(t) ==
    /\ t \in active => row[t] = obj[t] /\ pc[t] # "unborn"
    /\ t \in active => pc[t] \in Live \/ t \in closing
    /\ pc[t] \in Live => t \in active \cup revoked

\* While the coroutine lives, nobody has called the task verified, completed or
\* timed out, and nobody but cancel() has called it failed.
Open(r) == ~r.verified /\ r.status \in {"pending", "running", "failed"}
Unended(t) ==
    pc[t] \in Live =>
        /\ Open(obj[t]) /\ Open(row[t])
        /\ obj[t].status = "failed" => t \in revoked

Honest(t) ==
    row[t] \in Record /\ row[t].verified =>
        /\ row[t].result = "answer"
        /\ row[t].status = "completed" \/ (row[t].status = "failed" /\ t \in revoked)

Full(t) ==
    row[t] \in Record /\ row[t].status = "completed" /\ row[t].result = "none" =>
        host = "run" \/ t \in closing

Sound(t) ==
    /\ Counted(t) /\ Stored(t) /\ Registered(t) /\ Unborn(t)
    /\ Unended(t) /\ Honest(t) /\ Full(t)

IInv == TypeOK /\ \A t \in Tasks : Sound(t)

LEMMA NoneIsNoRecord == None \notin Record
<1>. SUFFICES ASSUME None \in Record PROVE FALSE
  OBVIOUS
<1>1. None.status \in Statuses
  BY DEF Record
<1>. QED  BY <1>1 DEF None, Statuses

-----------------------------------------------------------------------------
(* A step of one task leaves the others as they are.                         *)

Only(t) ==
    /\ host' = host /\ eager' = eager
    /\ \A u \in Tasks \ {t} :
          /\ pc'[u] = pc[u] /\ iter'[u] = iter[u] /\ obj'[u] = obj[u] /\ row'[u] = row[u]
          /\ u \in active' <=> u \in active
          /\ u \in closing' <=> u \in closing
          /\ u \in revoked' <=> u \in revoked

LEMMA Locality ==
  ASSUME IInv, NEW t \in Tasks, TypeOK', Only(t), Sound(t)'
  PROVE  IInv'
<1>1. ASSUME NEW u \in Tasks, u # t PROVE Sound(u)'
  <2>1. Sound(u)
    BY DEF IInv
  <2>2. /\ host' = host
        /\ pc'[u] = pc[u] /\ iter'[u] = iter[u] /\ obj'[u] = obj[u] /\ row'[u] = row[u]
        /\ u \in active' <=> u \in active
        /\ u \in closing' <=> u \in closing
        /\ u \in revoked' <=> u \in revoked
    BY <1>1 DEF Only
  <2>3. Counted(u)' /\ Stored(u)' /\ Unborn(u)' /\ Full(u)'
    BY <2>1, <2>2 DEF Sound, Counted, Stored, Unborn, Full
  <2>4. Registered(u)' /\ Unended(u)' /\ Honest(u)'
    BY <2>1, <2>2 DEF Sound, Registered, Unended, Open, Honest
  <2>. QED  BY <2>3, <2>4 DEF Sound
<1>. QED  BY <1>1 DEF IInv

(* The end of a task: what the finally clause leaves.                        *)
LEMMA Concluding ==
  ASSUME TypeOK, NEW t \in Tasks, NEW r \in Record, Conclude(t, r)
  PROVE  /\ obj' \in [Tasks -> Record] /\ row' \in [Tasks -> Record \cup {None}]
         /\ pc' \in [Tasks -> Places] /\ active' \subseteq Tasks
         /\ obj'[t] = row'[t] /\ row'[t] \in Record
         /\ row'[t].result = r.result /\ row'[t].verified = r.verified
         /\ row'[t].status = Outcome(r.status)
         /\ pc'[t] = "done" /\ t \notin active'
         /\ \A u \in Tasks \ {t} :
              /\ pc'[u] = pc[u] /\ obj'[u] = obj[u] /\ row'[u] = row[u]
              /\ u \in active' <=> u \in active
<1> DEFINE ended == [r EXCEPT !.status = Outcome(r.status)]
<1>1. Outcome(r.status) \in Statuses
  BY DEF Outcome, Record, Statuses
<1>2. ended \in Record /\ ended.status = Outcome(r.status)
      /\ ended.result = r.result /\ ended.verified = r.verified
  BY <1>1 DEF Record
<1>3. /\ obj' = [obj EXCEPT ![t] = ended] /\ row' = [row EXCEPT ![t] = ended]
      /\ active' = active \ {t} /\ pc' = [pc EXCEPT ![t] = "done"]
  BY DEF Conclude, SaveTask, Deactivate
<1> HIDE DEF ended
<1>. QED  BY <1>2, <1>3 DEF TypeOK, Places

(* A task that ends in a record that is sound by itself is sound.            *)
LEMMA Ending ==
  ASSUME IInv, NEW t \in Tasks, NEW r \in Record, Conclude(t, r),
         pc[t] \in Live, iter' \in [Tasks -> 0..MaxIterations],
         \A u \in Tasks \ {t} : iter'[u] = iter[u],
         UNCHANGED <<host, eager, closing, revoked>>,
         r.verified => r.result = "answer" /\ r.status # "timeout",
         r.verified /\ r.status = "failed" => t \in revoked,
         r.result # "none" \/ r.status \in {"timeout", "failed"} \/ t \in closing
  PROVE  IInv' /\ row[t].status # "completed"
<1>1. TypeOK /\ Sound(t)
  BY DEF IInv
<1>2. /\ obj' \in [Tasks -> Record] /\ row' \in [Tasks -> Record \cup {None}]
      /\ pc' \in [Tasks -> Places] /\ active' \subseteq Tasks
      /\ obj'[t] = row'[t] /\ row'[t] \in Record
      /\ row'[t].result = r.result /\ row'[t].verified = r.verified
      /\ row'[t].status = Outcome(r.status)
      /\ pc'[t] = "done" /\ t \notin active'
      /\ \A u \in Tasks \ {t} :
           /\ pc'[u] = pc[u] /\ obj'[u] = obj[u] /\ row'[u] = row[u]
           /\ u \in active' <=> u \in active
  BY <1>1, Concluding
<1>3. TypeOK'
  BY <1>1, <1>2 DEF TypeOK, Places
<1>4. Only(t)
  BY <1>2 DEF Only
<1>5. /\ Counted(t)' /\ Stored(t)' /\ Registered(t)'
      /\ Unborn(t)' /\ Unended(t)'
  BY <1>2 DEF Counted, Ahead, Stored, Registered, Unborn, Unended, Live, Waits
<1>6. Honest(t)'
  BY <1>2 DEF Honest, Outcome
<1>7. Full(t)'
  BY <1>2 DEF Full, Outcome
<1>8. IInv'
  BY <1>3, <1>4, <1>5, <1>6, <1>7, Locality DEF Sound
<1>9. row[t].status # "completed"
  BY <1>1 DEF Sound, Unended, Open
<1>. QED  BY <1>8, <1>9

(* The coroutine goes to another place and nothing else is changed.          *)
LEMMA Waiting ==
  ASSUME IInv, NEW t \in Tasks, NEW place \in Live, WaitAt(t, place),
         pc[t] \in Live, iter' \in [Tasks -> 0..MaxIterations],
         \A u \in Tasks \ {t} : iter'[u] = iter[u],
         place \in Ahead => iter'[t] < MaxIterations,
         UNCHANGED <<host, eager, closing, revoked>>
  PROVE  IInv' /\ row' = row
<1>1. TypeOK /\ Sound(t)
  BY DEF IInv
<1>2. /\ pc' \in [Tasks -> Places] /\ pc'[t] = place
      /\ \A u \in Tasks \ {t} : pc'[u] = pc[u]
      /\ UNCHANGED <<obj, row, active>>
  BY <1>1 DEF TypeOK, WaitAt, Places
<1>3. TypeOK'
  BY <1>1, <1>2 DEF TypeOK, Places
<1>4. Only(t)
  BY <1>2 DEF Only
<1>5. place # "unborn" /\ pc[t] # "unborn"
  BY DEF Live, Waits
<1>6. Sound(t)'
  BY <1>1, <1>2, <1>5 DEF Sound, Counted, Stored, Registered, Unborn, Unended, Open, Honest, Full
<1>. QED  BY <1>2, <1>3, <1>4, <1>6, Locality

-----------------------------------------------------------------------------
(* The steps of a coroutine.                                                 *)

Keeps == \A t \in Tasks : row[t] # None /\ row[t].status = "completed" => row'[t] = row[t]

LEMMA KeepsElsewhere ==
  ASSUME NEW t \in Tasks, \A u \in Tasks \ {t} : row'[u] = row[u],
         row[t].status # "completed" \/ row'[t] = row[t]
  PROVE  Keeps
BY DEF Keeps

LEMMA EndingKeeps ==
  ASSUME TypeOK, NEW t \in Tasks, NEW r, Conclude(t, r), row[t].status # "completed"
  PROVE  Keeps
<1>1. \A u \in Tasks \ {t} : row'[u] = row[u]
  BY DEF Conclude, SaveTask, TypeOK
<1>. QED  BY <1>1, KeepsElsewhere

\* What a round, a wake-up, a timeout or a cancellation leaves alone.
Step(t) ==
    /\ pc[t] \in Live
    /\ iter' \in [Tasks -> 0..MaxIterations]
    /\ \A u \in Tasks \ {t} : iter'[u] = iter[u]
    /\ UNCHANGED <<host, eager, closing, revoked>>

LEMMA Delivering ==
  ASSUME IInv, NEW t \in Tasks, Step(t), NEW result \in {"answer", "error", "empty"},
         Deliver(t, result)
  PROVE  IInv' /\ Keeps
<1> DEFINE r == [obj[t] EXCEPT !.result = result, !.verified = Passes(result)]
<1>1. TypeOK /\ Sound(t)
  BY DEF IInv
<1>2. obj[t] \in Record /\ Passes(result) \in BOOLEAN
  BY <1>1 DEF TypeOK, Passes
<1>3. r \in Record /\ r.result = result /\ r.status = obj[t].status
      /\ r.verified = Passes(result)
  BY <1>2 DEF Record, Results
<1>4. /\ obj[t].status \in {"pending", "running", "failed"}
      /\ obj[t].status = "failed" => t \in revoked
  BY <1>1 DEF Sound, Unended, Open, Step
<1>5. Passes(result) => result = "answer"
  BY DEF Passes
<1>6. Conclude(t, r)
  BY DEF Deliver
<1> HIDE DEF r
<1>7. IInv' /\ row[t].status # "completed"
  BY <1>3, <1>4, <1>5, <1>6, Ending DEF Step
<1>. QED  BY <1>1, <1>6, <1>7, EndingKeeps

LEMMA Staying ==
  ASSUME IInv, NEW t \in Tasks, Step(t), NEW place \in Live, WaitAt(t, place),
         place \in Ahead => iter'[t] < MaxIterations
  PROVE  IInv' /\ Keeps
<1>1. IInv' /\ row' = row
  BY Waiting DEF Step
<1>. QED  BY <1>1 DEF Keeps

LEMMA Repeating ==
  ASSUME IInv, NEW t \in Tasks, Step(t), NEW place \in Live,
         NEW result \in {"answer", "error", "empty"}, Another(t, iter'[t], place, result)
  PROVE  IInv' /\ Keeps
BY Staying, Delivering DEF Another

LEMMA ToolsBack ==
  ASSUME IInv, NEW t \in Tasks, Step(t), AfterTools(t, iter'[t])
  PROVE  IInv' /\ Keeps
<1>1. "round" \in Live /\ "empty" \in {"answer", "error", "empty"}
  BY DEF Live
<1>2. CASE Another(t, iter'[t], "round", "empty")
  BY <1>1, <1>2, Repeating
<1>3. CASE \E result \in {"answer", "error"} : Deliver(t, result)
  BY <1>3, Delivering
<1>. QED  BY <1>2, <1>3 DEF AfterTools

LEMMA GivingUp ==
  ASSUME IInv, NEW t \in Tasks, Step(t), NEW r \in {Failed, TimedOut(t)}, Conclude(t, r)
  PROVE  IInv' /\ Keeps
<1>1. r \in Record /\ ~r.verified /\ r.status \in {"timeout", "failed"}
  <2>1. CASE r = Failed
    BY <2>1 DEF Failed, Record, Statuses, Results
  <2>2. CASE r = TimedOut(t)
    BY <2>2 DEF TimedOut, Record, Statuses, Results
  <2>. QED  BY <2>1, <2>2
<1>2. IInv' /\ row[t].status # "completed"
  BY <1>1, Ending DEF Step
<1>. QED  BY <1>2, EndingKeeps DEF IInv

LEMMA RoundSound ==
  ASSUME IInv, NEW t \in Tasks, Round(t)
  PROVE  IInv' /\ Keeps
<1>1. pc[t] = "round" /\ iter' = [iter EXCEPT ![t] = @ + 1]
      /\ UNCHANGED <<host, eager, closing, revoked>>
  BY DEF Round
<1>2. iter \in [Tasks -> 0..MaxIterations] /\ iter[t] < MaxIterations
  BY <1>1 DEF IInv, TypeOK, Sound, Counted, Ahead
<1>3. Step(t)
  BY <1>1, <1>2, ConstantsAssumption DEF Step, Live
<1>4. "asleep" \in Live /\ "tool" \in Live /\ "tool" \notin Ahead
  BY DEF Live, Waits, Ahead
<1>5. CASE Another(t, iter'[t], "asleep", "error") \/ Another(t, iter'[t], "asleep", "empty")
  BY <1>3, <1>4, <1>5, Repeating
<1>6. CASE AfterTools(t, iter'[t])
  BY <1>3, <1>6, ToolsBack
<1>7. CASE WaitAt(t, "tool")
  BY <1>3, <1>4, <1>7, Staying
<1>8. CASE Conclude(t, Failed)
  BY <1>3, <1>8, GivingUp
<1>. QED  BY <1>5, <1>6, <1>7, <1>8 DEF Round

LEMMA WakeSound ==
  ASSUME IInv, NEW t \in Tasks, Wake(t)
  PROVE  IInv' /\ Keeps
<1>1. pc[t] \in Waits /\ UNCHANGED <<host, eager, iter, closing, revoked>>
  BY DEF Wake
<1>2. Step(t)
  BY <1>1 DEF Step, Live, IInv, TypeOK
<1>3. CASE pc[t] = "tool"
  <2>1. AfterTools(t, iter'[t])
    BY <1>1, <1>3 DEF Wake
  <2>. QED  BY <1>2, <2>1, ToolsBack
<1>4. CASE pc[t] # "tool"
  <2>1. WaitAt(t, "round") /\ "round" \in Live
    BY <1>4 DEF Wake, Live
  <2>2. iter'[t] < MaxIterations
    BY <1>1, <1>4 DEF IInv, Sound, Counted, Ahead, Waits
  <2>. QED  BY <1>2, <2>1, <2>2, Staying
<1>. QED  BY <1>3, <1>4

LEMMA TimeoutSound ==
  ASSUME IInv, NEW t \in Tasks, Timeout(t)
  PROVE  IInv' /\ Keeps
<1>1. Step(t) /\ Conclude(t, TimedOut(t))
  BY DEF Timeout, Step, Live, IInv, TypeOK
<1>. QED  BY <1>1, GivingUp

LEMMA CancelledSound ==
  ASSUME IInv, NEW t \in Tasks, Cancelled(t)
  PROVE  IInv' /\ Keeps
<1>1. t \in closing /\ UNCHANGED <<host, eager, iter, closing, revoked>>
  BY DEF Cancelled
<1>2. TypeOK /\ Sound(t)
  BY DEF IInv
<1>3. CASE pc[t] \in Waits /\ Conclude(t, obj[t])
  <2>1. Step(t)
    BY <1>1, <1>2, <1>3 DEF Step, Live, TypeOK
  <2>2. /\ obj[t] \in Record /\ ~obj[t].verified
    BY <1>2, <2>1 DEF TypeOK, Sound, Unended, Open, Step
  <2>3. IInv' /\ row[t].status # "completed"
    BY <1>1, <1>3, <2>1, <2>2, Ending DEF Step
  <2>. QED  BY <1>2, <1>3, <2>3, EndingKeeps
<1>4. CASE pc[t] = "scheduled" /\ WaitAt(t, "done")
  <2>1. /\ pc' \in [Tasks -> Places] /\ pc'[t] = "done"
        /\ \A u \in Tasks \ {t} : pc'[u] = pc[u]
        /\ UNCHANGED <<obj, row, active>>
    BY <1>2, <1>4 DEF WaitAt, TypeOK, Places
  <2>2. TypeOK'
    BY <1>1, <1>2, <2>1 DEF TypeOK, Places
  <2>3. Only(t)
    BY <1>1, <2>1 DEF Only
  <2>4. Sound(t)'
    BY <1>1, <1>2, <1>4, <2>1
    DEF Sound, Counted, Ahead, Stored, Registered, Unborn, Unended, Live, Waits, Honest, Full
  <2>5. IInv'
    BY <2>2, <2>3, <2>4, Locality
  <2>. QED  BY <2>1, <2>5 DEF Keeps
<1>. QED  BY <1>3, <1>4 DEF Cancelled

-----------------------------------------------------------------------------
(* delegate(), the start of a coroutine and cancel().                        *)

LEMMA DelegateSound ==
  ASSUME IInv, NEW t \in Tasks, Delegate(t)
  PROVE  IInv' /\ Keeps
<1>1. TypeOK /\ Sound(t) /\ pc[t] = "unborn"
  BY DEF IInv, Delegate
<1>2. Fresh \in Record /\ Open(Fresh) /\ Fresh.status = "pending"
  BY DEF Fresh, Record, Statuses, Results, Open
<1>3. row[t] = None
  BY <1>1 DEF Sound, Stored, TypeOK
<1>4. /\ row' = [row EXCEPT ![t] = Fresh] /\ active' = active \cup {t}
      /\ pc' = [pc EXCEPT ![t] = "scheduled"]
      /\ UNCHANGED <<host, eager, iter, obj, closing, revoked>>
  BY DEF Delegate, SaveTask
<1>5. TypeOK'
  BY <1>1, <1>2, <1>4 DEF TypeOK, Live
<1>6. /\ pc'[t] = "scheduled" /\ row'[t] = Fresh
      /\ \A u \in Tasks \ {t} : pc'[u] = pc[u] /\ row'[u] = row[u]
  BY <1>1, <1>4 DEF TypeOK
<1>7. Only(t)
  BY <1>4, <1>6 DEF Only
<1>8. obj[t] = Fresh
  BY <1>1 DEF Sound, Unborn
<1>9. Counted(t)' /\ Stored(t)' /\ Registered(t)' /\ Unborn(t)'
  BY <1>1, <1>2, <1>4, <1>6, <1>8
  DEF Sound, Counted, Ahead, Stored, Registered, Live, Unborn
<1>10. Unended(t)' /\ Honest(t)' /\ Full(t)'
  BY <1>1, <1>2, <1>4, <1>6, <1>8 DEF Sound, Unended, Open, Honest, Full
<1>11. IInv'
  BY <1>5, <1>7, <1>9, <1>10, Locality DEF Sound
<1>12. row[t].status # "completed"
  BY <1>3 DEF None
<1>. QED  BY <1>6, <1>11, <1>12, KeepsElsewhere

LEMMA StartSound ==
  ASSUME IInv, NEW t \in Tasks, Start(t)
  PROVE  IInv' /\ Keeps
<1> DEFINE o == [obj[t] EXCEPT !.status = "running"]
           r == [row[t] EXCEPT !.status = "running"]
<1>1. TypeOK /\ Sound(t) /\ pc[t] = "scheduled"
  BY DEF IInv, Start
<1>2. row[t] \in Record /\ obj[t] \in Record /\ Open(obj[t]) /\ Open(row[t])
  BY <1>1 DEF Sound, Stored, Unended, Live, TypeOK
<1>3. /\ o \in Record /\ Open(o) /\ o.status = "running"
      /\ r \in Record /\ Open(r) /\ r.status = "running"
  BY <1>2 DEF Record, Statuses, Open
<1>4. row[t] = obj[t] => r = o
  OBVIOUS
<1>5. obj' = [obj EXCEPT ![t] = o] /\ row' = [row EXCEPT ![t] = r]
  BY <1>1 DEF Start, MarkRunning, TypeOK
<1> HIDE DEF o, r
<1>6. /\ pc' \in [Tasks -> Places] /\ pc'[t] \in {"round", "unstarted"}
      /\ \A u \in Tasks \ {t} : pc'[u] = pc[u]
      /\ closing' \in {closing, closing \cup {t}}
      /\ UNCHANGED <<host, eager, iter, active, revoked>>
  BY <1>1 DEF Start, TypeOK, Places, Live, Waits
<1>7. /\ obj' \in [Tasks -> Record] /\ row' \in [Tasks -> Record \cup {None}]
      /\ obj'[t] = o /\ row'[t] = r
      /\ \A u \in Tasks \ {t} : obj'[u] = obj[u] /\ row'[u] = row[u]
  BY <1>1, <1>3, <1>5 DEF TypeOK
<1>8. TypeOK'
  BY <1>1, <1>6, <1>7 DEF TypeOK, Places
<1>9. Only(t)
  BY <1>6, <1>7 DEF Only
<1>10. Counted(t)' /\ Stored(t)' /\ Registered(t)' /\ Unborn(t)'
  BY <1>1, <1>3, <1>4, <1>6, <1>7
  DEF Sound, Counted, Ahead, Stored, Registered, Live, Waits, Unborn
<1>11. Unended(t)' /\ Honest(t)' /\ Full(t)'
  BY <1>3, <1>6, <1>7 DEF Unended, Open, Honest, Full
<1>12. IInv'
  BY <1>8, <1>9, <1>10, <1>11, Locality DEF Sound
<1>. QED  BY <1>2, <1>7, <1>12, KeepsElsewhere DEF Open

LEMMA RevokeSound ==
  ASSUME IInv, NEW t \in Tasks, Revoke(t)
  PROVE  IInv' /\ Keeps
<1> DEFINE m == [Found(t) EXCEPT !.status = "failed", !.result = "cancelled"]
<1>1. TypeOK /\ Sound(t)
  BY DEF IInv
<1>2. row[t] \in Record /\ pc[t] # "unborn"
  BY <1>1 DEF Sound, Stored, TypeOK, Revoke
<1>3. Found(t) = row[t]
  BY <1>1 DEF Found, Sound, Registered
<1>4. row[t].status \notin {"completed", "failed"}
  BY <1>3 DEF Revoke, Refuses
<1>5. ~row[t].verified
  BY <1>1, <1>2, <1>4 DEF Sound, Honest
<1>6. m \in Record /\ m.status = "failed" /\ ~m.verified
  BY <1>2, <1>3, <1>5 DEF Record, Statuses, Results
<1>7. /\ obj' = IF t \in active THEN [obj EXCEPT ![t] = m] ELSE obj
      /\ row' = [row EXCEPT ![t] = m]
      /\ active' = active \ {t} /\ revoked' = revoked \cup {t}
      /\ UNCHANGED <<host, eager, pc, iter, closing>>
  BY DEF Revoke, SaveTask, Deactivate
<1> HIDE DEF m
<1>8. /\ obj' \in [Tasks -> Record] /\ row' \in [Tasks -> Record \cup {None}]
      /\ obj'[t] \in {m, obj[t]} /\ row'[t] = m
      /\ \A u \in Tasks \ {t} : obj'[u] = obj[u] /\ row'[u] = row[u]
  BY <1>1, <1>6, <1>7 DEF TypeOK
<1>9. TypeOK'
  BY <1>1, <1>7, <1>8 DEF TypeOK
<1>10. Only(t)
  BY <1>7, <1>8 DEF Only
<1>11. Counted(t)' /\ Stored(t)' /\ Registered(t)' /\ Unborn(t)'
  BY <1>1, <1>2, <1>6, <1>7, <1>8 DEF Sound, Counted, Stored, Registered, Unborn
<1>12. Open(m)
  BY <1>6 DEF Open
<1>13. Unended(t)'
  <2>1. ASSUME pc[t] \in Live PROVE Open(obj'[t])
    BY <1>1, <1>8, <1>12, <2>1 DEF Sound, Unended
  <2>. QED  BY <1>7, <1>8, <1>12, <2>1 DEF Unended, Open
<1>14. Honest(t)' /\ Full(t)'
  BY <1>6, <1>8 DEF Honest, Full
<1>15. IInv'
  BY <1>9, <1>10, <1>11, <1>13, <1>14, Locality DEF Sound
<1>. QED  BY <1>4, <1>8, <1>15, KeepsElsewhere

(* The end of the process.                                                   *)
LEMMA ProcessSound ==
  ASSUME IInv, Shutdown \/ Crash
  PROVE  IInv' /\ Keeps
<1>1. TypeOK /\ UNCHANGED <<host, eager, iter, obj, row, revoked>>
  BY DEF IInv, Shutdown, Crash
<1>2. CASE Shutdown
  <2>1. closing' = Tasks /\ UNCHANGED <<pc, active>>
    BY <1>2 DEF Shutdown
  <2>2. TypeOK'
    BY <1>1, <2>1 DEF TypeOK
  <2>3. ASSUME NEW t \in Tasks PROVE Sound(t)'
    <3>1. Sound(t)
      BY DEF IInv
    <3>. QED  BY <1>1, <2>1, <3>1
         DEF Sound, Counted, Stored, Registered, Unborn, Unended, Open, Honest, Full
  <2>. QED  BY <1>1, <2>2, <2>3 DEF IInv, Keeps
<1>3. CASE Crash
  <2>1. /\ pc' = [t \in Tasks |-> IF pc[t] \in Live THEN "lost" ELSE pc[t]]
        /\ active' = {} /\ closing' = closing
    BY <1>3 DEF Crash
  <2>2. TypeOK'
    BY <1>1, <2>1 DEF TypeOK
  <2>3. ASSUME NEW t \in Tasks PROVE Sound(t)'
    <3>1. Sound(t)
      BY DEF IInv
    <3>2. /\ pc'[t] \notin Live
          /\ pc'[t] = pc[t] \/ (pc[t] # "unborn" /\ pc'[t] = "lost")
      BY <1>1, <2>1 DEF TypeOK, Live, Waits
    <3>. QED  BY <1>1, <2>1, <3>1, <3>2
         DEF Sound, Counted, Ahead, Stored, Registered, Unborn, Unended, Honest, Full
  <2>. QED  BY <1>1, <2>2, <2>3 DEF IInv, Keeps
<1>. QED  BY <1>2, <1>3

-----------------------------------------------------------------------------
LEMMA Initially == Init => IInv
<1>. SUFFICES ASSUME Init PROVE IInv
  OBVIOUS
<1>1. Fresh \in Record
  BY DEF Fresh, Record, Statuses, Results
<1>2. TypeOK
  BY <1>1, ConstantsAssumption DEF Init, TypeOK
<1>3. ASSUME NEW t \in Tasks PROVE Sound(t)
  BY <1>3, NoneIsNoRecord, ConstantsAssumption
  DEF Init, Sound, Counted, Stored, Registered, Unborn, Unended, Live, Waits, Honest, Full
<1>. QED  BY <1>2, <1>3 DEF IInv

LEMMA Stepwise == IInv /\ [Next]_vars => IInv' /\ Keeps
<1>. SUFFICES ASSUME IInv, [Next]_vars PROVE IInv' /\ Keeps
  OBVIOUS
<1>1. ASSUME NEW t \in Tasks, Delegate(t) PROVE IInv' /\ Keeps
  BY <1>1, DelegateSound
<1>2. ASSUME NEW t \in Tasks, Start(t) PROVE IInv' /\ Keeps
  BY <1>2, StartSound
<1>3. ASSUME NEW t \in Tasks, Round(t) PROVE IInv' /\ Keeps
  BY <1>3, RoundSound
<1>4. ASSUME NEW t \in Tasks, Wake(t) PROVE IInv' /\ Keeps
  BY <1>4, WakeSound
<1>5. ASSUME NEW t \in Tasks, Timeout(t) PROVE IInv' /\ Keeps
  BY <1>5, TimeoutSound
<1>6. ASSUME NEW t \in Tasks, Cancelled(t) PROVE IInv' /\ Keeps
  BY <1>6, CancelledSound
<1>7. ASSUME NEW t \in Tasks, Revoke(t) PROVE IInv' /\ Keeps
  BY <1>7, RevokeSound
<1>8. CASE Shutdown \/ Crash
  BY <1>8, ProcessSound
<1>9. CASE UNCHANGED vars
  BY <1>9 DEF vars, IInv, TypeOK, Sound, Counted, Stored, Registered, Unborn, Unended,
              Open, Honest, Full, Keeps
<1>. QED  BY <1>1, <1>2, <1>3, <1>4, <1>5, <1>6, <1>7, <1>8, <1>9 DEF Next, Coroutine

LEMMA Always == Spec => []IInv
<1>1. IInv /\ [Next]_vars => IInv'
  BY Stepwise
<1>. QED  BY Initially, <1>1, PTL DEF Spec

(* Every variable keeps its type, for every number of tasks and of rounds:   *)
(* no round is begun beyond max_iterations.                                  *)
THEOREM TypeCorrect == Spec => []TypeOK
<1>1. IInv => TypeOK
  BY DEF IInv
<1>. QED  BY <1>1, Always, PTL

(* The object that a poll reads and the row that a list reads agree.         *)
THEOREM PollsAgree == Spec => []PollAgreesWithList
<1>1. IInv => PollAgreesWithList
  BY DEF IInv, TypeOK, Sound, Registered, PollAgreesWithList
<1>. QED  BY <1>1, Always, PTL

(* Only answers are marked verified, through late ends and cancellations.    *)
THEOREM OnlyAnswersVerified == Spec => []VerifiedIsAnswer
<1>1. IInv => VerifiedIsAnswer
  <2>. SUFFICES ASSUME IInv, NEW t \in Tasks, row[t] # None, row[t].verified
                PROVE  /\ row[t].result = "answer"
                       /\ row[t].status = "completed" \/ t \in revoked
    BY DEF VerifiedIsAnswer
  <2>1. row[t] \in Record /\ Honest(t)
    BY DEF IInv, TypeOK, Sound
  <2>. QED  BY <2>1 DEF Honest
<1>. QED  BY <1>1, Always, PTL

(* The registry of active tasks neither leaks nor forgets.                   *)
THEOREM RegistryIsTrue == Spec => []RegistryAgrees
<1>1. IInv => RegistryAgrees
  BY DEF IInv, TypeOK, Sound, Registered, RegistryAgrees
<1>. QED  BY <1>1, Always, PTL

(* A completed task without a result was cancelled by the end of its loop.   *)
THEOREM SuccessHasResult == Spec => []NoEmptySuccess
<1>1. IInv => NoEmptySuccess
  <2>. SUFFICES ASSUME IInv, NEW t \in Tasks, row[t] # None,
                       row[t].status = "completed", row[t].result = "none"
                PROVE  host = "run" \/ t \in closing
    BY DEF NoEmptySuccess
  <2>1. row[t] \in Record /\ Full(t)
    BY DEF IInv, TypeOK, Sound
  <2>. QED  BY <2>1 DEF Full
<1>. QED  BY <1>1, Always, PTL

(* No step changes the row of a completed task.                              *)
THEOREM CompletedRowsStay == Spec => CompletedStays
<1>1. IInv /\ [Next]_vars => [Keeps]_vars
  BY Stepwise
<1>2. Spec => [][Keeps]_vars
  BY <1>1, Always, PTL DEF Spec
<1>. QED  BY <1>2 DEF CompletedStays, Keeps

=============================================================================
