------------------------------ MODULE Guardian ------------------------------
(***************************************************************************)
(* The guardian, a process that watches the working copy of the agent:     *)
(* Guardian.run of guardian/daemon.py (pull, check, heal, sleep) and heal  *)
(* of guardian/healer.py, which pulls and restarts the agent's service     *)
(* when the code does not compile.  Two counters are to stop a storm of    *)
(* restarts: the healer's, in a file, and the daemon's, in memory.  The    *)
(* file is in /tmp, which the unit of SYSTEMD_UNIT makes private: it is    *)
(* gone with every restart of the guardian.  A read of it that fails       *)
(* returns an empty history.                                               *)
(*                                                                         *)
(* The guardian is imported from the working copy it watches, and is       *)
(* loaded once: a copy that cannot be imported stops only its next start.  *)
(*                                                                         *)
(* Of the checks with a heal action only "compile" can restart anything:   *)
(* for the others the chain is an alert or begins with a patch, which      *)
(* lacks its data and fails.  A pass of the loop takes minutes, so at most *)
(* one tick of the clock falls into it.                                    *)
(***************************************************************************)
EXTENDS Naturals

CONSTANTS
    MaxRestarts,    \* MAX_CONSECUTIVE_RESTARTS, of both files
    MaxRetries,     \* max_retries of "compile" in DECISION_TABLE
    Window,         \* 3600 s, in ticks
    MaxFaults       \* bound: deaths, signals and errors in a behaviour

ASSUME GuardianAssumption ==
    /\ {MaxRetries, MaxFaults} \subseteq Nat
    /\ {MaxRestarts, Window} \subseteq Nat \ {0}

Ages == 0 .. Window
None == [a \in Ages |-> 0]      \* no restart within the window

VARIABLES
    pc,         \* where Guardian.run is; "down" without a process
    pulled,     \* whether the heal at work is the one after a pull
    attempt,    \* attempt of the healer's chain
    active,     \* whether the healer's last restart succeeded
    running,    \* _running
    broken,     \* the working copy does not compile, by check_compile
    importable, \* the guardian's own modules in it can be imported
    news,       \* origin/main has commits that are not pulled
    records,    \* "restarts" in HISTORY_FILE, counted by age
    own,        \* _restart_history, counted by age
    healer,     \* history variable: restarts of the healer, by age
    counted,    \* history variable: those recorded, and read since, by age
    lost,       \* history variable: those overlooked, by age
    ticked,     \* whether the clock has moved in this pass
    faults      \* number of faults so far

place == <<pc, pulled, attempt, active, ticked>>
repo == <<broken, importable, news>>
logs == <<records, own, healer, counted, lost>>
vars == <<place, running, repo, logs, faults>>

Points == {"loop", "guard", "chain", "restart", "record", "act", "periodic",
           "sleep", "down"}

-----------------------------------------------------------------------------
\* Entries of each age or younger, and all of them.
Counts(log) ==
    LET upto[a \in Ages] == IF a = 0 THEN log[0] ELSE upto[a - 1] + log[a]
    IN  upto

Total(log) == Counts(log)[Window]

OneMore(log) == [log EXCEPT ![0] = @ + 1]

Merge(log, more) == [a \in Ages |-> log[a] + more[a]]

\* Fault: the window is forgotten.
NeverForgotten(log) ==
    [a \in Ages |-> CASE a = 0 -> 0
                      [] a \in 1 .. (Window - 1) -> log[a - 1]
                      [] a = Window -> log[a - 1] + log[a]]

Older(log) == [a \in Ages |-> IF a = 0 THEN 0 ELSE log[a - 1]]

\* Fault: one restart more is let pass.
AllButOne(log) == IF Total(log) = 0 THEN 0 ELSE Total(log) - 1

\* _count_recent_restarts: an entry that is just an hour old counts.
Recent(log) == Total(log)

\* Fault: the daemon's window includes its end, as the healer's does.
PrunedLate(log) == log

\* The filter in restart_worker: an entry that is just an hour old does not.
Pruned(log) == [log EXCEPT ![Window] = 0]

Init ==
    /\ pc = "down" /\ pulled = FALSE /\ attempt = 0 /\ active = FALSE
    /\ running = FALSE /\ ticked = FALSE
    /\ broken = FALSE /\ importable = TRUE /\ news = FALSE
    /\ records = None /\ own = None
    /\ healer = None /\ counted = None /\ lost = None
    /\ faults = 0

-----------------------------------------------------------------------------
(* The loop of the daemon. *)

\* Outside of heal and of what run does with its actions, its locals are gone.
Goto(point) ==
    /\ pc' = point
    /\ IF point \in {"chain", "restart", "act"}
       THEN UNCHANGED <<pulled, attempt, active>>
       ELSE pulled' = FALSE /\ attempt' = 0 /\ active' = FALSE
    /\ UNCHANGED ticked

\* Other code in the working copy.
Rewritten == broken' \in BOOLEAN /\ importable' \in BOOLEAN

\* The restarts that were counted so far are overlooked from now on.
Overlooked == lost' = Merge(lost, counted) /\ counted' = None

\* What run_checks says, and the heal that follows when it looks for itself.
Check(afterPull) ==
    /\ pulled' = (afterPull /\ broken')
    /\ pc' = IF broken' THEN "guard" ELSE IF afterPull THEN "periodic" ELSE "sleep"
    /\ attempt' = 0 /\ active' = FALSE
    /\ UNCHANGED ticked

NoNews ==       \* no commits, a fetch or a pull that fails
    /\ pc = "loop"
    /\ Goto("periodic")
    /\ UNCHANGED <<running, repo, logs, faults>>

Pull ==
    /\ pc = "loop" /\ news
    /\ news' = FALSE
    /\ Rewritten
    /\ Check(TRUE)
    /\ UNCHANGED <<running, logs, faults>>

Periodic ==
    /\ pc = "periodic"
    /\ UNCHANGED <<running, repo, logs, faults>>
    /\ Check(FALSE)

\* A command that outlives its timeout; the pass is over.
LoopError ==
    /\ pc = "loop"
    /\ Goto("sleep")
    /\ UNCHANGED <<running, repo, logs, faults>>

\* The service is restarted once more for every restart of the healer.  The
\* restart is entered first, and too many of them put the guardian in safe
\* mode, which lets the pass go on.
RestartWorker ==
    /\ own' = OneMore(Pruned(own))
    /\ IF Total(own') > MaxRestarts
       THEN running' = FALSE /\ Goto("periodic")
       ELSE /\ UNCHANGED running
            /\ \/ Goto("periodic")
               \/ Goto("sleep")     \* systemctl outlives its timeout
    /\ UNCHANGED <<repo, records, healer, counted, lost, faults>>

Act ==
    /\ pc = "act"
    /\ IF active THEN RestartWorker
       ELSE Goto("periodic") /\ UNCHANGED <<running, repo, logs, faults>>

Awake ==
    /\ pc = "sleep"
    /\ pc' = IF running THEN "loop" ELSE "down"
    /\ ticked' = FALSE
    /\ UNCHANGED <<pulled, attempt, active, running, repo, logs, faults>>

\* The service manager starts the guardian whenever it has ended, with an
\* empty /tmp; an import that fails ends it at once.
Start ==
    /\ pc = "down" /\ importable
    /\ pc' = "loop" /\ running' = TRUE /\ ticked' = FALSE
    /\ own' = None /\ records' = None
    /\ Overlooked
    /\ UNCHANGED <<pulled, attempt, active, repo, healer, faults>>

-----------------------------------------------------------------------------
(* The chain "pull, restart" of the healer. *)

AfterHeal == IF pulled THEN "act" ELSE "sleep"

\* The guard is looked at once, before all attempts.
Guard ==
    /\ pc = "guard"
    /\ Goto(IF Recent(records) >= MaxRestarts THEN AfterHeal ELSE "chain")
    /\ UNCHANGED <<running, repo, logs, faults>>

GuardBlind ==       \* _load_history swallows the error: no restarts so far
    /\ pc = "guard" /\ faults < MaxFaults
    /\ Goto("chain")
    /\ Overlooked
    /\ faults' = faults + 1
    /\ UNCHANGED <<running, repo, records, own, healer>>

CheckFails ==       \* run_checks returns -99, or heal catches an error
    /\ pc = "guard" /\ faults < MaxFaults
    /\ Goto(AfterHeal)
    /\ faults' = faults + 1
    /\ UNCHANGED <<running, repo, logs>>

AttemptEnds ==
    IF attempt < MaxRetries
    THEN /\ pc' = "chain" /\ attempt' = attempt + 1
         /\ UNCHANGED <<pulled, active, ticked>>
    ELSE Goto(AfterHeal)

\* The healer pulls into REPO_PATH, this working copy or another one.
ChainPull ==
    /\ pc = "chain"
    /\ \/ news /\ news' = FALSE /\ Rewritten /\ Goto("restart")
       \/ UNCHANGED repo /\ Goto("restart")    \* nothing new, or elsewhere
       \/ UNCHANGED repo /\ AttemptEnds
    /\ UNCHANGED <<running, logs, faults>>

\* systemctl restart, and the wait until the service is active.
ChainRestart ==
    /\ pc = "restart"
    /\ healer' = OneMore(healer)
    /\ active' \in BOOLEAN
    /\ pc' = "record"
    /\ UNCHANGED <<pulled, attempt, ticked, running, repo, records, own, counted,
                   lost, faults>>

RecordEnds ==
    IF active THEN Goto(AfterHeal) ELSE AttemptEnds

Record ==
    /\ pc = "record"
    /\ records' = OneMore(records) /\ counted' = OneMore(counted)
    /\ RecordEnds
    /\ UNCHANGED <<running, repo, own, healer, lost, faults>>

RecordLost ==       \* _save_history swallows the error
    /\ pc = "record" /\ faults < MaxFaults
    /\ lost' = OneMore(lost)
    /\ RecordEnds
    /\ faults' = faults + 1
    /\ UNCHANGED <<running, repo, records, own, healer, counted>>

RecordAlone ==      \* a read that fails, then a history of one entry is saved
    /\ pc = "record" /\ faults < MaxFaults
    /\ records' = OneMore(None) /\ counted' = OneMore(None)
    /\ lost' = Merge(lost, counted)
    /\ RecordEnds
    /\ faults' = faults + 1
    /\ UNCHANGED <<running, repo, own, healer>>

\* The same when a pull or another check's alert is recorded.
RecordsGone ==
    /\ pc \in {"guard", "chain", "restart", "act", "periodic", "sleep"}
    /\ faults < MaxFaults
    /\ records' = None
    /\ Overlooked
    /\ faults' = faults + 1
    /\ UNCHANGED <<place, running, repo, own, healer>>

-----------------------------------------------------------------------------
(* The world. *)

Commit ==
    /\ ~news /\ news' = TRUE
    /\ UNCHANGED <<place, running, broken, importable, logs, faults>>

\* The working copy is the agent's own, which edits its code.
Edit ==
    /\ Rewritten /\ <<broken, importable>>' # <<broken, importable>>
    /\ UNCHANGED <<place, running, news, logs, faults>>

Signal ==
    /\ running /\ faults < MaxFaults
    /\ running' = FALSE /\ faults' = faults + 1
    /\ UNCHANGED <<place, repo, logs>>

Die ==
    /\ pc # "down" /\ faults < MaxFaults
    /\ Goto("down")
    /\ running' = FALSE /\ faults' = faults + 1
    /\ lost' = IF pc = "record" THEN OneMore(lost) ELSE lost
    /\ UNCHANGED <<repo, records, own, healer, counted>>

Tick ==
    /\ pc \in {"sleep", "down"} \/ ~ticked
    /\ ticked' = (pc \notin {"sleep", "down"})
    /\ records' = Older(records) /\ own' = Older(own)
    /\ healer' = Older(healer) /\ counted' = Older(counted)
    /\ lost' = Older(lost)
    /\ UNCHANGED <<pc, pulled, attempt, active, running, repo, faults>>

-----------------------------------------------------------------------------
Pass ==
    \/ NoNews \/ Pull \/ Periodic \/ LoopError \/ Act \/ Awake
    \/ Guard \/ ChainPull \/ ChainRestart \/ Record

Next ==
    \/ Pass \/ Start
    \/ GuardBlind \/ CheckFails \/ RecordLost \/ RecordAlone \/ RecordsGone
    \/ Commit \/ Edit \/ Signal \/ Die \/ Tick

Spec == Init /\ [][Next]_vars

\* The process runs, the service manager restarts it, time passes, and a fetch
\* does not fail each time.
FairSpec ==
    /\ Spec
    /\ WF_vars(Pass) /\ WF_vars(Start) /\ WF_vars(Tick)
    /\ SF_vars(NoNews \/ Pull)

-----------------------------------------------------------------------------
\* Types, and that nothing but the chain counts attempts.
TypeOK ==
    /\ pc \in Points
    /\ attempt \in 0 .. MaxRetries
    /\ {pulled, active, running, broken, importable, news, ticked} \subseteq BOOLEAN
    /\ {records, own, healer, counted, lost} \subseteq [Ages -> Nat]
    /\ faults \in 0 .. MaxFaults

\* The healer restarts the service within an hour at most as often as the guard
\* lets pass and the retries of one chain add.  What comes on top are restarts
\* the guard overlooked: their record was not saved, was overwritten after a
\* read that failed, went with the private /tmp when the guardian itself was
\* restarted, or was there when a guard could not read it.
StormIsBounded ==
    Total(healer) <= MaxRestarts + MaxRetries + Total(lost)

\* The daemon's own limit, which starts anew with every process, is a second
\* line: the guardian is put in safe mode only when some restart of the last
\* hour was overlooked.
SafeModeHasCause ==
    [][Act /\ Total(own') > MaxRestarts => Total(lost) > 0]_vars

\* A working copy that stays broken is pulled again and again: neither the guard
\* nor safe mode nor a death ends repairs for good, unless the guardian is down
\* when what it imports from that very copy is broken too.
KeepsTrying ==
    <>[]broken => []<>(pc = "chain" \/ (pc = "down" /\ ~importable))
=============================================================================
