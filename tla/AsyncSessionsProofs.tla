------------------------ MODULE AsyncSessionsProofs ------------------------
(* Invariance proofs for AsyncSessions, for every number of sessions and    *)
(* messages, every limit and every timeout.                                 *)
EXTENDS AsyncSessions, FiniteSetTheorems, TLAPS

(* a processor exists from the dispatch of its message on *)
Births ==
    /\ \A w \in Msgs : pc[w] # "unborn" => sid[w] \in Sessions /\ w <= arrived
    /\ \A w \in cancelled : pc[w] \in Suspended

(* a processor in _process_message has a message, a waiting put has one too *)
AtWork ==
    /\ \A w \in Msgs : pc[w] \in InProcess => msg[w] \in Msgs
    /\ putTo # None => arrived # 0

Inv == TypeOK /\ Births /\ AtWork /\ QueueHasReader

LEMMA InitInv == ASSUME Init PROVE Inv
<1>1. TypeOK
  <2>1. buf \in [Msgs -> Seq(Msgs)]
    BY DEF Init
  <2>2. arrived \in 0 .. MaxMsgs
    BY ConstantsAssumption DEF Init
  <2> QED BY <2>1, <2>2 DEF Init, TypeOK, None
<1>2. Births /\ AtWork /\ QueueHasReader
  BY DEF Init, Births, AtWork, QueueHasReader, InProcess
<1> QED BY <1>1, <1>2 DEF Inv

LEMMA GetOrCreateType ==
    ASSUME TypeOK, NEW s \in Sessions, GetOrCreate(s)
    PROVE  entry' \in SUBSET Sessions /\ idle' \in [Sessions -> Nat]
<1>1. entry \subseteq Sessions /\ idle \in [Sessions -> Nat]
  BY DEF TypeOK
<1>2. CASE Touch(s) /\ entry' \subseteq entry \cup {s}
  BY <1>1, <1>2 DEF Touch
<1>3. CASE \E v \in entry : /\ entry' = (entry \ {v}) \cup {s}
                           /\ idle' = [idle EXCEPT ![s] = 0, ![v] = 0]
  <2>1. PICK v \in entry : /\ entry' = (entry \ {v}) \cup {s}
                           /\ idle' = [idle EXCEPT ![s] = 0, ![v] = 0]
    BY <1>3
  <2>2. [idle EXCEPT ![s] = 0] \in [Sessions -> Nat]
    BY <1>1
  <2> QED BY <1>1, <2>1, <2>2
<1> QED BY <1>2, <1>3 DEF GetOrCreate, LeastRecentlyUsed

LEMMA NoStep == ASSUME Inv, UNCHANGED vars PROVE Inv'
BY DEF Inv, TypeOK, Births, AtWork, QueueHasReader, Live, vars, registry, processor

LEMMA DispatchInv == ASSUME Inv, NEW s \in Sessions, Dispatch(s) PROVE Inv'
<1> DEFINE n == arrived + 1
           q == IF queues[s] = None THEN n ELSE queues[s]
<1>0. /\ arrived < MaxMsgs
      /\ arrived' = n /\ sid' = [sid EXCEPT ![n] = s]
      /\ fate' = [fate EXCEPT ![n] = "queued"]
      /\ queues[s] = None =>
            /\ GetOrCreate(s)
            /\ queues' = [queues EXCEPT ![s] = n] /\ tasks' = [tasks EXCEPT ![s] = n]
            /\ pc' = [pc EXCEPT ![n] = "starting"]
      /\ queues[s] # None => Touch(s) /\ UNCHANGED <<entry, queues, tasks, pc>>
      /\ buf' = buf \/ buf' = [buf EXCEPT ![q] = Append(buf[q], n)]
      /\ putTo' = putTo \/ putTo' = q
      /\ UNCHANGED <<msg, rounds, wait, cancelled, toolThread, running>>
  BY DEF Dispatch
<1>1. n \in Msgs /\ n \in 1 .. MaxMsgs /\ arrived \in Nat /\ arrived < n
  BY <1>0, ConstantsAssumption DEF Inv, TypeOK, Msgs
<1>2. pc[n] = "unborn" /\ n \notin cancelled
  <2>1. pc[n] # "unborn" => n <= arrived
    BY <1>1 DEF Inv, Births
  <2>2. pc[n] = "unborn"
    BY <1>1, <2>1
  <2> QED BY <2>2 DEF Inv, Births, Suspended, InProcess
<1>3. q \in Msgs
  BY <1>1 DEF Inv, TypeOK, None
<1>4. TypeOK'
  <2>1. entry' \in SUBSET Sessions /\ idle' \in [Sessions -> Nat]
    <3>1. CASE queues[s] = None
      BY <1>0, <3>1, GetOrCreateType DEF Inv
    <3>2. CASE queues[s] # None
      BY <1>0, <3>2 DEF Inv, TypeOK, Touch
    <3> QED BY <3>1, <3>2
  <2>2. queues' \in [Sessions -> Msgs \cup {None}] /\ tasks' \in [Sessions -> Msgs \cup {None}]
    <3>1. /\ queues \in [Sessions -> Msgs \cup {None}]
          /\ tasks \in [Sessions -> Msgs \cup {None}]
      BY DEF Inv, TypeOK
    <3>2. \/ queues' = [queues EXCEPT ![s] = n] /\ tasks' = [tasks EXCEPT ![s] = n]
          \/ queues' = queues /\ tasks' = tasks
      BY <1>0
    <3> HIDE DEF n
    <3> QED BY <1>1, <3>1, <3>2
  <2>3. pc' \in [Msgs -> Suspended \cup {"unborn", "done"}]
    BY <1>0, <1>1 DEF Inv, TypeOK, Suspended
  <2>4. buf' \in [Msgs -> Seq(Msgs)]
    <3>1. buf \in [Msgs -> Seq(Msgs)] /\ Append(buf[q], n) \in Seq(Msgs)
      BY <1>1, <1>3 DEF Inv, TypeOK
    <3> QED BY <1>0, <1>3, <3>1
  <2>5. putTo' \in Msgs \cup {None} /\ arrived' \in 0 .. MaxMsgs
    BY <1>0, <1>1, <1>3 DEF Inv, TypeOK
  <2>6. sid' \in [Msgs -> Sessions \cup {NoSession}]
    BY <1>0, <1>1 DEF Inv, TypeOK
  <2>7. fate' \in [Msgs -> Settled \cup {"unseen", "queued", "processing"}]
    <3>1. fate \in [Msgs -> Settled \cup {"unseen", "queued", "processing"}]
      BY DEF Inv, TypeOK
    <3>2. fate' = [fate EXCEPT ![n] = "queued"]
      BY <1>0
    <3> QED BY <3>1, <3>2
  <2> QED BY <1>0, <2>1, <2>2, <2>3, <2>4, <2>5, <2>6, <2>7 DEF Inv, TypeOK
<1>5. Births'
  <2>1. ASSUME NEW w \in Msgs, pc'[w] # "unborn"
        PROVE  sid'[w] \in Sessions /\ w <= arrived'
    <3>1. CASE w = n
      BY <1>0, <1>1, <3>1 DEF Inv, TypeOK
    <3>2. CASE w # n
      <4>1. pc'[w] = pc[w] /\ sid'[w] = sid[w]
        BY <1>0, <1>1, <3>2 DEF Inv, TypeOK
      <4>2. w <= arrived /\ w \in Nat /\ sid[w] \in Sessions
        BY <2>1, <4>1 DEF Inv, Births, Msgs
      <4> QED BY <1>0, <1>1, <4>1, <4>2
    <3> QED BY <3>1, <3>2
  <2>2. \A w \in cancelled' : pc'[w] \in Suspended
    <3>1. \A w \in cancelled : pc'[w] = pc[w]
      BY <1>0, <1>1, <1>2 DEF Inv, TypeOK
    <3> QED BY <1>0, <3>1 DEF Inv, Births
  <2> QED BY <2>1, <2>2 DEF Births
<1>6. AtWork'
  <2>1. \A w \in Msgs : pc'[w] \in InProcess => pc[w] \in InProcess
    BY <1>0, <1>1 DEF Inv, TypeOK, InProcess
  <2>2. arrived' # 0
    BY <1>0, <1>1
  <2> QED BY <1>0, <2>1, <2>2 DEF Inv, AtWork
<1>7. QueueHasReader'
  <2> SUFFICES ASSUME NEW t \in Sessions
               PROVE  /\ queues'[t] = tasks'[t]
                      /\ queues'[t] # None =>
                            /\ pc'[queues'[t]] \in Suspended
                            /\ queues'[t] \notin cancelled'
                            /\ sid'[queues'[t]] = t
    BY DEF QueueHasReader, Live
  <2>1. CASE queues[s] = None /\ t = s
    <3>1. queues'[t] = n /\ tasks'[t] = n
      BY <1>0, <2>1 DEF Inv, TypeOK
    <3>2. pc'[n] = "starting" /\ sid'[n] = s
      BY <1>0, <1>1, <2>1 DEF Inv, TypeOK
    <3> QED BY <1>0, <1>2, <2>1, <3>1, <3>2 DEF Suspended
  <2>2. CASE ~(queues[s] = None /\ t = s)
    <3>1. queues'[t] = queues[t] /\ tasks'[t] = tasks[t]
      BY <1>0, <2>2 DEF Inv, TypeOK
    <3>2. queues[t] = tasks[t] /\ queues[t] \in Msgs \cup {None}
      BY DEF Inv, TypeOK, QueueHasReader
    <3>3. ASSUME queues[t] # None
          PROVE  /\ pc'[queues[t]] \in Suspended /\ queues[t] \notin cancelled'
                 /\ sid'[queues[t]] = t
      <4>1. /\ pc[queues[t]] \in Suspended /\ queues[t] \notin cancelled
            /\ sid[queues[t]] = t
        BY <3>3 DEF Inv, QueueHasReader, Live
      <4>2. queues[t] # n
        BY <1>2, <4>1 DEF Suspended, InProcess
      <4>3. pc'[queues[t]] = pc[queues[t]] /\ sid'[queues[t]] = sid[queues[t]]
        BY <1>0, <1>1, <4>2, <3>2, <3>3 DEF Inv, TypeOK
      <4> QED BY <1>0, <4>1, <4>3
    <3> QED BY <3>1, <3>2, <3>3
  <2> QED BY <2>1, <2>2
<1> QED BY <1>4, <1>5, <1>6, <1>7 DEF Inv

----------------------------------------------------------------------------
(* Steps of a processor *)

LEMMA GotoType ==
    ASSUME TypeOK, NEW w \in Msgs, NEW label \in Suspended \cup {"done"},
           Goto(w, label)
    PROVE  /\ pc' \in [Msgs -> Suspended \cup {"unborn", "done"}]
           /\ wait' \in [Msgs -> Nat]
BY DEF TypeOK, Goto

LEMMA EndType ==
    ASSUME TypeOK, NEW w \in Msgs, NEW label \in Suspended, End(w, label)
    PROVE  /\ pc' \in [Msgs -> Suspended \cup {"unborn", "done"}]
           /\ wait' \in [Msgs -> Nat] /\ rounds' \in [Msgs -> Nat]
           /\ msg' \in [Msgs -> Msgs \cup {None}]
           /\ fate' \in [Msgs -> Settled \cup {"unseen", "queued", "processing"}]
<1>1. Goto(w, label)
  BY DEF End
<1>2. fate' \in [Msgs -> Settled \cup {"unseen", "queued", "processing"}]
  BY DEF TypeOK, End, Settled
<1>3. rounds' \in [Msgs -> Nat] /\ msg' \in [Msgs -> Msgs \cup {None}]
  BY DEF TypeOK, End
<1> QED BY <1>1, <1>2, <1>3, GotoType

(* a processor that stays alive disturbs nobody *)
LEMMA AliveStep ==
    ASSUME Inv, NEW w \in Msgs, pc[w] \in Suspended,
           NEW label \in Suspended, pc' = [pc EXCEPT ![w] = label],
           label \in InProcess => msg'[w] \in Msgs,
           \A v \in Msgs \ {w} : msg'[v] = msg[v],
           cancelled' \subseteq cancelled,
           UNCHANGED <<queues, tasks, sid, arrived, putTo>>
    PROVE  Births' /\ AtWork' /\ QueueHasReader'
<1>1. \A v \in Msgs : v # w => pc'[v] = pc[v]
  BY DEF Inv, TypeOK
<1>2. pc'[w] = label
  BY DEF Inv, TypeOK
<1>3. Births'
  <2>1. \A v \in Msgs : pc'[v] # "unborn" => pc[v] # "unborn"
    BY <1>1 DEF Suspended, InProcess
  <2>2. \A v \in cancelled' : pc'[v] \in Suspended
    BY <1>1, <1>2 DEF Inv, TypeOK, Births
  <2> QED BY <2>1, <2>2 DEF Inv, Births
<1>4. AtWork'
  BY <1>1, <1>2 DEF Inv, AtWork
<1>5. QueueHasReader'
  BY <1>1, <1>2 DEF Inv, TypeOK, QueueHasReader, Live
<1> QED BY <1>3, <1>4, <1>5

(* a processor that is not registered ends *)
LEMMA DeadStep ==
    ASSUME Inv, NEW w \in Msgs, pc[w] \in Suspended,
           pc' = [pc EXCEPT ![w] = "done"],
           \A v \in Msgs \ {w} : msg'[v] = msg[v],
           cancelled' \subseteq cancelled, w \notin cancelled',
           \A s \in Sessions : \/ queues'[s] = None /\ tasks'[s] = None
                              \/ /\ queues'[s] = queues[s] /\ tasks'[s] = tasks[s]
                                 /\ queues[s] # w,
           UNCHANGED <<sid, arrived, putTo>>
    PROVE  Births' /\ AtWork' /\ QueueHasReader'
<1>1. \A v \in Msgs : v # w => pc'[v] = pc[v]
  BY DEF Inv, TypeOK
<1>2. pc'[w] = "done"
  BY DEF Inv, TypeOK
<1>3. Births'
  <2>1. \A v \in Msgs : pc'[v] # "unborn" => pc[v] # "unborn"
    BY <1>1 DEF Suspended, InProcess
  <2>2. \A v \in cancelled' : pc'[v] \in Suspended
    BY <1>1, <1>2 DEF Inv, TypeOK, Births
  <2> QED BY <2>1, <2>2 DEF Inv, Births
<1>4. AtWork'
  BY <1>1, <1>2 DEF Inv, AtWork, InProcess
<1>5. QueueHasReader'
  <2>1. \A s \in Sessions : queues[s] # None /\ queues[s] # w =>
           /\ pc'[queues[s]] \in Suspended /\ queues[s] \notin cancelled'
           /\ sid[queues[s]] = s
    BY <1>1 DEF Inv, TypeOK, QueueHasReader, Live
  <2>2. \A s \in Sessions : queues[s] = tasks[s]
    BY DEF Inv, QueueHasReader
  <2> QED BY <2>1, <2>2 DEF QueueHasReader, Live
<1> QED BY <1>3, <1>4, <1>5

LEMMA ContentsType ==
    ASSUME TypeOK, NEW w \in Msgs
    PROVE  Contents(w) \subseteq Msgs /\ (buf[w] # <<>> => Latest(w) \in Msgs)
<1>1. buf[w] \in Seq(Msgs)
  BY DEF TypeOK
<1> QED BY <1>1 DEF Contents, Latest

(* only the processor of a session is registered under it *)
LEMMA Registered ==
    ASSUME Inv, NEW w \in Msgs, NEW s \in Sessions, queues[s] = w
    PROVE  sid[w] = s /\ Live(w)
BY DEF Inv, QueueHasReader, Msgs, None

LEMMA StartInv == ASSUME Inv, NEW w \in Msgs, Start(w) PROVE Inv'
<1>1. pc[w] = "starting" /\ pc[w] \in Suspended /\ Goto(w, pc'[w]) /\ w \notin cancelled
  BY DEF Start, Live, Goto, Suspended, Inv, TypeOK
<1>2. UNCHANGED <<registry, msg, rounds, buf, cancelled, toolThread, running,
                  putTo, arrived, sid, fate>>
  BY DEF Start
<1>3. sid[w] \in Sessions
  BY <1>1 DEF Inv, Births
<1>4. CASE queues[sid[w]] = None
  <2>1. Goto(w, "done")
    BY <1>4 DEF Start
  <2>2. TypeOK'
    BY <1>2, <2>1, GotoType DEF Inv, TypeOK, registry
  <2>3. \A s \in Sessions : queues[s] # w
    BY <1>3, <1>4, Registered DEF Msgs, None
  <2>4. Births' /\ AtWork' /\ QueueHasReader'
    BY <1>1, <1>2, <2>1, <2>3, DeadStep DEF Goto, registry
  <2> QED BY <2>2, <2>4 DEF Inv
<1>5. CASE queues[sid[w]] # None
  <2>1. Goto(w, "get") /\ "get" \in Suspended /\ "get" \notin InProcess
    BY <1>5 DEF Start, Suspended, InProcess
  <2>2. TypeOK'
    BY <1>2, <2>1, GotoType DEF Inv, TypeOK, registry
  <2>3. Births' /\ AtWork' /\ QueueHasReader'
    BY <1>1, <1>2, <2>1, AliveStep DEF Goto, registry
  <2> QED BY <2>2, <2>3 DEF Inv
<1> QED BY <1>4, <1>5

LEMMA ReceiveInv == ASSUME Inv, NEW w \in Msgs, Receive(w) PROVE Inv'
<1> DEFINE n == Latest(w)
<1>1. PICK label \in {"llm", "get"}, how \in {"processing", "ended"} :
        /\ Goto(w, label)
        /\ fate' = [m \in Msgs |-> IF m = n THEN how
                                   ELSE IF m \in Contents(w) THEN "superseded"
                                   ELSE fate[m]]
        /\ \/ msg' = [msg EXCEPT ![w] = n] /\ GetOrCreate(sid[w])
           \/ label = "get" /\ UNCHANGED <<entry, idle, msg>>
  BY DEF Receive
<1>2. /\ pc[w] = "get" /\ Live(w) /\ buf[w] # <<>>
      /\ buf' = [buf EXCEPT ![w] = <<>>]
      /\ UNCHANGED <<queues, tasks, rounds, cancelled, toolThread, running,
                     putTo, arrived, sid>>
  BY DEF Receive
<1>3. n \in Msgs /\ Contents(w) \subseteq Msgs
  BY <1>2, ContentsType DEF Inv
<1>4. label \in Suspended /\ pc[w] \in Suspended /\ sid[w] \in Sessions
  BY <1>1, <1>2 DEF Inv, Births, Suspended, InProcess
<1>5. TypeOK'
  <2>1. entry' \in SUBSET Sessions /\ idle' \in [Sessions -> Nat]
    BY <1>1, <1>4, GetOrCreateType DEF Inv, TypeOK
  <2>2. msg' \in [Msgs -> Msgs \cup {None}]
    BY <1>1, <1>3 DEF Inv, TypeOK
  <2>3. fate' \in [Msgs -> Settled \cup {"unseen", "queued", "processing"}]
    BY <1>1 DEF Inv, TypeOK, Settled
  <2>4. buf' \in [Msgs -> Seq(Msgs)]
    BY <1>2 DEF Inv, TypeOK
  <2>5. pc' \in [Msgs -> Suspended \cup {"unborn", "done"}] /\ wait' \in [Msgs -> Nat]
    BY <1>1, <1>4, GotoType DEF Inv
  <2> QED BY <1>2, <2>1, <2>2, <2>3, <2>4, <2>5 DEF Inv, TypeOK
<1>6. Births' /\ AtWork' /\ QueueHasReader'
  <2>1. label \in InProcess => msg'[w] \in Msgs
    BY <1>1, <1>3 DEF Inv, TypeOK, InProcess
  <2>2. \A v \in Msgs \ {w} : msg'[v] = msg[v]
    BY <1>1 DEF Inv, TypeOK
  <2>3. pc' = [pc EXCEPT ![w] = label]
    BY <1>1 DEF Goto
  <2> QED BY <1>2, <1>4, <2>1, <2>2, <2>3, AliveStep
<1> QED BY <1>5, <1>6 DEF Inv

(* what a processor is registered for goes when it times out *)
LEMMA IdleExitInv == ASSUME Inv, NEW w \in Msgs, IdleExit(w) PROVE Inv'
<1>1. /\ Goto(w, "done") /\ Drop({sid[w]}) /\ Remove({sid[w]})
      /\ fate' = [m \in Msgs |-> IF m \in Contents(w) THEN "lost" ELSE fate[m]]
      /\ buf' = [buf EXCEPT ![w] = <<>>]
      /\ UNCHANGED <<msg, rounds, cancelled, toolThread, running, putTo, arrived, sid>>
  BY DEF IdleExit
<1>2. pc[w] \in Suspended /\ w \notin cancelled
  BY DEF IdleExit, Live
<1>3. TypeOK'
  <2>1. /\ entry' \in SUBSET Sessions /\ idle' \in [Sessions -> Nat]
        /\ queues' \in [Sessions -> Msgs \cup {None}]
        /\ tasks' \in [Sessions -> Msgs \cup {None}]
    BY <1>1 DEF Inv, TypeOK, Remove, Drop
  <2>2. pc' \in [Msgs -> Suspended \cup {"unborn", "done"}] /\ wait' \in [Msgs -> Nat]
    BY <1>1, GotoType DEF Inv
  <2>3. fate' \in [Msgs -> Settled \cup {"unseen", "queued", "processing"}]
    BY <1>1 DEF Inv, TypeOK, Settled
  <2>4. buf' \in [Msgs -> Seq(Msgs)]
    BY <1>1 DEF Inv, TypeOK
  <2> QED BY <1>1, <2>1, <2>2, <2>3, <2>4 DEF Inv, TypeOK
<1>4. \A s \in Sessions : \/ queues'[s] = None /\ tasks'[s] = None
                         \/ /\ queues'[s] = queues[s] /\ tasks'[s] = tasks[s]
                            /\ queues[s] # w
  BY <1>1, Registered DEF Drop
<1>5. Births' /\ AtWork' /\ QueueHasReader'
  BY <1>1, <1>2, <1>4, DeadStep DEF Goto
<1> QED BY <1>3, <1>5 DEF Inv

LEMMA CancelledInv == ASSUME Inv, NEW w \in Msgs, Cancelled(w) PROVE Inv'
<1>1. /\ w \in cancelled /\ cancelled' = cancelled \ {w}
      /\ Goto(w, "done")
      /\ fate' = [m \in Msgs |-> IF m = msg[w] THEN "ended"
                                 ELSE IF m \in Contents(w) THEN "lost"
                                 ELSE fate[m]]
      /\ msg' = [msg EXCEPT ![w] = None] /\ rounds' = [rounds EXCEPT ![w] = 0]
      /\ buf' = [buf EXCEPT ![w] = <<>>]
      /\ UNCHANGED <<registry, toolThread, running, putTo, arrived, sid>>
  BY DEF Cancelled
<1>2. pc[w] \in Suspended
  BY <1>1 DEF Inv, Births
<1>3. TypeOK'
  <2>1. pc' \in [Msgs -> Suspended \cup {"unborn", "done"}] /\ wait' \in [Msgs -> Nat]
    BY <1>1, GotoType DEF Inv
  <2>2. fate' \in [Msgs -> Settled \cup {"unseen", "queued", "processing"}]
    BY <1>1 DEF Inv, TypeOK, Settled
  <2>3. buf' \in [Msgs -> Seq(Msgs)] /\ rounds' \in [Msgs -> Nat]
    BY <1>1 DEF Inv, TypeOK
  <2>4. msg' \in [Msgs -> Msgs \cup {None}] /\ cancelled' \in SUBSET Msgs
    BY <1>1 DEF Inv, TypeOK
  <2> QED BY <1>1, <2>1, <2>2, <2>3, <2>4 DEF Inv, TypeOK, registry
<1>4. \A s \in Sessions : queues[s] # w
  BY <1>1, Registered DEF Live
<1>5. Births' /\ AtWork' /\ QueueHasReader'
  <2>1. \A v \in Msgs \ {w} : msg'[v] = msg[v]
    BY <1>1 DEF Inv, TypeOK
  <2> QED BY <1>1, <1>2, <1>4, <2>1, DeadStep DEF Goto, registry
<1> QED BY <1>3, <1>5 DEF Inv

(* the four ways in which _process_message() ends *)
LEMMA EndInv ==
    ASSUME Inv, NEW w \in Msgs,
           Reply(w) \/ Block(w) \/ Raise(w) \/ ProcessTimeout(w)
    PROVE  Inv'
<1>1. PICK label \in {"get", "pause"} : End(w, label)
  BY DEF Reply, Block, Raise, ProcessTimeout
<1>2. /\ pc[w] \in Suspended
      /\ idle' = [idle EXCEPT ![sid[w]] = 0] \/ UNCHANGED idle
      /\ UNCHANGED <<entry, queues, tasks, buf, cancelled, toolThread, running,
                     putTo, arrived, sid>>
  BY DEF Reply, Block, Raise, ProcessTimeout, Live, Touch, registry
<1>3. label \in Suspended /\ label \notin InProcess
  BY DEF Suspended, InProcess
<1>4. TypeOK'
  <2>1. sid[w] \in Sessions
    BY <1>2 DEF Inv, Births, Suspended, InProcess
  <2>2. idle \in [Sessions -> Nat]
    BY DEF Inv, TypeOK
  <2>3. idle' \in [Sessions -> Nat]
    BY <1>2, <2>1, <2>2
  <2> QED BY <1>1, <1>2, <1>3, <2>3, EndType DEF Inv, TypeOK
<1>5. Births' /\ AtWork' /\ QueueHasReader'
  <2>1. pc' = [pc EXCEPT ![w] = label] /\ \A v \in Msgs \ {w} : msg'[v] = msg[v]
    BY <1>1 DEF Inv, TypeOK, End, Goto
  <2> QED BY <1>2, <1>3, <2>1, AliveStep
<1> QED BY <1>4, <1>5 DEF Inv

(* steps that only move a processor from one suspension to another *)
LEMMA MoveInv ==
    ASSUME Inv, NEW w \in Msgs,
           IdleTimer(w) \/ SwallowCancel(w) \/ ToolRound(w) \/ ToolReturns(w)
             \/ ForceSummary(w) \/ Resume(w)
    PROVE  Inv'
<1>1. /\ pc[w] \in Suspended
      /\ pc[w] \in InProcess => msg[w] \in Msgs
  BY DEF IdleTimer, SwallowCancel, ToolRound, ToolReturns, ForceSummary, Resume,
         Live, Suspended, Inv, AtWork
<1>2. /\ pc'[w] \in Suspended /\ pc' = [pc EXCEPT ![w] = pc'[w]]
      /\ pc'[w] \in InProcess => pc[w] \in InProcess
  BY DEF IdleTimer, SwallowCancel, ToolRound, ToolReturns, ForceSummary, Resume,
         Goto, Suspended, InProcess, processor, Inv, TypeOK
<1>3. /\ cancelled' \subseteq cancelled
      /\ UNCHANGED <<registry, msg, buf, running, putTo, arrived, sid, fate>>
  BY DEF IdleTimer, SwallowCancel, ToolRound, ToolReturns, ForceSummary, Resume,
         processor
<1>4. TypeOK'
  <2>1. wait' \in [Msgs -> Nat]
    <3>1. wait' = wait \/ wait' = [wait EXCEPT ![w] = 0]
      BY DEF IdleTimer, SwallowCancel, ToolRound, ToolReturns, ForceSummary,
             Resume, Goto, processor
    <3>2. wait \in [Msgs -> Nat]
      BY DEF Inv, TypeOK
    <3> QED BY <3>1, <3>2
  <2>2. rounds' \in [Msgs -> Nat]
    <3>1. rounds' = rounds \/ rounds' = [rounds EXCEPT ![w] = rounds[w] + 1]
      BY DEF IdleTimer, SwallowCancel, ToolRound, ToolReturns, ForceSummary,
             Resume, processor
    <3>2. rounds \in [Msgs -> Nat]
      BY DEF Inv, TypeOK
    <3> QED BY <3>1, <3>2
  <2>3. toolThread' \in SUBSET Msgs
    BY <1>1 DEF IdleTimer, SwallowCancel, ToolRound, ToolReturns, ForceSummary,
           Resume, InProcess, Inv, TypeOK
  <2>4. pc' \in [Msgs -> Suspended \cup {"unborn", "done"}]
    BY <1>2 DEF Inv, TypeOK
  <2> QED BY <1>3, <2>1, <2>2, <2>3, <2>4 DEF Inv, TypeOK, registry
<1>5. Births' /\ AtWork' /\ QueueHasReader'
  BY <1>1, <1>2, <1>3, AliveStep DEF registry
<1> QED BY <1>4, <1>5 DEF Inv

----------------------------------------------------------------------------
(* Steps of the main loop, the executor and the clock *)

LEMMA PutResumesInv == ASSUME Inv, PutResumes PROVE Inv'
<1>1. /\ putTo # None /\ putTo' = None
      /\ buf' = [buf EXCEPT ![putTo] = Append(buf[putTo], arrived)]
      /\ UNCHANGED <<registry, processor, cancelled, toolThread, running, arrived,
                     sid, fate>>
  BY DEF PutResumes
<1>2. putTo \in Msgs /\ arrived \in Msgs
  BY <1>1, ConstantsAssumption DEF Inv, TypeOK, AtWork, Msgs
<1>3. buf' \in [Msgs -> Seq(Msgs)]
  <2>1. buf \in [Msgs -> Seq(Msgs)] /\ Append(buf[putTo], arrived) \in Seq(Msgs)
    BY <1>2 DEF Inv, TypeOK
  <2> QED BY <1>1, <2>1
<1>4. TypeOK'
  BY <1>1, <1>3 DEF Inv, TypeOK, registry, processor
<1>5. Births' /\ AtWork' /\ QueueHasReader'
  BY <1>1 DEF Inv, Births, AtWork, QueueHasReader, Live, registry, processor
<1> QED BY <1>4, <1>5 DEF Inv

(* dropping sessions and cancelling what was registered for them *)
LEMMA DropInv ==
    ASSUME Inv, NEW S \in SUBSET Sessions, Drop(S), Cancel(S),
           UNCHANGED <<processor, sid, arrived, putTo>>
    PROVE  /\ Births' /\ AtWork' /\ QueueHasReader'
           /\ queues' \in [Sessions -> Msgs \cup {None}]
           /\ tasks' \in [Sessions -> Msgs \cup {None}]
           /\ cancelled' \in SUBSET Msgs
<1>1. \A w \in cancelled' : w \in cancelled \/ \E s \in S : w \in Msgs /\ tasks[s] = w
  BY DEF Cancel
<1>2. \A s \in Sessions : tasks[s] = queues[s]
  BY DEF Inv, QueueHasReader
<1>3. \A w \in cancelled' : pc[w] \in Suspended
  BY <1>1, <1>2, Registered DEF Inv, Births, Live
<1>4. Births' /\ AtWork'
  BY <1>3 DEF Inv, Births, AtWork, processor
<1>5. QueueHasReader'
  <2> SUFFICES ASSUME NEW s \in Sessions, s \notin S, queues[s] # None
               PROVE  Live(queues[s])' /\ sid[queues[s]] = s
    BY <1>2 DEF QueueHasReader, Drop, Live
  <2>1. queues[s] \in Msgs /\ Live(queues[s]) /\ sid[queues[s]] = s
    BY Registered DEF Inv, TypeOK
  <2>2. queues[s] \notin cancelled'
    BY <1>1, <1>2, <2>1, Registered DEF Live
  <2> QED BY <2>1, <2>2 DEF Live, processor, Drop
<1>6. /\ queues' \in [Sessions -> Msgs \cup {None}]
      /\ tasks' \in [Sessions -> Msgs \cup {None}]
      /\ cancelled' \in SUBSET Msgs
  BY <1>1 DEF Inv, TypeOK, Drop
<1> QED BY <1>4, <1>5, <1>6

LEMMA SweepInv == ASSUME Inv, Sweep PROVE Inv'
<1>1. Orphans \cup Stuck \in SUBSET Sessions
  BY DEF Orphans, Stuck
<1>2. /\ Drop(Orphans \cup Stuck) /\ Cancel(Orphans \cup Stuck)
      /\ Remove(Expired \cup Stuck)
      /\ UNCHANGED <<processor, buf, toolThread, running, putTo, arrived, sid, fate>>
  BY DEF Sweep
<1>3. entry' \in SUBSET Sessions /\ idle' \in [Sessions -> Nat]
  BY <1>2 DEF Inv, TypeOK, Remove
<1> QED BY <1>1, <1>2, <1>3, DropInv DEF Inv, TypeOK, processor

LEMMA ShutdownInv == ASSUME Inv, Shutdown PROVE Inv'
<1>1. /\ Drop(Sessions) /\ Cancel(Sessions) /\ running' = FALSE
      /\ UNCHANGED <<entry, idle, processor, buf, toolThread, putTo, arrived, sid>>
  BY DEF Shutdown
<1>2. fate' \in [Msgs -> Settled \cup {"unseen", "queued", "processing"}]
  BY DEF Inv, TypeOK, Shutdown, Settled
<1> QED BY <1>1, <1>2, DropInv DEF Inv, TypeOK, processor

LEMMA OutsideInv == ASSUME Inv, AbandonedToolEnds \/ Tick PROVE Inv'
<1>1. /\ UNCHANGED <<entry, queues, tasks, pc, msg, rounds, buf, cancelled,
                     running, putTo, arrived, sid, fate>>
      /\ toolThread' \subseteq toolThread
  BY DEF AbandonedToolEnds, Tick, registry, processor
<1>2. idle' \in [Sessions -> Nat] /\ wait' \in [Msgs -> Nat]
  <2>1. ASSUME NEW t \in Nat, NEW cap PROVE Later(t, cap) \in Nat
    BY DEF Later
  <2>2. idle \in [Sessions -> Nat] /\ wait \in [Msgs -> Nat]
    BY DEF Inv, TypeOK
  <2>3. CASE AbandonedToolEnds
    BY <2>2, <2>3 DEF AbandonedToolEnds, registry, processor
  <2>4. CASE Tick
    <3>1. idle' \in [Sessions -> Nat]
      BY <2>1, <2>2, <2>4 DEF Tick
    <3>2. wait' \in [Msgs -> Nat]
      BY <2>1, <2>2, <2>4 DEF Tick
    <3> QED BY <3>1, <3>2
  <2> QED BY <2>3, <2>4
<1> QED BY <1>1, <1>2
        DEF Inv, TypeOK, Births, AtWork, QueueHasReader, Live

----------------------------------------------------------------------------
LEMMA NextInv == ASSUME Inv, [Next]_vars PROVE Inv'
<1>1. CASE UNCHANGED vars
  BY <1>1, NoStep
<1>2. CASE \E s \in Sessions : Dispatch(s)
  BY <1>2, DispatchInv
<1>3. CASE PutResumes \/ Sweep \/ Shutdown
  BY <1>3, PutResumesInv, SweepInv, ShutdownInv
<1>4. CASE AbandonedToolEnds \/ Tick
  BY <1>4, OutsideInv
<1>5. ASSUME NEW w \in Msgs, ProcessorStep(w) \/ ToolReturns(w) PROVE Inv'
  BY <1>5, StartInv, ReceiveInv, IdleExitInv, CancelledInv, MoveInv, EndInv
     DEF ProcessorStep
<1> QED BY <1>1, <1>2, <1>3, <1>4, <1>5 DEF Next, MainLoop

(* Type correctness of the session layer, whatever the limits and timeouts. *)
THEOREM TypeCorrect == Spec => []TypeOK
<1>1. Init => Inv
  BY InitInv
<1>2. Inv /\ [Next]_vars => Inv'
  BY NextInv
<1>3. Inv => TypeOK
  BY DEF Inv
<1> QED BY <1>1, <1>2, <1>3, PTL DEF Spec

(* A message is never put where nobody reads: the queue under which a       *)
(* session is registered belongs to its live processor.  It holds on every  *)
(* Python the project supports, swallowed cancellations included.           *)
THEOREM QueuesAreRead == Spec => []QueueHasReader
<1>1. Init => Inv
  BY InitInv
<1>2. Inv /\ [Next]_vars => Inv'
  BY NextInv
<1>3. Inv => QueueHasReader
  BY DEF Inv
<1> QED BY <1>1, <1>2, <1>3, PTL DEF Spec

----------------------------------------------------------------------------
(* Serial processing, where wait_for() delivers every cancellation *)

(* a step of processor v that registers nothing and revives nobody *)
LEMMA SerialStep ==
    ASSUME Inv, SerialProcessing, NEW v \in Msgs,
           \A w \in Msgs \ {v} : pc'[w] = pc[w],
           Live(v)' => Live(v),
           \A w \in Msgs \ {v} : w \in cancelled => w \in cancelled',
           UNCHANGED <<tasks, sid>>
    PROVE  SerialProcessing'
<1>1. \A w \in Msgs : Live(w)' => Live(w)
  BY DEF Live
<1> QED BY <1>1 DEF SerialProcessing

LEMMA ProcessorSerial ==
    ASSUME Inv, SerialProcessing, SwallowsCancel = FALSE, NEW v \in Msgs,
           ProcessorStep(v) \/ ToolReturns(v)
    PROVE  SerialProcessing'
<1>1. CASE IdleExit(v)
  <2>1. /\ Goto(v, "done") /\ Drop({sid[v]}) /\ UNCHANGED <<cancelled, sid>>
        /\ Live(v)
    BY <1>1 DEF IdleExit
  <2> SUFFICES ASSUME NEW w \in Msgs, Live(w)' PROVE tasks'[sid'[w]] = w
    BY DEF SerialProcessing
  <2>2. w # v /\ Live(w)
    BY <2>1 DEF Live, Goto, Suspended, InProcess, Inv, TypeOK
  <2>3. sid[w] \in Sessions /\ tasks[sid[w]] = w /\ tasks[sid[v]] = v
    BY <2>1, <2>2 DEF SerialProcessing, Inv, Births, Live, Suspended, InProcess
  <2> QED BY <2>1, <2>2, <2>3 DEF Drop
<1>2. CASE Cancelled(v)
  <2>1. /\ Goto(v, "done") /\ cancelled' = cancelled \ {v}
        /\ UNCHANGED <<registry, sid>>
    BY <1>2 DEF Cancelled
  <2>2. pc'[v] = "done" /\ \A w \in Msgs \ {v} : pc'[w] = pc[w]
    BY <2>1 DEF Goto, Inv, TypeOK
  <2> QED BY <2>1, <2>2, SerialStep DEF Live, Suspended, InProcess, registry
<1>3. CASE ~IdleExit(v) /\ ~Cancelled(v)
  <2>1. Live(v)
    BY <1>3 DEF ProcessorStep, Start, Receive, IdleTimer, SwallowCancel, ToolRound,
         ForceSummary, Reply, Block, Raise, Resume, ProcessTimeout, ToolReturns
  <2>2. UNCHANGED <<cancelled, tasks, sid>>
    BY <1>3 DEF ProcessorStep, Start, Receive, IdleTimer, SwallowCancel, ToolRound,
         ForceSummary, Reply, Block, Raise, Resume, ProcessTimeout, ToolReturns,
         registry
  <2>3. \A w \in Msgs \ {v} : pc'[w] = pc[w]
    BY <1>3 DEF ProcessorStep, Start, Receive, IdleTimer, SwallowCancel, ToolRound,
         ForceSummary, Reply, Block, Raise, Resume, ProcessTimeout, ToolReturns,
         End, Goto, Inv, TypeOK
  <2> QED BY <2>1, <2>2, <2>3, SerialStep
<1> QED BY <1>1, <1>2, <1>3

LEMMA DropSerial ==
    ASSUME Inv, SerialProcessing, NEW S \in SUBSET Sessions, Drop(S), Cancel(S),
           UNCHANGED <<pc, sid>>
    PROVE  SerialProcessing'
<1> SUFFICES ASSUME NEW w \in Msgs, Live(w)' PROVE tasks'[sid[w]] = w
  BY DEF SerialProcessing
<1>1. Live(w) /\ w \notin cancelled'
  BY DEF Live, Cancel
<1>2. sid[w] \in Sessions /\ tasks[sid[w]] = w /\ pc[w] # "done"
  BY <1>1 DEF SerialProcessing, Inv, Births, Live, Suspended, InProcess
<1>3. sid[w] \notin S
  BY <1>1, <1>2 DEF Cancel
<1> QED BY <1>2, <1>3 DEF Drop

LEMMA DispatchSerial ==
    ASSUME Inv, SerialProcessing, NEW s \in Sessions, Dispatch(s)
    PROVE  SerialProcessing'
<1> DEFINE n == arrived + 1
<1>1. /\ sid' = [sid EXCEPT ![n] = s] /\ cancelled' = cancelled
      /\ arrived < MaxMsgs
      /\ \/ /\ queues[s] = None
            /\ tasks' = [tasks EXCEPT ![s] = n] /\ pc' = [pc EXCEPT ![n] = "starting"]
         \/ UNCHANGED <<tasks, pc>>
  BY DEF Dispatch
<1>2. n \in Msgs /\ arrived \in Nat
  BY <1>1, ConstantsAssumption DEF Inv, TypeOK, Msgs
<1>3. pc[n] = "unborn"
  <2>1. pc[n] # "unborn" => n <= arrived
    BY <1>2 DEF Inv, Births
  <2> QED BY <1>2, <2>1
<1> HIDE DEF n
<1> SUFFICES ASSUME NEW w \in Msgs, Live(w)' PROVE tasks'[sid'[w]] = w
  BY DEF SerialProcessing
<1>4. CASE w = n
  <2>1. /\ queues[s] = None /\ tasks' = [tasks EXCEPT ![s] = n]
    BY <1>1, <1>3, <1>4 DEF Live, Suspended, InProcess
  <2> QED BY <1>1, <1>2, <1>4, <2>1 DEF Inv, TypeOK
<1>5. CASE w # n
  <2>1. Live(w) /\ sid'[w] = sid[w]
    BY <1>1, <1>2, <1>5 DEF Live, Inv, TypeOK
  <2>2. sid[w] \in Sessions /\ tasks[sid[w]] = w
    BY <2>1 DEF SerialProcessing, Inv, Births, Live, Suspended, InProcess
  <2>3. queues[s] = None => tasks[s] # w
    BY DEF Inv, QueueHasReader, Msgs, None
  <2> QED BY <1>1, <2>1, <2>2, <2>3 DEF Inv, TypeOK
<1> QED BY <1>4, <1>5

LEMMA NextSerial ==
    ASSUME Inv, SerialProcessing, SwallowsCancel = FALSE, [Next]_vars
    PROVE  SerialProcessing'
<1>1. CASE UNCHANGED vars
  BY <1>1 DEF vars, registry, processor, SerialProcessing, Live
<1>2. CASE \E s \in Sessions : Dispatch(s)
  BY <1>2, DispatchSerial
<1>3. CASE PutResumes \/ AbandonedToolEnds \/ Tick
  BY <1>3 DEF PutResumes, AbandonedToolEnds, Tick, registry, processor,
              SerialProcessing, Live
<1>4. CASE Sweep
  <2>1. Orphans \cup Stuck \in SUBSET Sessions
    BY DEF Orphans, Stuck
  <2> QED BY <1>4, <2>1, DropSerial DEF Sweep, processor
<1>5. CASE Shutdown
  BY <1>5, DropSerial DEF Shutdown, processor
<1>6. CASE \E v \in Msgs : ProcessorStep(v) \/ ToolReturns(v)
  BY <1>6, ProcessorSerial
<1> QED BY <1>1, <1>2, <1>3, <1>4, <1>5, <1>6 DEF Next, MainLoop

(* Messages within a session are processed serially: a processor that can  *)
(* still take a step is the one registered for its session, so there is at *)
(* most one.  It needs every cancellation delivered (Python 3.12 on).      *)
THEOREM ProcessingIsSerial == SwallowsCancel = FALSE => (Spec => []SerialProcessing)
<1> SUFFICES ASSUME SwallowsCancel = FALSE PROVE Spec => []SerialProcessing
  OBVIOUS
<1> DEFINE SInv == Inv /\ SerialProcessing
<1>1. Init => SInv
  <2>1. Init => SerialProcessing
    BY DEF Init, SerialProcessing, Live, Suspended, InProcess
  <2> QED BY <2>1, InitInv
<1>2. SInv /\ [Next]_vars => SInv'
  BY NextInv, NextSerial
<1>3. SInv => SerialProcessing
  OBVIOUS
<1> HIDE DEF SInv
<1> QED BY <1>1, <1>2, <1>3, PTL DEF Spec

----------------------------------------------------------------------------
(* No entry is left over, where wait_for() delivers every cancellation *)

(* get_or_create() adds at most the session it is called for *)
LEMMA GetOrCreateAdds ==
    ASSUME NEW s \in Sessions, GetOrCreate(s)
    PROVE  entry' \subseteq entry \cup {s}
BY DEF GetOrCreate, LeastRecentlyUsed

LEMMA DispatchEntries ==
    ASSUME Inv, EntryHasTask, NEW s \in Sessions, Dispatch(s)
    PROVE  EntryHasTask'
<1> DEFINE n == arrived + 1
<1>1. /\ UNCHANGED running /\ arrived < MaxMsgs
      /\ \/ GetOrCreate(s) /\ tasks' = [tasks EXCEPT ![s] = n]
         \/ UNCHANGED <<entry, tasks>>
  BY DEF Dispatch
<1>2. n # None
  BY DEF Inv, TypeOK, None
<1> HIDE DEF n
<1>3. CASE GetOrCreate(s) /\ tasks' = [tasks EXCEPT ![s] = n]
  BY <1>1, <1>2, <1>3, GetOrCreateAdds DEF EntryHasTask, Inv, TypeOK
<1>4. CASE UNCHANGED <<entry, tasks>>
  BY <1>1, <1>4 DEF EntryHasTask
<1> QED BY <1>1, <1>3, <1>4

LEMMA SweepEntries == ASSUME EntryHasTask, Inv, Sweep PROVE EntryHasTask'
<1>1. /\ entry' = entry \ (Expired \cup Stuck)
      /\ tasks' = [s \in Sessions |-> IF s \in Orphans \cup Stuck THEN None ELSE tasks[s]]
      /\ UNCHANGED running
  BY DEF Sweep, Remove, Drop
<1>2. \A s \in entry' : s \in Sessions /\ s \notin Orphans \cup Stuck
  BY <1>1 DEF Orphans, Inv, TypeOK
<1> QED BY <1>1, <1>2 DEF EntryHasTask

LEMMA ProcessorEntries ==
    ASSUME Inv, SerialProcessing, EntryHasTask, NEW w \in Msgs,
           ProcessorStep(w) \/ ToolReturns(w)
    PROVE  EntryHasTask'
<1>1. CASE Receive(w)
  <2>1. Live(w) /\ UNCHANGED <<tasks, running>> /\ (GetOrCreate(sid[w]) \/ UNCHANGED entry)
    BY <1>1 DEF Receive
  <2>2. sid[w] \in Sessions /\ tasks[sid[w]] # None
    BY <2>1 DEF SerialProcessing, Inv, Births, Live, Suspended, InProcess, Msgs, None
  <2> QED BY <2>1, <2>2, GetOrCreateAdds DEF EntryHasTask
<1>2. CASE IdleExit(w)
  <2>1. /\ entry' = entry \ {sid[w]} /\ UNCHANGED running
        /\ tasks' = [s \in Sessions |-> IF s \in {sid[w]} THEN None ELSE tasks[s]]
    BY <1>2 DEF IdleExit, Drop, Remove
  <2> QED BY <2>1 DEF EntryHasTask, Inv, TypeOK
<1>3. CASE ~Receive(w) /\ ~IdleExit(w)
  <2>1. UNCHANGED <<entry, tasks, running>>
    BY <1>3 DEF ProcessorStep, Start, IdleTimer, Cancelled, SwallowCancel, ToolRound,
         ForceSummary, Reply, Block, Raise, Resume, ProcessTimeout, ToolReturns, registry
  <2> QED BY <2>1 DEF EntryHasTask
<1> QED BY <1>1, <1>2, <1>3

LEMMA NextEntries ==
    ASSUME Inv, SerialProcessing, EntryHasTask, [Next]_vars
    PROVE  EntryHasTask'
<1>1. CASE UNCHANGED vars \/ PutResumes \/ AbandonedToolEnds \/ Tick
  BY <1>1 DEF vars, registry, PutResumes, AbandonedToolEnds, Tick, EntryHasTask
<1>2. CASE \E s \in Sessions : Dispatch(s)
  BY <1>2, DispatchEntries
<1>3. CASE Sweep
  BY <1>3, SweepEntries
<1>4. CASE Shutdown
  BY <1>4 DEF Shutdown, EntryHasTask
<1>5. CASE \E w \in Msgs : ProcessorStep(w) \/ ToolReturns(w)
  BY <1>5, ProcessorEntries
<1> QED BY <1>1, <1>2, <1>3, <1>4, <1>5 DEF Next, MainLoop

(* While the worker runs, every entry of SessionManager stands for a        *)
(* registered processor, so somebody will remove it: evictions, idle exits  *)
(* and sweeps in any order leave no entry behind.                           *)
THEOREM EntriesAreOwned == SwallowsCancel = FALSE => (Spec => []EntryHasTask)
<1> SUFFICES ASSUME SwallowsCancel = FALSE PROVE Spec => []EntryHasTask
  OBVIOUS
<1> DEFINE EInv == Inv /\ SerialProcessing /\ EntryHasTask
<1>1. Init => EInv
  <2>1. Init => SerialProcessing /\ EntryHasTask
    BY DEF Init, SerialProcessing, EntryHasTask, Live, Suspended, InProcess
  <2> QED BY <2>1, InitInv
<1>2. EInv /\ [Next]_vars => EInv'
  BY NextInv, NextSerial, NextEntries
<1>3. EInv => EntryHasTask
  OBVIOUS
<1> HIDE DEF EInv
<1> QED BY <1>1, <1>2, <1>3, PTL DEF Spec

----------------------------------------------------------------------------
(* The session table *)

Capacity == IsFiniteSet(entry) /\ WithinCapacity

(* fewer entries fit where more did *)
LEMMA CapacityShrinks ==
    ASSUME Capacity, entry' \subseteq entry
    PROVE  Capacity'
<1>1. /\ IsFiniteSet(entry') /\ Cardinality(entry') <= Cardinality(entry)
      /\ Cardinality(entry) \in Nat /\ Cardinality(entry') \in Nat
  BY FS_Subset, FS_CardinalityType DEF Capacity
<1> QED BY <1>1, ConstantsAssumption DEF Capacity, WithinCapacity

LEMMA GetOrCreateCapacity ==
    ASSUME Capacity, NEW s \in Sessions, GetOrCreate(s)
    PROVE  Capacity'
<1>1. CASE UNCHANGED entry
  BY <1>1, CapacityShrinks
<1>2. CASE /\ s \notin entry /\ Cardinality(entry) < MaxSessions
           /\ entry' = entry \cup {s}
  <2>1. IsFiniteSet(entry') /\ Cardinality(entry') = Cardinality(entry) + 1
    BY <1>2, FS_AddElement DEF Capacity
  <2>2. Cardinality(entry) \in Nat
    BY FS_CardinalityType DEF Capacity
  <2> QED BY <1>2, <2>1, <2>2, ConstantsAssumption DEF Capacity, WithinCapacity
<1>3. ASSUME NEW v \in entry, s \notin entry, entry' = (entry \ {v}) \cup {s}
      PROVE  Capacity'
  <2>1. /\ IsFiniteSet(entry \ {v}) /\ Cardinality(entry \ {v}) = Cardinality(entry) - 1
    BY FS_RemoveElement DEF Capacity
  <2>2. IsFiniteSet(entry') /\ Cardinality(entry') = Cardinality(entry \ {v}) + 1
    BY <1>3, <2>1, FS_AddElement
  <2>3. Cardinality(entry) \in Nat
    BY FS_CardinalityType DEF Capacity
  <2> QED BY <2>1, <2>2, <2>3 DEF Capacity, WithinCapacity
<1> QED BY <1>1, <1>2, <1>3 DEF GetOrCreate, LeastRecentlyUsed

LEMMA NextCapacity == ASSUME Inv, Capacity, [Next]_vars PROVE Capacity'
<1>1. CASE \E s \in Sessions : Dispatch(s)
  <2>1. PICK s \in Sessions : GetOrCreate(s) \/ UNCHANGED entry
    BY <1>1 DEF Dispatch
  <2> QED BY <2>1, GetOrCreateCapacity, CapacityShrinks
<1>2. ASSUME NEW w \in Msgs, Receive(w) PROVE Capacity'
  <2>1. sid[w] \in Sessions /\ (GetOrCreate(sid[w]) \/ UNCHANGED entry)
    BY <1>2 DEF Receive, Live, Inv, Births
  <2> QED BY <2>1, GetOrCreateCapacity, CapacityShrinks
<1>3. ASSUME NEW w \in Msgs, ~Receive(w), ProcessorStep(w) \/ ToolReturns(w)
      PROVE  Capacity'
  <2>1. entry' \subseteq entry
    BY <1>3 DEF ProcessorStep, Start, IdleTimer, IdleExit, Remove, Cancelled,
         SwallowCancel, ToolRound, ForceSummary, Reply, Block, Raise, Resume,
         ProcessTimeout, ToolReturns, registry
  <2> QED BY <2>1, CapacityShrinks
<1>4. CASE UNCHANGED vars \/ PutResumes \/ Sweep \/ Shutdown \/ AbandonedToolEnds \/ Tick
  <2>1. entry' \subseteq entry
    BY <1>4 DEF vars, registry, PutResumes, Sweep, Remove, Shutdown,
         AbandonedToolEnds, Tick
  <2> QED BY <2>1, CapacityShrinks
<1> QED BY <1>1, <1>2, <1>3, <1>4 DEF Next, MainLoop

(* max_sessions bounds the session table, though two places create entries *)
(* and eviction makes room without asking what its victim does.            *)
THEOREM TableIsBounded == Spec => []WithinCapacity
<1> DEFINE CInv == Inv /\ Capacity
<1>1. Init => CInv
  <2>1. ASSUME Init PROVE Capacity
    <3>1. IsFiniteSet(entry) /\ Cardinality(entry) = 0
      BY <2>1, FS_EmptySet DEF Init
    <3> QED BY <3>1, ConstantsAssumption DEF Capacity, WithinCapacity
  <2> QED BY <2>1, InitInv
<1>2. CInv /\ [Next]_vars => CInv'
  BY NextInv, NextCapacity
<1>3. CInv => WithinCapacity
  BY DEF Capacity
<1> HIDE DEF CInv
<1> QED BY <1>1, <1>2, <1>3, PTL DEF Spec

-----------------------------------------------------------------------------
(***************************************************************************)
(* AsyncSessions implements SessionService, and starts the messages of a   *)
(* session in order, for every number of sessions and messages and         *)
(* whatever the limits and timeouts, where wait_for() delivers every       *)
(* cancellation.                                                           *)
(***************************************************************************)

(* the last message that is in a queue or past one *)
Accepted == IF putTo = None THEN arrived ELSE arrived - 1

Ascending(s) == \A i, j \in DOMAIN s : i < j => s[i] < s[j]

(* queues are in order, hold what nobody began and share nothing *)
Lines ==
    /\ \A q \in Msgs : Ascending(buf[q])
    /\ \A q \in Msgs : \A n \in Contents(q) : n <= Accepted /\ ~Begun(n)
    /\ \A q, r \in Msgs : q # r => Contents(q) \cap Contents(r) = {}

(* a message is in hand while it is processed, and begun from then on *)
InHand ==
    /\ \A n \in Msgs : Begun(n) => n <= Accepted
    /\ \A w \in Msgs : msg[w] # None => Begun(msg[w])
    /\ \A w \in Msgs : pc[w] \notin InProcess => msg[w] = None
    /\ \A w \in Msgs : pc[w] = "unborn" => buf[w] = <<>>

(* a put() that waits does so at the queue of its session, which stays *)
AtQueue ==
    /\ running /\ putTo # None =>
          sid[arrived] \in Sessions /\ queues[sid[arrived]] = putTo
    /\ \A w \in Msgs : pc[w] = "expiring" => putTo # w

(* what a living processor will read is newer than all its session began *)
Ahead ==
    \A w \in Msgs : Live(w) => \A n \in Contents(w) :
        sid[n] = sid[w] /\ \A m \in Msgs : Begun(m) /\ sid[m] = sid[w] => m < n

RInv == Inv /\ SerialProcessing /\ Lines /\ InHand /\ AtQueue /\ Ahead

----------------------------------------------------------------------------
(* Queues *)

LEMMA QueueType ==
    ASSUME TypeOK, NEW q \in Msgs
    PROVE  /\ buf[q] \in Seq(Msgs) /\ Len(buf[q]) \in Nat
           /\ DOMAIN buf[q] = 1 .. Len(buf[q])
           /\ buf[q] # <<>> => Len(buf[q]) \in DOMAIN buf[q]
           /\ \A i \in DOMAIN buf[q] : buf[q][i] \in Msgs /\ buf[q][i] \in Nat
<1>1. buf[q] \in Seq(Msgs)
  BY DEF TypeOK
<1>2. Len(buf[q]) \in Nat /\ DOMAIN buf[q] = 1 .. Len(buf[q])
  BY <1>1
<1>3. ASSUME buf[q] # <<>> PROVE Len(buf[q]) # 0
  BY <1>1, <1>3
<1>4. \A i \in DOMAIN buf[q] : buf[q][i] \in Msgs
  BY <1>1
<1> QED BY <1>1, <1>2, <1>3, <1>4 DEF Msgs

(* the last message of a queue is its newest *)
LEMMA LatestIsNewest ==
    ASSUME TypeOK, NEW q \in Msgs, Ascending(buf[q]), buf[q] # <<>>
    PROVE  Latest(q) \in Contents(q) /\ \A n \in Contents(q) : n <= Latest(q)
<1>1. Len(buf[q]) \in DOMAIN buf[q] /\ DOMAIN buf[q] = 1 .. Len(buf[q])
      /\ Len(buf[q]) \in Nat
  BY QueueType
<1>2. Latest(q) \in Contents(q)
  BY <1>1 DEF Latest, Contents
<1>3. ASSUME NEW i \in DOMAIN buf[q] PROVE buf[q][i] <= Latest(q)
  <2>1. buf[q][i] \in Nat
    BY <1>3, QueueType
  <2>2. CASE i = Len(buf[q])
    BY <2>1, <2>2 DEF Latest
  <2>3. CASE i # Len(buf[q])
    <3>1. i < Len(buf[q])
      BY <1>1, <1>3, <2>3
    <3>2. buf[q][i] < buf[q][Len(buf[q])] /\ buf[q][Len(buf[q])] \in Nat
      BY <1>1, <1>3, <3>1, QueueType DEF Ascending
    <3> QED BY <2>1, <3>2 DEF Latest
  <2> QED BY <2>2, <2>3
<1> QED BY <1>2, <1>3 DEF Contents

LEMMA Appended ==
    ASSUME TypeOK, NEW q \in Msgs, NEW n \in Msgs,
           buf' = [buf EXCEPT ![q] = Append(@, n)]
    PROVE  /\ Contents(q)' = Contents(q) \cup {n}
           /\ \A r \in Msgs \ {q} : buf'[r] = buf[r] /\ Contents(r)' = Contents(r)
           /\ Ascending(buf[q]) /\ (\A m \in Contents(q) : m < n) => Ascending(buf'[q])
<1>1. /\ buf[q] \in Seq(Msgs) /\ Len(buf[q]) \in Nat
      /\ DOMAIN buf[q] = 1 .. Len(buf[q])
  BY QueueType
<1>2. buf'[q] = Append(buf[q], n) /\ \A r \in Msgs \ {q} : buf'[r] = buf[r]
  BY DEF TypeOK
<1>3. /\ DOMAIN buf'[q] = 1 .. Len(buf[q]) + 1
      /\ buf'[q][Len(buf[q]) + 1] = n
      /\ \A i \in 1 .. Len(buf[q]) : buf'[q][i] = buf[q][i]
  BY <1>1, <1>2
<1>4. Contents(q)' = Contents(q) \cup {n}
  BY <1>1, <1>3 DEF Contents
<1>5. ASSUME Ascending(buf[q]), \A m \in Contents(q) : m < n
      PROVE  Ascending(buf'[q])
  <2> SUFFICES ASSUME NEW i \in 1 .. Len(buf[q]) + 1, NEW j \in 1 .. Len(buf[q]) + 1,
                      i < j
               PROVE  buf'[q][i] < buf'[q][j]
    BY <1>3 DEF Ascending
  <2>1. i \in 1 .. Len(buf[q])
    BY <1>1
  <2>2. CASE j \in 1 .. Len(buf[q])
    BY <1>1, <1>3, <1>5, <2>1, <2>2 DEF Ascending
  <2>3. CASE j = Len(buf[q]) + 1
    BY <1>1, <1>3, <1>5, <2>1, <2>3 DEF Contents
  <2> QED BY <1>1, <2>2, <2>3
<1> QED BY <1>2, <1>4, <1>5 DEF Contents

LEMMA Emptied ==
    ASSUME TypeOK, NEW q \in Msgs, buf' = [buf EXCEPT ![q] = <<>>]
    PROVE  /\ Contents(q)' = {} /\ Ascending(buf'[q])
           /\ \A r \in Msgs \ {q} : buf'[r] = buf[r] /\ Contents(r)' = Contents(r)
<1>1. buf'[q] = <<>> /\ \A r \in Msgs \ {q} : buf'[r] = buf[r]
  BY DEF TypeOK
<1> QED BY <1>1 DEF Contents, Ascending

LEMMA NumberTypes ==
    ASSUME Inv
    PROVE  /\ arrived \in Nat /\ Accepted \in Nat /\ Accepted <= arrived
           /\ Msgs \subseteq Nat \ {0} /\ None \notin Msgs
           /\ \A q \in Msgs : Contents(q) \subseteq Msgs
<1>1. arrived \in Nat /\ (putTo # None => arrived # 0)
  BY ConstantsAssumption DEF Inv, TypeOK, AtWork
<1>2. \A q \in Msgs : Contents(q) \subseteq Msgs
  BY ContentsType DEF Inv
<1> QED BY <1>1, <1>2 DEF Accepted, Msgs, None

(* a queue gets a message that is newer than all that were accepted *)
LEMMA LinesGrow ==
    ASSUME Inv, Lines, NEW q \in Msgs, NEW n \in Msgs,
           buf' = [buf EXCEPT ![q] = Append(@, n)],
           Accepted < n, Accepted' = n,
           \A m \in Msgs : Begun(m)' => Begun(m) /\ m # n
    PROVE  Lines'
<1>1. /\ Contents(q)' = Contents(q) \cup {n}
      /\ \A r \in Msgs \ {q} : buf'[r] = buf[r] /\ Contents(r)' = Contents(r)
      /\ Ascending(buf[q]) /\ (\A m \in Contents(q) : m < n) => Ascending(buf'[q])
  BY Appended DEF Inv
<1>2. /\ Accepted \in Nat /\ Msgs \subseteq Nat
      /\ \A r \in Msgs : Contents(r) \subseteq Msgs
  BY NumberTypes
<1>3. ASSUME NEW r \in Msgs, NEW m \in Contents(r)
      PROVE  m < n /\ m <= n /\ m # n /\ ~Begun(m)
  <2>1. m \in Nat /\ n \in Nat /\ m <= Accepted /\ ~Begun(m)
    BY <1>2 DEF Lines
  <2> QED BY <1>2, <2>1
<1>4. \A r \in Msgs : Ascending(buf'[r])
  BY <1>1, <1>3 DEF Lines
<1>5. ASSUME NEW r \in Msgs, NEW m \in Contents(r)'
      PROVE  m <= Accepted' /\ ~Begun(m)'
  <2>1. CASE m = n
    <3>1. n <= n /\ ~Begun(n)'
      BY <1>2
    <3> QED BY <2>1, <3>1
  <2>2. CASE m \in Contents(r)
    <3>1. m <= n /\ ~Begun(m) /\ m \in Msgs
      BY <1>2, <1>3, <2>2
    <3> QED BY <3>1
  <2> QED BY <1>1, <1>5, <2>1, <2>2
<1>6. \A p, r \in Msgs : p # r => Contents(p)' \cap Contents(r)' = {}
  BY <1>1, <1>3 DEF Lines
<1> QED BY <1>4, <1>5, <1>6 DEF Lines

----------------------------------------------------------------------------
(* The main loop *)

LEMMA DispatchFacts ==
    ASSUME RInv, NEW s \in Sessions, Dispatch(s),
           NEW n, n = arrived + 1,
           NEW q, q = IF queues[s] = None THEN n ELSE queues[s]
    PROVE  /\ putTo = None /\ arrived' = n /\ n \in Msgs /\ Accepted < n
           /\ pc[n] = "unborn" /\ buf[n] = <<>> /\ msg[n] = None
           /\ sid' = [sid EXCEPT ![n] = s] /\ fate' = [fate EXCEPT ![n] = "queued"]
           /\ q \in Msgs /\ (q = n \/ queues[s] = q)
           /\ \/ queues[s] = None /\ queues' = [queues EXCEPT ![s] = n]
                 /\ tasks' = [tasks EXCEPT ![s] = n] /\ pc' = [pc EXCEPT ![n] = "starting"]
              \/ queues[s] # None /\ UNCHANGED <<queues, tasks, pc>>
           /\ queues[s] # None => Live(q) /\ sid[q] = s
           /\ \/ buf' = [buf EXCEPT ![q] = Append(@, n)] /\ putTo' = None
              \/ buf' = buf /\ putTo' = q /\ buf[q] # <<>> /\ q # n
           /\ UNCHANGED <<msg, cancelled, running>>
           /\ \A w \in Msgs : pc[w] = "expiring" => buf[w] = <<>>
<1>1. /\ putTo = None /\ arrived' = n /\ arrived < MaxMsgs
      /\ sid' = [sid EXCEPT ![n] = s] /\ fate' = [fate EXCEPT ![n] = "queued"]
      /\ \/ queues[s] = None /\ queues' = [queues EXCEPT ![s] = n]
            /\ tasks' = [tasks EXCEPT ![s] = n] /\ pc' = [pc EXCEPT ![n] = "starting"]
         \/ queues[s] # None /\ UNCHANGED <<queues, tasks, pc>>
      /\ UNCHANGED <<msg, cancelled, running>>
      /\ \A w \in Msgs : pc[w] = "expiring" => buf[w] = <<>>
  BY DEF Dispatch, Ready
<1>2. \/ buf' = [buf EXCEPT ![q] = Append(@, n)] /\ UNCHANGED putTo
      \/ buf' = buf /\ putTo' = q /\ ~(Len(buf[q]) < QueueSize)
  BY DEF Dispatch
<1>3. n \in Msgs /\ Accepted < n /\ arrived < n /\ arrived \in Nat
  BY <1>1, ConstantsAssumption DEF RInv, Inv, TypeOK, Msgs, Accepted
<1>4. pc[n] = "unborn"
  <2>1. pc[n] # "unborn" => n <= arrived
    BY <1>3 DEF RInv, Inv, Births
  <2> QED BY <1>3, <2>1
<1>5. buf[n] = <<>> /\ msg[n] = None
  BY <1>3, <1>4 DEF RInv, InHand, InProcess
<1>6. q \in Msgs /\ (q = n \/ queues[s] = q)
  BY <1>3 DEF RInv, Inv, TypeOK
<1>7. queues[s] # None => Live(q) /\ sid[q] = s
  BY DEF RInv, Inv, QueueHasReader
<1>8. ~(Len(buf[q]) < QueueSize) => buf[q] # <<>> /\ q # n
  <2>1. Len(<<>>) < QueueSize
    BY ConstantsAssumption
  <2> QED BY <1>5, <2>1
<1> QED BY <1>1, <1>2, <1>3, <1>4, <1>5, <1>6, <1>7, <1>8

LEMMA DispatchRInv ==
    ASSUME RInv, NEW s \in Sessions, Dispatch(s)
    PROVE  Lines' /\ InHand' /\ AtQueue' /\ Ahead'
<1>n. PICK n : n = arrived + 1
  OBVIOUS
<1>q. PICK q : q = IF queues[s] = None THEN n ELSE queues[s]
  OBVIOUS
<1>1. /\ putTo = None /\ arrived' = n /\ n \in Msgs /\ Accepted < n
      /\ pc[n] = "unborn" /\ buf[n] = <<>> /\ msg[n] = None
      /\ sid' = [sid EXCEPT ![n] = s] /\ fate' = [fate EXCEPT ![n] = "queued"]
      /\ q \in Msgs /\ (q = n \/ queues[s] = q)
      /\ \/ queues[s] = None /\ queues' = [queues EXCEPT ![s] = n]
            /\ tasks' = [tasks EXCEPT ![s] = n] /\ pc' = [pc EXCEPT ![n] = "starting"]
         \/ queues[s] # None /\ UNCHANGED <<queues, tasks, pc>>
      /\ queues[s] # None => Live(q) /\ sid[q] = s
      /\ \/ buf' = [buf EXCEPT ![q] = Append(@, n)] /\ putTo' = None
         \/ buf' = buf /\ putTo' = q /\ buf[q] # <<>> /\ q # n
      /\ UNCHANGED <<msg, cancelled, running>>
      /\ \A w \in Msgs : pc[w] = "expiring" => buf[w] = <<>>
  BY <1>n, <1>q, DispatchFacts
<1>2. queues[s] = None => q = n
  BY <1>q
<1>3. arrived = Accepted /\ Accepted' = IF putTo' = None THEN n ELSE Accepted
  BY <1>n, <1>1, NumberTypes DEF Accepted, RInv
<1>4. Inv /\ Lines /\ InHand /\ AtQueue /\ Ahead /\ TypeOK
  BY DEF RInv, Inv
<1>5. /\ Accepted \in Nat /\ Msgs \subseteq Nat \ {0} /\ None \notin Msgs
      /\ \A w \in Msgs : Contents(w) \subseteq Msgs
  BY <1>4, NumberTypes
<1>6. ASSUME NEW m \in Msgs
      PROVE  /\ m # n => (Begun(m)' <=> Begun(m)) /\ sid'[m] = sid[m] /\ pc'[m] = pc[m]
             /\ ~Begun(n)' /\ ~Begun(n) /\ sid'[n] = s
             /\ Begun(m)' => Begun(m) /\ m # n /\ m < n
             /\ m <= Accepted => m # n
  <2>1. ~Begun(n)' /\ sid'[n] = s
    BY <1>1, <1>4 DEF Begun, TypeOK
  <2>2. m # n => fate'[m] = fate[m] /\ sid'[m] = sid[m] /\ pc'[m] = pc[m]
    BY <1>1, <1>4 DEF TypeOK
  <2>3. m \in Nat /\ n \in Nat /\ (Begun(m) => m <= Accepted) /\ (Begun(n) => n <= Accepted)
    BY <1>1, <1>4, <1>5 DEF InHand
  <2> QED BY <1>1, <1>5, <2>1, <2>2, <2>3 DEF Begun
<1>7. Lines'
  <2>1. CASE buf' = [buf EXCEPT ![q] = Append(@, n)] /\ putTo' = None
    BY <1>1, <1>3, <1>4, <1>6, <2>1, LinesGrow
  <2>2. CASE buf' = buf /\ putTo' = q
    <3>1. Accepted' = Accepted
      BY <1>1, <1>3, <1>5, <2>2
    <3>2. ASSUME NEW w \in Msgs, NEW m \in Contents(w) PROVE m <= Accepted' /\ ~Begun(m)'
      BY <1>4, <1>5, <1>6, <3>1 DEF Lines
    <3> QED BY <1>4, <2>2, <3>2 DEF Lines, Contents
  <2> QED BY <1>1, <2>1, <2>2
<1>8. InHand'
  <2>1. ASSUME NEW m \in Msgs, Begun(m)' PROVE m <= Accepted'
    <3>1. Begun(m) /\ m <= Accepted /\ m < n /\ m \in Nat /\ n \in Nat
      BY <1>1, <1>4, <1>5, <1>6, <2>1 DEF InHand
    <3> QED BY <1>3, <1>5, <3>1
  <2>2. ASSUME NEW w \in Msgs, msg'[w] # None PROVE Begun(msg[w])'
    <3>1. PICK m \in Msgs : m = msg[w] /\ m = msg'[w]
      BY <1>1, <1>4, <2>2 DEF TypeOK
    <3>2. Begun(m) /\ m # n
      <4>1. Begun(m)
        BY <2>2, <3>1, <1>4 DEF InHand, Begun
      <4> QED BY <4>1, <1>6
    <3>3. Begun(m)'
      BY <3>2, <1>6
    <3> QED BY <3>1, <3>3 DEF Begun
  <2>3. ASSUME NEW w \in Msgs PROVE pc'[w] \notin InProcess => msg'[w] = None
    BY <1>1, <1>4, <1>6 DEF InHand
  <2>4. ASSUME NEW w \in Msgs, pc'[w] = "unborn" PROVE buf'[w] = <<>>
    <3>1. pc[w] = "unborn" /\ (w = n => queues[s] # None)
      BY <1>1, <1>4, <1>6, <2>4 DEF TypeOK
    <3>2. w # q
      <4>1. CASE queues[s] = None
        BY <1>2, <3>1, <4>1
      <4>2. CASE queues[s] # None
        BY <1>1, <3>1, <4>2 DEF Live, Suspended, InProcess
      <4> QED BY <4>1, <4>2
    <3>3. buf'[w] = buf[w]
      BY <1>1, <1>4, <3>2 DEF TypeOK
    <3> QED BY <1>4, <3>1, <3>3 DEF InHand
  <2> QED BY <2>1, <2>2, <2>3, <2>4 DEF InHand
<1>9. AtQueue'
  <2>1. ASSUME putTo' # None
        PROVE  sid'[arrived'] \in Sessions /\ queues'[sid'[arrived']] = putTo'
    BY <1>1, <1>2, <1>6, <2>1
  <2>2. ASSUME NEW w \in Msgs, pc'[w] = "expiring" PROVE putTo' # w
    <3>1. w # n => pc[w] = "expiring"
      BY <1>6, <2>2
    <3>2. pc'[n] # "expiring"
      BY <1>1, <1>4 DEF TypeOK
    <3> QED BY <1>1, <1>5, <2>2, <3>1, <3>2
  <2> QED BY <2>1, <2>2 DEF AtQueue
<1>10. Ahead'
  <2> SUFFICES ASSUME NEW w \in Msgs, Live(w)', NEW m \in Contents(w)'
               PROVE  /\ sid'[m] = sid'[w]
                      /\ \A k \in Msgs : Begun(k)' /\ sid'[k] = sid'[w] => k < m
    BY DEF Ahead
  <2>1. (w = q /\ m = n) \/ m \in Contents(w)
    <3>1. CASE buf' = buf
      BY <3>1 DEF Contents
    <3>2. CASE buf' = [buf EXCEPT ![q] = Append(@, n)]
      <4>1. /\ Contents(q)' = Contents(q) \cup {n}
            /\ \A r \in Msgs \ {q} : Contents(r)' = Contents(r)
        BY <1>1, <1>4, <3>2, Appended
      <4>2. CASE w = q
        <5>1. m \in Contents(q)'
          BY <4>2
        <5> QED BY <4>1, <4>2, <5>1
      <4>3. CASE w # q
        BY <4>1, <4>3
      <4> QED BY <4>2, <4>3
    <3> QED BY <1>1, <3>1, <3>2
  <2>2. CASE w = q /\ m = n
    <3>1. sid'[q] = s /\ sid'[n] = s
      BY <1>1, <1>2, <1>6
    <3> QED BY <1>6, <2>2, <3>1
  <2>3. CASE m \in Contents(w)
    <3>1. w # n
      BY <1>1, <2>3 DEF Contents
    <3>2. Live(w) /\ sid'[w] = sid[w]
      BY <1>1, <1>6, <3>1 DEF Live
    <3>3. m \in Msgs /\ m # n /\ sid'[m] = sid[m]
      BY <1>4, <1>5, <1>6, <2>3 DEF Lines
    <3> QED BY <1>4, <1>6, <2>3, <3>2, <3>3 DEF Ahead
  <2> QED BY <2>1, <2>2, <2>3
<1> QED BY <1>7, <1>8, <1>9, <1>10

LEMMA PutResumesRInv ==
    ASSUME RInv, PutResumes
    PROVE  Lines' /\ InHand' /\ AtQueue' /\ Ahead'
<1>1. PICK n, q : n = arrived /\ q = putTo
  OBVIOUS
<1>2. /\ running /\ q # None /\ buf' = [buf EXCEPT ![q] = Append(@, n)] /\ putTo' = None
      /\ UNCHANGED <<queues, tasks, pc, msg, cancelled, running, arrived, sid, fate>>
  BY <1>1 DEF PutResumes, registry, processor
<1>3. Inv /\ Lines /\ InHand /\ AtQueue /\ Ahead /\ TypeOK
  BY DEF RInv, Inv
<1>4. /\ n \in Msgs /\ q \in Msgs /\ Accepted < n /\ Accepted' = n
      /\ Accepted \in Nat /\ Msgs \subseteq Nat /\ n <= n
      /\ \A w \in Msgs : Contents(w) \subseteq Msgs
  <2>1. n \in Nat /\ n # 0 /\ n \in 0 .. MaxMsgs /\ q \in Msgs
    BY <1>1, <1>2, <1>3 DEF Inv, TypeOK, AtWork
  <2>2. Accepted = n - 1 /\ Accepted' = n
    BY <1>1, <1>2 DEF Accepted
  <2> QED BY <1>3, <2>1, <2>2, ConstantsAssumption, NumberTypes DEF Msgs
<1>5. sid[n] \in Sessions /\ queues[sid[n]] = q /\ sid[q] = sid[n] /\ Live(q)
  BY <1>1, <1>2, <1>3, <1>4, Registered DEF AtQueue
<1>6. ASSUME NEW m \in Msgs
      PROVE  (Begun(m)' <=> Begun(m)) /\ (Begun(m) => m <= Accepted /\ m < n /\ m # n)
  BY <1>2, <1>3, <1>4 DEF Begun, InHand
<1>7. /\ Contents(q)' = Contents(q) \cup {n}
      /\ \A r \in Msgs \ {q} : buf'[r] = buf[r] /\ Contents(r)' = Contents(r)
  BY <1>2, <1>3, <1>4, Appended
<1>8. Lines'
  BY <1>2, <1>3, <1>4, <1>6, LinesGrow
<1>9. InHand'
  <2>1. ASSUME NEW m \in Msgs, Begun(m)' PROVE m <= Accepted'
    <3>1. m < n /\ m \in Nat /\ n \in Nat
      BY <1>4, <1>6, <2>1
    <3> QED BY <1>4, <3>1
  <2>2. \A w \in Msgs : msg'[w] # None => Begun(msg[w])'
    BY <1>2, <1>3 DEF InHand, Begun
  <2>3. \A w \in Msgs : pc'[w] \notin InProcess => msg'[w] = None
    BY <1>2, <1>3 DEF InHand
  <2>4. \A w \in Msgs : pc'[w] = "unborn" => buf'[w] = <<>>
    BY <1>2, <1>3, <1>5, <1>7 DEF InHand, Live, Suspended, InProcess
  <2> QED BY <2>1, <2>2, <2>3, <2>4 DEF InHand
<1>10. AtQueue'
  BY <1>2, <1>4 DEF AtQueue, Msgs, None
<1>11. Ahead'
  <2> SUFFICES ASSUME NEW w \in Msgs, Live(w)', NEW m \in Contents(w)'
               PROVE  /\ sid[m] = sid[w]
                      /\ \A k \in Msgs : Begun(k) /\ sid[k] = sid[w] => k < m
    BY <1>2 DEF Ahead, Begun
  <2>1. Live(w)
    BY <1>2 DEF Live
  <2>2. CASE w = q /\ m = n
    BY <1>5, <1>6, <2>2
  <2>3. CASE m \in Contents(w)
    BY <1>3, <2>1, <2>3 DEF Ahead
  <2>4. CASE w = q
    <3>1. m \in Contents(q)'
      BY <2>4
    <3> QED BY <1>7, <2>2, <2>3, <2>4, <3>1
  <2> QED BY <1>7, <2>3, <2>4
<1> QED BY <1>8, <1>9, <1>10, <1>11

----------------------------------------------------------------------------
(* Steps that only read or empty queues; the messages in B are begun by them *)

LEMMA ReadingStep ==
    ASSUME RInv, NEW B \in SUBSET Msgs,
           UNCHANGED <<sid, arrived, putTo>>,
           \A q \in Msgs : buf'[q] = buf[q] \/ buf'[q] = <<>>,
           \A m \in Msgs : Begun(m)' => Begun(m) \/ m \in B,
           \A m \in Msgs : Begun(m) \/ m \in B => Begun(m)',
           \A m \in B : m <= Accepted,
           \A q \in Msgs : Contents(q)' \cap B = {},
           \A w \in Msgs, m \in B : Live(w) /\ sid[m] = sid[w] => buf'[w] = <<>>,
           \A w \in Msgs : Live(w)' => Live(w),
           \A w \in Msgs : msg'[w] = msg[w] \/ msg'[w] \in B \cup {None},
           \A w \in Msgs : pc'[w] \notin InProcess => msg'[w] = None,
           \A w \in Msgs : pc'[w] = "unborn" => pc[w] = "unborn",
           \A w \in Msgs : pc'[w] = "expiring" => pc[w] = "expiring" \/ putTo # w,
           running' /\ putTo # None =>
              running /\ \A s \in Sessions : queues[s] = putTo => queues'[s] = putTo
    PROVE  Lines' /\ InHand' /\ AtQueue' /\ Ahead'
<1>1. Inv /\ Lines /\ InHand /\ AtQueue /\ Ahead /\ TypeOK
  BY DEF RInv, Inv
<1>2. Accepted' = Accepted
  BY DEF Accepted
<1>3. \A q \in Msgs : Contents(q)' \subseteq Contents(q) /\ Ascending(buf'[q])
  <2> SUFFICES ASSUME NEW q \in Msgs
               PROVE  Contents(q)' \subseteq Contents(q) /\ Ascending(buf'[q])
    OBVIOUS
  <2>1. CASE buf'[q] = buf[q]
    BY <1>1, <2>1 DEF Contents, Lines
  <2>2. CASE buf'[q] = <<>>
    BY <2>2 DEF Contents, Ascending
  <2> QED BY <2>1, <2>2
<1>4. \A q \in Msgs : Contents(q) \subseteq Msgs
  BY <1>1, NumberTypes
<1>5. Lines'
  <2>1. ASSUME NEW q \in Msgs, NEW m \in Contents(q)' PROVE m <= Accepted' /\ ~Begun(m)'
    <3>1. m \in Contents(q) /\ m \in Msgs /\ m \notin B
      BY <1>3, <1>4, <2>1
    <3> QED BY <1>1, <1>2, <3>1 DEF Lines
  <2>2. \A p, r \in Msgs : p # r => Contents(p)' \cap Contents(r)' = {}
    BY <1>1, <1>3 DEF Lines
  <2> QED BY <1>3, <2>1, <2>2 DEF Lines
<1>6. InHand'
  <2>1. \A m \in Msgs : Begun(m)' => m <= Accepted'
    BY <1>1, <1>2 DEF InHand
  <2>2. ASSUME NEW w \in Msgs, msg'[w] # None PROVE Begun(msg[w])'
    <3>1. PICK m : m = msg'[w]
      OBVIOUS
    <3>2. m \in Msgs /\ (m = msg[w] \/ m \in B)
      BY <1>1, <2>2, <3>1 DEF TypeOK
    <3>3. Begun(m) \/ m \in B
      BY <1>1, <2>2, <3>1, <3>2 DEF InHand, Begun
    <3>4. Begun(m)'
      BY <3>2, <3>3
    <3> QED BY <3>1, <3>4 DEF Begun
  <2>3. \A w \in Msgs : pc'[w] = "unborn" => buf'[w] = <<>>
    BY <1>1 DEF InHand
  <2> QED BY <2>1, <2>2, <2>3 DEF InHand
<1>7. AtQueue'
  BY <1>1 DEF AtQueue
<1>8. Ahead'
  <2> SUFFICES ASSUME NEW w \in Msgs, Live(w)', NEW m \in Contents(w)'
               PROVE  /\ sid[m] = sid[w]
                      /\ \A k \in Msgs : Begun(k)' /\ sid[k] = sid[w] => k < m
    BY DEF Ahead
  <2>1. Live(w) /\ m \in Contents(w) /\ buf'[w] # <<>>
    BY <1>3 DEF Contents
  <2> QED BY <1>1, <2>1 DEF Ahead
<1> QED BY <1>5, <1>6, <1>7, <1>8

(* a step that begins no message *)
LEMMA CalmStep ==
    ASSUME RInv,
           UNCHANGED <<sid, arrived, putTo>>,
           \A q \in Msgs : buf'[q] = buf[q] \/ buf'[q] = <<>>,
           \A m \in Msgs : Begun(m)' <=> Begun(m),
           \A w \in Msgs : Live(w)' => Live(w),
           \A w \in Msgs : msg'[w] = msg[w] \/ msg'[w] = None,
           \A w \in Msgs : pc'[w] \notin InProcess => msg'[w] = None,
           \A w \in Msgs : pc'[w] = "unborn" => pc[w] = "unborn",
           \A w \in Msgs : pc'[w] = "expiring" => pc[w] = "expiring" \/ putTo # w,
           running' /\ putTo # None =>
              running /\ \A s \in Sessions : queues[s] = putTo => queues'[s] = putTo
    PROVE  Lines' /\ InHand' /\ AtQueue' /\ Ahead'
<1>1. PICK B \in SUBSET Msgs : B = {}
  OBVIOUS
<1> QED BY <1>1, ReadingStep

(* nothing happens but that processor v goes somewhere *)
LEMMA MoveRInv ==
    ASSUME RInv, NEW v \in Msgs, Live(v),
           NEW label \in Suspended \cup {"done"}, pc' = [pc EXCEPT ![v] = label],
           label \in InProcess \/ pc[v] \notin InProcess,
           label = "expiring" => putTo # v,
           UNCHANGED <<queues, msg, buf, fate, cancelled, running, sid, arrived, putTo>>
    PROVE  Lines' /\ InHand' /\ AtQueue' /\ Ahead'
<1>1. pc'[v] = label /\ \A w \in Msgs \ {v} : pc'[w] = pc[w]
  BY DEF RInv, Inv, TypeOK
<1>2. \A w \in Msgs : Live(w)' => Live(w)
  BY <1>1 DEF Live
<1>3. \A m \in Msgs : Begun(m)' <=> Begun(m)
  BY DEF Begun
<1>4. \A w \in Msgs : pc'[w] \notin InProcess => msg'[w] = None
  BY <1>1 DEF RInv, InHand
<1>5. \A w \in Msgs : pc'[w] = "unborn" => pc[w] = "unborn"
  BY <1>1 DEF Suspended, InProcess
<1>6. \A w \in Msgs : pc'[w] = "expiring" => pc[w] = "expiring" \/ putTo # w
  BY <1>1
<1> QED BY <1>2, <1>3, <1>4, <1>5, <1>6, CalmStep

(* the message of processor v is over *)
LEMMA EndRInv ==
    ASSUME RInv, NEW v \in Msgs, pc[v] \in InProcess, Live(v),
           NEW label \in {"get", "pause"}, End(v, label),
           UNCHANGED <<queues, buf, cancelled, running, sid, arrived, putTo>>
    PROVE  Lines' /\ InHand' /\ AtQueue' /\ Ahead'
<1>1. /\ pc'[v] = label /\ msg'[v] = None
      /\ \A w \in Msgs \ {v} : pc'[w] = pc[w] /\ msg'[w] = msg[w]
  BY DEF End, Goto, RInv, Inv, TypeOK
<1>2. \A w \in Msgs : Live(w)' => Live(w)
  BY <1>1 DEF Live
<1>3. ASSUME NEW m \in Msgs PROVE Begun(m)' <=> Begun(m)
  <2>1. CASE m = msg[v]
    <3>1. Begun(m)
      BY <2>1 DEF RInv, InHand, Begun, Msgs, None
    <3>2. fate'[m] = "ended"
      BY <2>1 DEF End, RInv, Inv, TypeOK
    <3> QED BY <3>1, <3>2 DEF Begun
  <2>2. CASE m # msg[v]
    <3>1. fate'[m] = fate[m]
      BY <2>2 DEF End, RInv, Inv, TypeOK
    <3> QED BY <3>1 DEF Begun
  <2> QED BY <2>1, <2>2
<1>4. \A w \in Msgs : pc'[w] \notin InProcess => msg'[w] = None
  BY <1>1 DEF RInv, InHand
<1>5. \A w \in Msgs : /\ pc'[w] = "unborn" => pc[w] = "unborn"
                      /\ pc'[w] = "expiring" => pc[w] = "expiring"
                      /\ msg'[w] = msg[w] \/ msg'[w] = None
  BY <1>1
<1> QED BY <1>2, <1>3, <1>4, <1>5, CalmStep

LEMMA SweepRInv ==
    ASSUME RInv, Sweep
    PROVE  Lines' /\ InHand' /\ AtQueue' /\ Ahead'
<1>1. /\ UNCHANGED <<pc, msg, buf, running, putTo, arrived, sid, fate>>
      /\ putTo = None /\ cancelled \subseteq cancelled'
  BY DEF Sweep, Ready, Cancel, processor
<1>2. \A w \in Msgs : (Live(w)' => Live(w)) /\ (Begun(w)' <=> Begun(w))
  BY <1>1 DEF Live, Begun
<1>3. \A w \in Msgs : pc'[w] \notin InProcess => msg'[w] = None
  BY <1>1 DEF RInv, InHand
<1> QED BY <1>1, <1>2, <1>3, CalmStep

LEMMA ShutdownRInv ==
    ASSUME RInv, Shutdown
    PROVE  Lines' /\ InHand' /\ AtQueue' /\ Ahead'
<1>1. /\ UNCHANGED <<pc, msg, buf, putTo, arrived, sid>>
      /\ running' = FALSE /\ cancelled \subseteq cancelled'
      /\ fate' = IF putTo = None THEN fate ELSE [fate EXCEPT ![arrived] = "lost"]
  BY DEF Shutdown, Cancel, processor
<1>2. ASSUME NEW m \in Msgs PROVE Begun(m)' <=> Begun(m)
  <2>1. CASE putTo # None /\ m = arrived
    <3>1. ~(m <= Accepted)
      BY <2>1, NumberTypes DEF Accepted, RInv
    <3>2. ~Begun(m) /\ fate'[m] = "lost"
      BY <1>1, <2>1, <3>1 DEF RInv, InHand, Inv, TypeOK
    <3> QED BY <3>2 DEF Begun
  <2>2. CASE ~(putTo # None /\ m = arrived)
    <3>1. fate'[m] = fate[m]
      BY <1>1, <2>2 DEF RInv, Inv, TypeOK
    <3> QED BY <3>1 DEF Begun
  <2> QED BY <2>1, <2>2
<1>3. \A w \in Msgs : Live(w)' => Live(w)
  BY <1>1 DEF Live
<1>4. \A w \in Msgs : pc'[w] \notin InProcess => msg'[w] = None
  BY <1>1 DEF RInv, InHand
<1> QED BY <1>1, <1>2, <1>3, <1>4, CalmStep

(* what the queue of an ending processor holds is lost, and was not begun *)
LEMMA CancelledRInv ==
    ASSUME RInv, NEW v \in Msgs, Cancelled(v)
    PROVE  Lines' /\ InHand' /\ AtQueue' /\ Ahead'
<1>1. /\ pc' = [pc EXCEPT ![v] = "done"] /\ cancelled' = cancelled \ {v}
      /\ fate' = [m \in Msgs |-> IF m = msg[v] THEN "ended"
                                 ELSE IF m \in Contents(v) THEN "lost" ELSE fate[m]]
      /\ msg' = [msg EXCEPT ![v] = None] /\ buf' = [buf EXCEPT ![v] = <<>>]
      /\ UNCHANGED <<queues, running, putTo, arrived, sid>>
  BY DEF Cancelled, Goto, registry
<1>2. /\ pc'[v] = "done" /\ msg'[v] = None /\ buf'[v] = <<>>
      /\ \A w \in Msgs \ {v} : pc'[w] = pc[w] /\ msg'[w] = msg[w] /\ buf'[w] = buf[w]
  BY <1>1 DEF RInv, Inv, TypeOK
<1>3. \A w \in Msgs : Live(w)' => Live(w)
  BY <1>1, <1>2 DEF Live, Suspended, InProcess
<1>4. ASSUME NEW m \in Msgs PROVE Begun(m)' <=> Begun(m)
  <2>1. CASE m = msg[v]
    <3>1. Begun(m) /\ fate'[m] = "ended"
      BY <1>1, <2>1 DEF RInv, InHand, Begun, Msgs, None
    <3> QED BY <3>1 DEF Begun
  <2>2. CASE m # msg[v] /\ m \in Contents(v)
    <3>1. ~Begun(m) /\ fate'[m] = "lost"
      BY <1>1, <2>2 DEF RInv, Lines
    <3> QED BY <3>1 DEF Begun
  <2>3. CASE m # msg[v] /\ m \notin Contents(v)
    BY <1>1, <2>3 DEF Begun
  <2> QED BY <2>1, <2>2, <2>3
<1>5. \A w \in Msgs : pc'[w] \notin InProcess => msg'[w] = None
  BY <1>2 DEF RInv, InHand
<1>6. \A w \in Msgs : /\ pc'[w] = "unborn" => pc[w] = "unborn"
                      /\ pc'[w] = "expiring" => pc[w] = "expiring"
                      /\ msg'[w] = msg[w] \/ msg'[w] = None
                      /\ buf'[w] = buf[w] \/ buf'[w] = <<>>
  BY <1>2
<1> QED BY <1>1, <1>3, <1>4, <1>5, <1>6, CalmStep

LEMMA IdleExitRInv ==
    ASSUME RInv, NEW v \in Msgs, IdleExit(v)
    PROVE  Lines' /\ InHand' /\ AtQueue' /\ Ahead'
<1>1. /\ pc[v] = "expiring" /\ Live(v)
      /\ pc' = [pc EXCEPT ![v] = "done"] /\ Drop({sid[v]})
      /\ fate' = [m \in Msgs |-> IF m \in Contents(v) THEN "lost" ELSE fate[m]]
      /\ buf' = [buf EXCEPT ![v] = <<>>]
      /\ UNCHANGED <<msg, cancelled, running, putTo, arrived, sid>>
  BY DEF IdleExit, Goto
<1>2. /\ pc'[v] = "done" /\ buf'[v] = <<>>
      /\ \A w \in Msgs \ {v} : pc'[w] = pc[w] /\ buf'[w] = buf[w]
  BY <1>1 DEF RInv, Inv, TypeOK
<1>3. \A w \in Msgs : Live(w)' => Live(w)
  BY <1>1, <1>2 DEF Live, Suspended, InProcess
<1>4. ASSUME NEW m \in Msgs PROVE Begun(m)' <=> Begun(m)
  <2>1. CASE m \in Contents(v)
    <3>1. ~Begun(m) /\ fate'[m] = "lost"
      BY <1>1, <2>1 DEF RInv, Lines
    <3> QED BY <3>1 DEF Begun
  <2>2. CASE m \notin Contents(v)
    BY <1>1, <2>2 DEF Begun
  <2> QED BY <2>1, <2>2
<1>5. \A w \in Msgs : pc'[w] \notin InProcess => msg'[w] = None
  BY <1>1, <1>2 DEF RInv, InHand, InProcess
<1>6. \A w \in Msgs : /\ pc'[w] = "unborn" => pc[w] = "unborn"
                      /\ pc'[w] = "expiring" => pc[w] = "expiring"
                      /\ buf'[w] = buf[w] \/ buf'[w] = <<>>
  BY <1>2
<1>7. ASSUME NEW s \in Sessions, queues[s] = putTo, putTo # None
      PROVE  queues'[s] = putTo
  <2>1. queues[sid[v]] = v /\ putTo # v /\ sid[v] \in Sessions
    BY <1>1 DEF RInv, SerialProcessing, AtQueue, Inv, QueueHasReader, Births
  <2> QED BY <1>1, <1>7, <2>1 DEF Drop
<1> QED BY <1>1, <1>3, <1>4, <1>5, <1>6, <1>7, CalmStep

LEMMA ReceiveFacts ==
    ASSUME RInv, NEW v \in Msgs, Receive(v), NEW n, n = Latest(v)
    PROVE  /\ pc[v] = "get" /\ msg[v] = None /\ Live(v) /\ buf[v] # <<>>
           /\ sid[v] \in Sessions /\ tasks[sid[v]] = v /\ queues[sid[v]] = v
           /\ n \in Contents(v) /\ n \in Msgs /\ n <= Accepted
           /\ \A m \in Contents(v) : m <= n
           /\ buf' = [buf EXCEPT ![v] = <<>>]
           /\ \/ /\ pc' = [pc EXCEPT ![v] = "llm"] /\ msg' = [msg EXCEPT ![v] = n]
                 /\ fate' = [m \in Msgs |-> IF m = n THEN "processing"
                               ELSE IF m \in Contents(v) THEN "superseded" ELSE fate[m]]
              \/ /\ pc' = [pc EXCEPT ![v] = "get"] /\ msg' = msg
                 /\ fate' = [m \in Msgs |-> IF m = n THEN "ended"
                               ELSE IF m \in Contents(v) THEN "superseded" ELSE fate[m]]
           /\ UNCHANGED <<queues, tasks, cancelled, running, putTo, arrived, sid>>
<1>1. pc[v] = "get" /\ Live(v) /\ buf[v] # <<>>
  BY DEF Receive
<1>2. msg[v] = None
  BY <1>1 DEF RInv, InHand, InProcess
<1>3. sid[v] \in Sessions /\ tasks[sid[v]] = v /\ queues[sid[v]] = v
  BY <1>1 DEF RInv, SerialProcessing, Inv, QueueHasReader, Births
<1>4. n \in Contents(v) /\ n \in Msgs /\ \A m \in Contents(v) : m <= n
  BY <1>1, LatestIsNewest, NumberTypes DEF RInv, Inv, Lines
<1>5. n <= Accepted
  BY <1>4 DEF RInv, Lines
<1> QED BY <1>1, <1>2, <1>3, <1>4, <1>5 DEF Receive, Goto

LEMMA ReceiveRInv ==
    ASSUME RInv, NEW v \in Msgs, Receive(v)
    PROVE  Lines' /\ InHand' /\ AtQueue' /\ Ahead'
<1>n. PICK n : n = Latest(v)
  OBVIOUS
<1>1. /\ pc[v] = "get" /\ msg[v] = None /\ Live(v) /\ buf[v] # <<>>
      /\ sid[v] \in Sessions /\ tasks[sid[v]] = v /\ queues[sid[v]] = v
      /\ n \in Contents(v) /\ n \in Msgs /\ n <= Accepted
      /\ buf' = [buf EXCEPT ![v] = <<>>]
      /\ UNCHANGED <<queues, tasks, cancelled, running, putTo, arrived, sid>>
  BY <1>n, ReceiveFacts
<1>p. /\ \/ pc' = [pc EXCEPT ![v] = "llm"] /\ msg' = [msg EXCEPT ![v] = n]
         \/ pc' = [pc EXCEPT ![v] = "get"] /\ msg' = msg
      /\ pc \in [Msgs -> Suspended \cup {"unborn", "done"}]
      /\ msg \in [Msgs -> Msgs \cup {None}]
  BY <1>n, ReceiveFacts DEF RInv, Inv, TypeOK
<1>2. \/ pc'[v] = "llm" /\ msg'[v] = n
      \/ pc'[v] = "get" /\ msg'[v] = None
  BY <1>1, <1>p
<1>3. \A w \in Msgs \ {v} : pc'[w] = pc[w] /\ msg'[w] = msg[w]
  BY <1>p
<1>4. ASSUME NEW m \in Msgs
      PROVE  /\ m = n => fate'[m] \in {"processing", "ended"}
             /\ m # n /\ m \in Contents(v) => fate'[m] = "superseded"
             /\ m # n /\ m \notin Contents(v) => fate'[m] = fate[m]
  <2>1. \E how \in {"processing", "ended"} :
           fate' = [k \in Msgs |-> IF k = n THEN how
                       ELSE IF k \in Contents(v) THEN "superseded" ELSE fate[k]]
    BY <1>n, ReceiveFacts
  <2> QED BY <2>1
<1>5. buf'[v] = <<>> /\ Contents(v)' = {}
      /\ \A q \in Msgs \ {v} : buf'[q] = buf[q] /\ Contents(q)' = Contents(q)
  BY <1>1, Emptied DEF RInv, Inv, TypeOK
<1>6. ASSUME NEW m \in Msgs PROVE Begun(m)' <=> Begun(m) \/ m = n
  <2>1. CASE m = n
    BY <1>4, <2>1 DEF Begun
  <2>2. CASE m # n /\ m \in Contents(v)
    <3>1. ~Begun(m)
      BY <2>2 DEF RInv, Lines
    <3> QED BY <1>4, <2>2, <3>1 DEF Begun
  <2>3. CASE m # n /\ m \notin Contents(v)
    BY <1>4, <2>3 DEF Begun
  <2> QED BY <2>1, <2>2, <2>3
<1>7. PICK B \in SUBSET Msgs : B = {n}
  BY <1>1
<1>8. \A q \in Msgs : Contents(q)' \cap B = {}
  BY <1>1, <1>5, <1>7 DEF RInv, Lines
<1>9. ASSUME NEW w \in Msgs, Live(w), sid[n] = sid[w] PROVE buf'[w] = <<>>
  <2>1. tasks[sid[w]] = w /\ sid[n] = sid[v]
    BY <1>1, <1>9 DEF RInv, SerialProcessing, Ahead
  <2> QED BY <1>1, <1>5, <1>9, <2>1
<1>10. \A w \in Msgs : Live(w)' => Live(w)
  BY <1>1, <1>3 DEF Live
<1>11. \A w \in Msgs : pc'[w] \notin InProcess => msg'[w] = None
  BY <1>2, <1>3 DEF RInv, InHand, InProcess
<1>12. \A w \in Msgs : /\ pc'[w] = "unborn" => pc[w] = "unborn"
                       /\ pc'[w] = "expiring" => pc[w] = "expiring"
                       /\ msg'[w] = msg[w] \/ msg'[w] \in B \cup {None}
  BY <1>2, <1>3, <1>7
<1>13. \A q \in Msgs : buf'[q] = buf[q] \/ buf'[q] = <<>>
  BY <1>5
<1>14. /\ \A m \in Msgs : Begun(m)' => Begun(m) \/ m \in B
       /\ \A m \in Msgs : Begun(m) \/ m \in B => Begun(m)'
  BY <1>6, <1>7
<1>15. \A m \in B : m <= Accepted
  BY <1>1, <1>7
<1>16. \A w \in Msgs, m \in B : Live(w) /\ sid[m] = sid[w] => buf'[w] = <<>>
  BY <1>7, <1>9
<1>17. UNCHANGED <<sid, arrived, putTo, running, queues>>
  BY <1>1
<1>18. /\ \A w \in Msgs : pc'[w] = "unborn" => pc[w] = "unborn"
       /\ \A w \in Msgs : pc'[w] = "expiring" => pc[w] = "expiring" \/ putTo # w
       /\ \A w \in Msgs : msg'[w] = msg[w] \/ msg'[w] \in B \cup {None}
  BY <1>12
<1> QED BY <1>8, <1>10, <1>11, <1>13, <1>14, <1>15, <1>16, <1>17, <1>18, ReadingStep

----------------------------------------------------------------------------
LEMMA InitRInv == ASSUME Init PROVE RInv
<1>1. SerialProcessing /\ Lines /\ InHand /\ AtQueue /\ Ahead
  BY DEF Init, SerialProcessing, Live, Suspended, InProcess, Lines, Ascending, Contents,
         InHand, Begun, AtQueue, Ahead
<1> QED BY <1>1, InitInv DEF RInv

LEMMA NextRInv == ASSUME RInv, SwallowsCancel = FALSE, [Next]_vars PROVE RInv'
<1>1. Inv' /\ SerialProcessing'
  BY NextInv, NextSerial DEF RInv
<1> SUFFICES Lines' /\ InHand' /\ AtQueue' /\ Ahead'
  BY <1>1 DEF RInv
<1>2. CASE UNCHANGED vars \/ AbandonedToolEnds \/ Tick
  <2>1. UNCHANGED <<queues, pc, msg, buf, cancelled, running, putTo, arrived, sid, fate>>
    BY <1>2 DEF vars, registry, processor, AbandonedToolEnds, Tick
  <2>2. \A w \in Msgs : (Live(w)' => Live(w)) /\ (Begun(w)' <=> Begun(w))
    BY <2>1 DEF Live, Begun
  <2>3. \A w \in Msgs : pc'[w] \notin InProcess => msg'[w] = None
    BY <2>1 DEF RInv, InHand
  <2> QED BY <2>1, <2>2, <2>3, CalmStep
<1>3. CASE MainLoop
  BY <1>3, DispatchRInv, PutResumesRInv, SweepRInv, ShutdownRInv DEF MainLoop
<1>4. ASSUME NEW v \in Msgs, Start(v) \/ IdleTimer(v) \/ ToolRound(v) \/ ToolReturns(v)
                            \/ ForceSummary(v) \/ Resume(v)
      PROVE  Lines' /\ InHand' /\ AtQueue' /\ Ahead'
  <2>1. /\ Live(v)
        /\ UNCHANGED <<queues, msg, buf, fate, cancelled, running, sid, arrived, putTo>>
    BY <1>4 DEF Start, IdleTimer, ToolRound, ToolReturns, ForceSummary, Resume, registry
  <2>2. PICK label \in Suspended \cup {"done"} :
           /\ pc' = [pc EXCEPT ![v] = label]
           /\ label \in InProcess \/ pc[v] \notin InProcess
           /\ label = "expiring" => putTo # v
    BY <1>4 DEF Start, IdleTimer, ToolRound, ToolReturns, ForceSummary, Resume, Goto,
                Suspended, InProcess
  <2> QED BY <2>1, <2>2, MoveRInv
<1>5. ASSUME NEW v \in Msgs, Reply(v) \/ Block(v) \/ Raise(v) \/ ProcessTimeout(v)
      PROVE  Lines' /\ InHand' /\ AtQueue' /\ Ahead'
  <2>1. /\ pc[v] \in InProcess /\ Live(v)
        /\ UNCHANGED <<queues, buf, cancelled, running, sid, arrived, putTo>>
        /\ \E label \in {"get", "pause"} : End(v, label)
    BY <1>5 DEF Reply, Block, Raise, ProcessTimeout, InProcess, registry
  <2> QED BY <2>1, EndRInv
<1>6. \A v \in Msgs : ~SwallowCancel(v)
  BY DEF SwallowCancel
<1>7. ASSUME NEW v \in Msgs, ProcessorStep(v) \/ ToolReturns(v)
      PROVE  Lines' /\ InHand' /\ AtQueue' /\ Ahead'
  BY <1>4, <1>5, <1>6, <1>7, ReceiveRInv, IdleExitRInv, CancelledRInv DEF ProcessorStep
<1> QED BY <1>2, <1>3, <1>7 DEF Next

----------------------------------------------------------------------------
(* The order of messages *)

(* only Receive puts a message to work *)
LEMMA OnlyReceiveStarts ==
    ASSUME RInv, SwallowsCancel = FALSE, [Next]_vars, NEW n \in Msgs,
           fate[n] = "queued", fate'[n] = "processing"
    PROVE  \E v \in Msgs : Receive(v)
<1> SUFFICES ASSUME \A v \in Msgs : ~Receive(v) PROVE FALSE
  OBVIOUS
<1>0. fate \in [Msgs -> Settled \cup {"unseen", "queued", "processing"}]
  BY DEF RInv, Inv, TypeOK
<1>1. CASE UNCHANGED fate
  BY <1>1
<1>3. ASSUME NEW s \in Sessions, Dispatch(s) PROVE FALSE
  BY <1>0, <1>3 DEF Dispatch
<1>4. CASE Shutdown
  BY <1>0, <1>4 DEF Shutdown
<1>5. ASSUME NEW v \in Msgs, Reply(v) \/ Block(v) \/ Raise(v) \/ ProcessTimeout(v)
      PROVE  FALSE
  BY <1>0, <1>5 DEF Reply, Block, Raise, ProcessTimeout, End
<1>6. ASSUME NEW v \in Msgs, IdleExit(v) \/ Cancelled(v) PROVE FALSE
  BY <1>0, <1>6 DEF IdleExit, Cancelled
<1>7. ASSUME NEW v \in Msgs, ProcessorStep(v) \/ ToolReturns(v) PROVE FALSE
  BY <1>1, <1>5, <1>6, <1>7 DEF ProcessorStep, Start, IdleTimer, SwallowCancel, ToolRound,
     ToolReturns, ForceSummary, Resume
<1>8. CASE PutResumes \/ Sweep \/ AbandonedToolEnds \/ Tick \/ UNCHANGED vars
  BY <1>1, <1>8 DEF PutResumes, Sweep, AbandonedToolEnds, Tick, vars
<1> QED BY <1>3, <1>4, <1>7, <1>8 DEF Next, MainLoop

OrderedStep ==
    \A n, m \in Msgs :
        fate[n] = "queued" /\ fate'[n] = "processing" /\ sid[m] = sid[n] /\ Begun(m)
            => m < n

LEMMA NextOrdered ==
    ASSUME RInv, SwallowsCancel = FALSE, [Next]_vars
    PROVE  OrderedStep
<1> SUFFICES ASSUME NEW n \in Msgs, NEW m \in Msgs, fate[n] = "queued",
                    fate'[n] = "processing", sid[m] = sid[n], Begun(m)
             PROVE  m < n
  BY DEF OrderedStep
<1>1. PICK v \in Msgs : Receive(v)
  BY OnlyReceiveStarts
<1>2. PICK k : k = Latest(v)
  OBVIOUS
<1>3. n \in Contents(v) /\ Live(v)
  <2>1. \E how \in {"processing", "ended"} :
           fate' = [i \in Msgs |-> IF i = k THEN how
                       ELSE IF i \in Contents(v) THEN "superseded" ELSE fate[i]]
    BY <1>1, <1>2, ReceiveFacts
  <2>2. k \in Contents(v) /\ Live(v)
    BY <1>1, <1>2, ReceiveFacts
  <2> QED BY <2>1, <2>2
<1>4. sid[n] = sid[v]
  BY <1>3 DEF RInv, Ahead
<1> QED BY <1>3, <1>4 DEF RInv, Ahead

(* No message is started after a newer one of its session, through any        *)
(* preemption, eviction, kill or waiting put(), where cancellations arrive.   *)
THEOREM MessagesStartInOrder == SwallowsCancel = FALSE => (Spec => InOrder)
<1> SUFFICES ASSUME SwallowsCancel = FALSE PROVE Spec => InOrder
  OBVIOUS
<1>1. Init => RInv
  BY InitRInv
<1>2. RInv /\ [Next]_vars => RInv'
  BY NextRInv
<1>3. RInv /\ [Next]_vars => [OrderedStep]_vars
  BY NextOrdered
<1>4. Spec => [][OrderedStep]_vars
  BY <1>1, <1>2, <1>3, PTL DEF Spec
<1> QED BY <1>4 DEF InOrder, OrderedStep

----------------------------------------------------------------------------
(* The refinement *)

Waiting(s) == IF queues[s] = None THEN {} ELSE Contents(queues[s])
Active(s) == IF tasks[s] = None THEN None ELSE msg[tasks[s]]

LEMMA StutterMaps ==
    ASSUME Accepted' = Accepted,
           \A s \in Sessions : Waiting(s)' = Waiting(s) /\ Active(s)' = Active(s)
    PROVE  UNCHANGED Service!vars
BY DEF Accepted, Waiting, Active, Service!vars

LEMMA AcceptMaps ==
    ASSUME NEW s \in Sessions, NEW n \in Msgs, n = Accepted + 1, Accepted' = n,
           Waiting(s)' = Waiting(s) \cup {n},
           \A t \in Sessions \ {s} : Waiting(t)' = Waiting(t),
           \A t \in Sessions : Active(t)' = Active(t)
    PROVE  Service!Next
<1>1. Service!Accept(s, n)
  BY DEF Service!Accept, Accepted, Waiting, Active
<1> QED BY <1>1 DEF Service!Next, Service!Msgs, Msgs

LEMMA StartMaps ==
    ASSUME NEW s \in Sessions, NEW n \in Msgs, Active(s) = 0,
           n \in Waiting(s), \A m \in Waiting(s) : m <= n,
           Accepted' = Accepted, Waiting(s)' = {}, Active(s)' \in {n, 0},
           \A t \in Sessions \ {s} : Waiting(t)' = Waiting(t) /\ Active(t)' = Active(t)
    PROVE  Service!Next
<1>1. Service!Start(s, n)
  BY DEF Service!Start, Accepted, Waiting, Active
<1> QED BY <1>1 DEF Service!Next, Service!Msgs, Msgs

LEMMA FinishMaps ==
    ASSUME NEW s \in Sessions, Active(s) # 0, Accepted' = Accepted, Active(s)' = 0,
           \A t \in Sessions : Waiting(t)' = Waiting(t),
           \A t \in Sessions \ {s} : Active(t)' = Active(t)
    PROVE  Service!Next
<1>1. [t \in Sessions |-> Active(t)'] = [[t \in Sessions |-> Active(t)] EXCEPT ![s] = 0]
  <2>1. ASSUME NEW t \in Sessions
        PROVE  Active(t)' = [[u \in Sessions |-> Active(u)] EXCEPT ![s] = 0][t]
    OBVIOUS
  <2> QED BY <2>1
<1>2. [t \in Sessions |-> Waiting(t)'] = [t \in Sessions |-> Waiting(t)]
  OBVIOUS
<1>3. Service!Finish(s)
  BY <1>1, <1>2 DEF Service!Finish, Accepted, Waiting, Active
<1> QED BY <1>3 DEF Service!Next

LEMMA AbandonMaps ==
    ASSUME NEW S \in SUBSET Sessions, Accepted' = Accepted,
           \A s \in S : Waiting(s)' = {} /\ Active(s)' = 0,
           \A s \in Sessions \ S : Waiting(s)' = Waiting(s) /\ Active(s)' = Active(s)
    PROVE  Service!Next
<1>1. Service!Abandon(S)
  BY DEF Service!Abandon, Accepted, Waiting, Active
<1> QED BY <1>1 DEF Service!Next

LEMMA DispatchMaps ==
    ASSUME RInv, NEW s \in Sessions, Dispatch(s)
    PROVE  [Service!Next]_Service!vars
<1>n. PICK n : n = arrived + 1
  OBVIOUS
<1>q. PICK q : q = IF queues[s] = None THEN n ELSE queues[s]
  OBVIOUS
<1>1. /\ putTo = None /\ arrived' = n /\ n \in Msgs
      /\ pc[n] = "unborn" /\ buf[n] = <<>> /\ msg[n] = None
      /\ q \in Msgs /\ (q = n \/ queues[s] = q)
      /\ \/ queues[s] = None /\ queues' = [queues EXCEPT ![s] = n]
            /\ tasks' = [tasks EXCEPT ![s] = n] /\ pc' = [pc EXCEPT ![n] = "starting"]
         \/ queues[s] # None /\ UNCHANGED <<queues, tasks, pc>>
      /\ \/ buf' = [buf EXCEPT ![q] = Append(@, n)] /\ putTo' = None
         \/ buf' = buf /\ putTo' = q /\ buf[q] # <<>> /\ q # n
      /\ UNCHANGED msg
  BY <1>n, <1>q, DispatchFacts
<1>2. Inv /\ TypeOK /\ n # None /\ q # None /\ arrived \in Nat
  BY <1>1, NumberTypes DEF RInv, Inv
<1>3. Accepted = arrived /\ n = Accepted + 1
  BY <1>n, <1>1 DEF Accepted
<1>4. \A t \in Sessions : queues[t] = tasks[t] /\ queues[t] \in Msgs \cup {None}
                          /\ (queues[t] # None => sid[queues[t]] = t /\ queues[t] # n)
  BY <1>1, <1>2 DEF Inv, QueueHasReader, TypeOK, Live, Suspended, InProcess
<1>5. /\ \A t \in Sessions \ {s} : queues'[t] = queues[t] /\ tasks'[t] = tasks[t]
      /\ queues'[s] = q /\ tasks'[s] = q
  BY <1>q, <1>1, <1>2, <1>4 DEF TypeOK
<1>6. \A t \in Sessions : Active(t)' = Active(t)
  BY <1>q, <1>1, <1>2, <1>4, <1>5 DEF Active
<1>7. CASE buf' = [buf EXCEPT ![q] = Append(@, n)] /\ putTo' = None
  <2>1. /\ Contents(q)' = Contents(q) \cup {n}
        /\ \A r \in Msgs \ {q} : Contents(r)' = Contents(r)
    BY <1>1, <1>2, <1>7, Appended
  <2>2. Accepted' = n
    BY <1>1, <1>7 DEF Accepted
  <2>3. Waiting(s)' = Contents(q)' /\ Waiting(s) = Contents(q)
    <3>1. queues[s] = None => Contents(q) = {}
      BY <1>q, <1>1 DEF Contents
    <3>2. queues[s] # None => queues[s] = q
      BY <1>q
    <3> QED BY <1>2, <1>5, <3>1, <3>2 DEF Waiting, Contents
  <2>4. ASSUME NEW t \in Sessions \ {s} PROVE Waiting(t)' = Waiting(t)
    <3>1. queues[t] # q /\ queues'[t] = queues[t]
      BY <1>q, <1>2, <1>4, <1>5
    <3>2. CASE queues[t] = None
      BY <3>1, <3>2 DEF Waiting
    <3>3. CASE queues[t] # None
      <4>1. PICK r \in Msgs \ {q} : r = queues[t]
        BY <1>4, <3>1, <3>3
      <4>2. Waiting(t) = Contents(r) /\ Waiting(t)' = Contents(r)'
        BY <3>1, <3>3, <4>1 DEF Waiting, Contents
      <4> QED BY <2>1, <4>1, <4>2
    <3> QED BY <3>2, <3>3
  <2> QED BY <1>1, <1>3, <1>6, <2>1, <2>2, <2>3, <2>4, AcceptMaps
<1>8. CASE buf' = buf /\ putTo' = q /\ q # n
  <2>1. Accepted' = Accepted
    BY <1>n, <1>1, <1>2, <1>3, <1>8 DEF Accepted
  <2>2. \A t \in Sessions : Waiting(t)' = Waiting(t)
    <3>1. queues[s] = q
      BY <1>q, <1>8
    <3>2. \A t \in Sessions : queues'[t] = queues[t]
      BY <1>5, <3>1
    <3> QED BY <1>8, <3>2 DEF Waiting, Contents
  <2> QED BY <1>6, <2>1, <2>2, StutterMaps
<1> QED BY <1>1, <1>7, <1>8

LEMMA PutResumesMaps ==
    ASSUME RInv, PutResumes
    PROVE  [Service!Next]_Service!vars
<1>1. PICK n, q, s : n = arrived /\ q = putTo /\ s = sid[arrived]
  OBVIOUS
<1>2. /\ running /\ q # None /\ buf' = [buf EXCEPT ![q] = Append(@, n)] /\ putTo' = None
      /\ UNCHANGED <<queues, tasks, msg, arrived>>
  BY <1>1 DEF PutResumes, registry, processor
<1>3. Inv /\ TypeOK
  BY DEF RInv, Inv
<1>4. n \in Msgs /\ q \in Msgs /\ n = Accepted + 1 /\ Accepted' = n
  <2>1. n \in Nat /\ n # 0 /\ n \in 0 .. MaxMsgs /\ q \in Msgs
    BY <1>1, <1>2, <1>3 DEF Inv, TypeOK, AtWork
  <2>2. Accepted = n - 1 /\ Accepted' = n
    BY <1>1, <1>2 DEF Accepted
  <2> QED BY <2>1, <2>2, ConstantsAssumption DEF Msgs
<1>5. s \in Sessions /\ queues[s] = q
  BY <1>1, <1>2 DEF RInv, AtQueue
<1>6. /\ Contents(q)' = Contents(q) \cup {n}
      /\ \A r \in Msgs \ {q} : Contents(r)' = Contents(r)
  BY <1>2, <1>3, <1>4, Appended
<1>7. Waiting(s)' = Waiting(s) \cup {n}
  BY <1>2, <1>5, <1>6 DEF Waiting, Contents
<1>8. ASSUME NEW t \in Sessions \ {s} PROVE Waiting(t)' = Waiting(t)
  <2>1. queues[t] # q /\ queues[t] \in Msgs \cup {None}
    BY <1>2, <1>3, <1>4, <1>5, Registered DEF TypeOK
  <2> QED BY <1>2, <1>6, <2>1 DEF Waiting, Contents
<1>9. \A t \in Sessions : Active(t)' = Active(t)
  BY <1>2 DEF Active
<1> QED BY <1>4, <1>5, <1>7, <1>8, <1>9, AcceptMaps

(* sessions that are dropped are abandoned *)
LEMMA DropMaps ==
    ASSUME NEW S \in SUBSET Sessions, Drop(S),
           UNCHANGED <<msg, putTo, arrived>>,
           \A s \in Sessions \ S : queues[s] # None => buf'[queues[s]] = buf[queues[s]]
    PROVE  [Service!Next]_Service!vars
<1>1. \A s \in Sessions : /\ s \in S => queues'[s] = None /\ tasks'[s] = None
                          /\ s \notin S => queues'[s] = queues[s] /\ tasks'[s] = tasks[s]
  BY DEF Drop
<1>2. Accepted' = Accepted
  BY DEF Accepted
<1>3. \A s \in S : Waiting(s)' = {} /\ Active(s)' = 0
  BY <1>1 DEF Waiting, Active, None
<1>4. \A s \in Sessions \ S : Waiting(s)' = Waiting(s) /\ Active(s)' = Active(s)
  BY <1>1 DEF Waiting, Active, Contents
<1> QED BY <1>2, <1>3, <1>4, AbandonMaps

----------------------------------------------------------------------------
LEMMA ReceiveMaps ==
    ASSUME RInv, NEW v \in Msgs, Receive(v)
    PROVE  [Service!Next]_Service!vars
<1>n. PICK n : n = Latest(v)
  OBVIOUS
<1>s. PICK s : s = sid[v]
  OBVIOUS
<1>1. /\ msg[v] = None /\ s \in Sessions /\ tasks[s] = v /\ queues[s] = v
      /\ n \in Contents(v) /\ n \in Msgs /\ \A m \in Contents(v) : m <= n
      /\ buf' = [buf EXCEPT ![v] = <<>>]
      /\ msg' = [msg EXCEPT ![v] = n] \/ msg' = msg
      /\ UNCHANGED <<queues, tasks, putTo, arrived>>
  BY <1>n, <1>s, ReceiveFacts
<1>2. Inv /\ TypeOK /\ v # None
  BY NumberTypes DEF RInv, Inv
<1>3. /\ Contents(v)' = {}
      /\ \A w \in Msgs \ {v} : Contents(w)' = Contents(w)
  BY <1>1, <1>2, Emptied
<1>4. /\ msg'[v] \in {n, 0}
      /\ \A w \in Msgs \ {v} : msg'[w] = msg[w]
  BY <1>1, <1>2 DEF TypeOK, None
<1>5. Active(s) = 0 /\ Active(s)' \in {n, 0}
  BY <1>1, <1>2, <1>4 DEF Active, None
<1>6. Waiting(s) = Contents(v) /\ Waiting(s)' = {}
  BY <1>1, <1>2, <1>3 DEF Waiting, Contents
<1>7. ASSUME NEW t \in Sessions \ {s}
      PROVE  Waiting(t)' = Waiting(t) /\ Active(t)' = Active(t)
  <2>1. queues[t] # v /\ queues[t] = tasks[t] /\ queues[t] \in Msgs \cup {None}
    BY <1>2, <1>s, Registered DEF Inv, QueueHasReader, TypeOK
  <2>2. CASE queues[t] = None
    BY <1>1, <2>1, <2>2 DEF Waiting, Active
  <2>3. CASE queues[t] # None
    <3>1. PICK w \in Msgs \ {v} : w = queues[t] /\ w = tasks[t]
      BY <2>1, <2>3
    <3>2. Waiting(t) = Contents(w) /\ Waiting(t)' = Contents(w)'
      BY <1>1, <2>3, <3>1 DEF Waiting, Contents
    <3>3. Active(t) = msg[w] /\ Active(t)' = msg'[w]
      BY <1>1, <2>1, <2>3, <3>1 DEF Active
    <3> QED BY <1>3, <1>4, <3>1, <3>2, <3>3
  <2> QED BY <2>2, <2>3
<1>8. Accepted' = Accepted
  BY <1>1 DEF Accepted
<1> QED BY <1>1, <1>5, <1>6, <1>7, <1>8, StartMaps

LEMMA IdleExitMaps ==
    ASSUME RInv, NEW v \in Msgs, IdleExit(v)
    PROVE  [Service!Next]_Service!vars
<1>1. /\ Live(v) /\ Drop({sid[v]}) /\ buf' = [buf EXCEPT ![v] = <<>>]
      /\ UNCHANGED <<msg, putTo, arrived>>
  BY DEF IdleExit
<1>2. sid[v] \in Sessions
  BY <1>1 DEF RInv, Inv, Births, Live, Suspended, InProcess
<1>3. ASSUME NEW s \in Sessions \ {sid[v]}, queues[s] # None
      PROVE  buf'[queues[s]] = buf[queues[s]]
  <2>1. queues[s] # v /\ queues[s] \in Msgs
    BY <1>3, Registered DEF RInv, Inv, TypeOK
  <2> QED BY <1>1, <2>1 DEF RInv, Inv, TypeOK
<1>4. {sid[v]} \in SUBSET Sessions
  BY <1>2
<1> QED BY <1>1, <1>3, <1>4, DropMaps

(* a cancelled processor has no session any more *)
LEMMA CancelledMaps ==
    ASSUME RInv, NEW v \in Msgs, Cancelled(v)
    PROVE  [Service!Next]_Service!vars
<1>1. /\ v \in cancelled /\ buf' = [buf EXCEPT ![v] = <<>>]
      /\ msg' = [msg EXCEPT ![v] = None]
      /\ UNCHANGED <<queues, tasks, putTo, arrived>>
  BY DEF Cancelled, registry
<1>2. \A s \in Sessions :
         queues[s] = tasks[s] /\ queues[s] # v /\ queues[s] \in Msgs \cup {None}
  BY <1>1, Registered DEF RInv, Inv, QueueHasReader, TypeOK, Live
<1>3. \A w \in Msgs \ {v} : buf'[w] = buf[w] /\ msg'[w] = msg[w]
  BY <1>1 DEF RInv, Inv, TypeOK
<1>4. ASSUME NEW s \in Sessions
      PROVE  Waiting(s)' = Waiting(s) /\ Active(s)' = Active(s)
  <2>1. CASE queues[s] = None
    BY <1>1, <1>2, <2>1 DEF Waiting, Active
  <2>2. CASE queues[s] # None
    <3>1. PICK w \in Msgs \ {v} : w = queues[s] /\ w = tasks[s]
      BY <1>2, <2>2
    <3>2. buf'[w] = buf[w] /\ msg'[w] = msg[w]
      BY <1>3, <3>1
    <3> QED BY <1>1, <2>2, <3>1, <3>2 DEF Waiting, Active, Contents
  <2> QED BY <2>1, <2>2
<1>5. Accepted' = Accepted
  BY <1>1 DEF Accepted
<1> QED BY <1>4, <1>5, StutterMaps

LEMMA EndMaps ==
    ASSUME RInv, NEW v \in Msgs, Reply(v) \/ Block(v) \/ Raise(v) \/ ProcessTimeout(v)
    PROVE  [Service!Next]_Service!vars
<1>s. PICK s : s = sid[v]
  OBVIOUS
<1>1. /\ pc[v] \in InProcess /\ Live(v) /\ msg' = [msg EXCEPT ![v] = None]
      /\ UNCHANGED <<queues, tasks, buf, putTo, arrived>>
  BY DEF Reply, Block, Raise, ProcessTimeout, End, InProcess, registry
<1>2. Inv /\ TypeOK /\ v # None /\ None \notin Msgs
  BY NumberTypes DEF RInv, Inv
<1>3. s \in Sessions /\ tasks[s] = v /\ msg[v] \in Msgs
  BY <1>s, <1>1, <1>2 DEF RInv, SerialProcessing, Inv, Births, AtWork, Live, Suspended, InProcess
<1>4. msg'[v] = None /\ \A w \in Msgs \ {v} : msg'[w] = msg[w]
  BY <1>1, <1>2 DEF TypeOK
<1>5. Active(s) # 0 /\ Active(s)' = 0
  BY <1>1, <1>2, <1>3, <1>4 DEF Active, None
<1>6. ASSUME NEW t \in Sessions \ {s} PROVE Active(t)' = Active(t)
  <2>1. tasks[t] # v /\ tasks[t] \in Msgs \cup {None}
    BY <1>2, <1>s, Registered DEF Inv, QueueHasReader, TypeOK
  <2> QED BY <1>1, <1>4, <2>1 DEF Active
<1>7. \A t \in Sessions : Waiting(t)' = Waiting(t)
  BY <1>1 DEF Waiting, Contents
<1>8. Accepted' = Accepted
  BY <1>1 DEF Accepted
<1> QED BY <1>3, <1>5, <1>6, <1>7, <1>8, FinishMaps

LEMMA NextMaps ==
    ASSUME RInv, SwallowsCancel = FALSE, [Next]_vars
    PROVE  [Service!Next]_Service!vars
<1>1. CASE UNCHANGED <<queues, tasks, msg, buf, putTo, arrived>>
  <2>1. Accepted' = Accepted /\ \A s \in Sessions : Waiting(s)' = Waiting(s)
                             /\ Active(s)' = Active(s)
    BY <1>1 DEF Accepted, Waiting, Active, Contents
  <2> QED BY <2>1, StutterMaps
<1>2. CASE UNCHANGED vars \/ AbandonedToolEnds \/ Tick
  BY <1>1, <1>2 DEF vars, registry, processor, AbandonedToolEnds, Tick
<1>3. ASSUME NEW v \in Msgs, Start(v) \/ IdleTimer(v) \/ ToolRound(v) \/ ToolReturns(v)
                            \/ ForceSummary(v) \/ Resume(v)
      PROVE  [Service!Next]_Service!vars
  BY <1>1, <1>3 DEF Start, IdleTimer, ToolRound, ToolReturns, ForceSummary, Resume,
     registry
<1>4. CASE Sweep
  <2>1. Drop(Orphans \cup Stuck) /\ UNCHANGED <<msg, putTo, arrived, buf>>
    BY <1>4 DEF Sweep, processor
  <2>2. Orphans \cup Stuck \in SUBSET Sessions
    BY DEF Orphans, Stuck
  <2> QED BY <2>1, <2>2, DropMaps
<1>5. CASE Shutdown
  <2>1. Sessions \in SUBSET Sessions /\ Drop(Sessions) /\ UNCHANGED <<msg, putTo, arrived, buf>>
    BY <1>5 DEF Shutdown, processor
  <2> QED BY <2>1, DropMaps
<1>6. CASE MainLoop
  BY <1>4, <1>5, <1>6, DispatchMaps, PutResumesMaps DEF MainLoop
<1>7. \A v \in Msgs : ~SwallowCancel(v)
  BY DEF SwallowCancel
<1>8. ASSUME NEW v \in Msgs, ProcessorStep(v) \/ ToolReturns(v)
      PROVE  [Service!Next]_Service!vars
  BY <1>3, <1>7, <1>8, EndMaps, ReceiveMaps, IdleExitMaps, CancelledMaps DEF ProcessorStep
<1> QED BY <1>2, <1>6, <1>8 DEF Next

LEMMA InitMaps == ASSUME Init PROVE Service!Init
BY DEF Init, Service!Init, None

(* The session layer, with its registries, sweeps, preemptions, kills and    *)
(* waiting put(), is an at-most-once service that takes the newest message   *)
(* of a session and one at a time, where cancellations arrive.               *)
THEOREM LayerImplementsService == SwallowsCancel = FALSE => (Spec => ImplementsService)
<1> SUFFICES ASSUME SwallowsCancel = FALSE PROVE Spec => ImplementsService
  OBVIOUS
<1>1. Init => RInv /\ Service!Init
  BY InitRInv, InitMaps
<1>2. RInv /\ [Next]_vars => RInv'
  BY NextRInv
<1>3. RInv /\ [Next]_vars => [Service!Next]_Service!vars
  BY NextMaps
<1> QED BY <1>1, <1>2, <1>3, PTL DEF Spec, ImplementsService, Service!Spec
=============================================================================
