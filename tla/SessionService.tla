--------------------------- MODULE SessionService ---------------------------
(* What the session layer of AsyncWorker promises to the users of a channel: *)
(* one message of a session at a time, always the newest one accepted, older *)
(* ones superseded, and no message ever taken up twice or out of order.      *)
(* A session may be abandoned with what it holds (idle timeout, eviction,    *)
(* kill of a stuck session, shutdown): delivery is at most once.             *)
EXTENDS Naturals

CONSTANTS Sessions, MaxMsgs

VARIABLES
    accepted,  \* number of the last message accepted, of any session
    waiting,   \* accepted messages of each session that wait
    active     \* message each session works on, 0 when it works on none

vars == <<accepted, waiting, active>>
Msgs == 1 .. MaxMsgs

Init ==
    /\ accepted = 0
    /\ waiting = [s \in Sessions |-> {}]
    /\ active = [s \in Sessions |-> 0]

Accept(s, n) ==
    /\ n = accepted + 1
    /\ accepted' = n
    /\ waiting' = [waiting EXCEPT ![s] = @ \cup {n}]
    /\ UNCHANGED active

(* the newest waiting message starts, or is refused at once; *)
(* the others are superseded                                 *)
Start(s, n) ==
    /\ active[s] = 0
    /\ n \in waiting[s] /\ \A m \in waiting[s] : m <= n
    /\ waiting' = [waiting EXCEPT ![s] = {}]
    /\ active' \in {[active EXCEPT ![s] = n], active}
    /\ UNCHANGED accepted

Finish(s) ==
    /\ active[s] # 0
    /\ active' = [active EXCEPT ![s] = 0]
    /\ UNCHANGED <<accepted, waiting>>

Abandon(S) ==
    /\ waiting' = [s \in Sessions |-> IF s \in S THEN {} ELSE waiting[s]]
    /\ active' = [s \in Sessions |-> IF s \in S THEN 0 ELSE active[s]]
    /\ UNCHANGED accepted

Next ==
    \/ \E s \in Sessions, n \in Msgs : Accept(s, n) \/ Start(s, n)
    \/ \E s \in Sessions : Finish(s)
    \/ \E S \in SUBSET Sessions : Abandon(S)

Spec == Init /\ [][Next]_vars
=============================================================================
