------------------------- MODULE TelegramDelivery -------------------------
(* What crosses the border between a worker and Telegram, and what is left   *)
(* of it after a crash: TelegramChannel of channel.py (poll with its offset, *)
(* send), the table behind it (delivery_ledger.py), and the main loops of    *)
(* the two workers around them (unified_worker.py).  Worker polls when every *)
(* message of the last poll has been processed; AsyncWorker polls while its  *)
(* sessions still work, which is what overlap says.                          *)
(*                                                                           *)
(* An update is a message with a chat and a text, known by its update_id.    *)
(* An answer is known by its obligation_id, a hash of chat and text: equal   *)
(* texts in one chat are one answer.  channel.send blocks the thread that    *)
(* processes messages, so a process has one request under way.               *)
EXTENDS Integers, FiniteSets

CONSTANTS
    Answers,      \* obligation ids
    MaxRetries,   \* delivery_ledger.MAX_RETRIES, 3
    MaxUpdates,   \* bound: messages that users write
    MaxCrashes    \* bound: crashes of the process

ASSUME ConstantsAssumption ==
    /\ MaxRetries \in Nat \ {0}
    /\ MaxUpdates \in Nat /\ MaxCrashes \in Nat

VARIABLES
    arrived,      \* Telegram: update_id of the newest update
    confirmed,    \* Telegram: the updates up to this one are not offered again
    seen,         \* Telegram: answers that appeared in their chat
    rows,         \* delivery_obligations: state, attempts, older than MAX_AGE
    overlap,      \* whether the worker is an AsyncWorker
    up,           \* whether there is a process
    lastUpdate,   \* _last_update
    inbox,        \* updates this process has polled and not processed
    request,      \* progress of send(): nothing under way, sent, shown, refused
    answer,       \* the answer send() is about
    handled,      \* history: updates that the worker is done with
    dropped,      \* history: updates of polls and rounds that broke off
    atCrash,      \* history: updates in an inbox when the process crashed
    fetched,      \* history: how often poll() has returned an update
    crashes       \* history: number of crashes

telegram == <<arrived, confirmed, seen>>
process  == <<up, lastUpdate, inbox, request, answer>>
past     == <<handled, dropped, atCrash, fetched, crashes>>
vars == <<telegram, rows, overlap, process, past>>

Updates  == 1 .. MaxUpdates
Requests == {"nothing", "sent", "shown", "refused"}
Open  == {"pending", "failed"}
Final == {"delivered", "abandoned"}
\* The number of attempts is compared with MaxRetries only, and stops above it.
Row == [state : {"none"} \cup Open \cup Final, attempts : 0 .. MaxRetries + 1,
        old : BOOLEAN]

Larger(m, n) == IF m < n THEN n ELSE m
Newest(U)    == CHOOSE u \in U : \A v \in U : v <= u
Oldest(U)    == CHOOSE u \in U : \A v \in U : u <= v

-----------------------------------------------------------------------------
(* delivery_ledger.py: the statements on the table. *)

\* create_obligation: INSERT OR IGNORE
CreateObligation(a) ==
    IF rows[a].state = "none"
    THEN [rows EXCEPT ![a] = [state |-> "pending", attempts |-> 0, old |-> FALSE]]
    ELSE rows

OneMore(n) == IF n <= MaxRetries THEN n + 1 ELSE n

\* mark_delivered: any row that is not abandoned
MarkDelivered(a) ==
    IF rows[a].state \in {"none", "abandoned"} THEN rows
    ELSE [rows EXCEPT ![a].state = "delivered", ![a].attempts = OneMore(@)]

\* mark_failed: any row that is not final
MarkFailed(a) ==
    IF rows[a].state \notin Open THEN rows
    ELSE [rows EXCEPT
            ![a].state = IF rows[a].attempts >= MaxRetries THEN "abandoned" ELSE "failed",
            ![a].attempts = OneMore(@)]

\* Fault: only the rows that were never marked.
LoadUnmarked == {a \in Answers : rows[a].state = "pending" /\ ~rows[a].old}

\* load_pending: what a new process is told
LoadPending == {a \in Answers : /\ rows[a].state \in Open
                                /\ rows[a].attempts < MaxRetries
                                /\ ~rows[a].old}

\* abandon_expired
AbandonExpired ==
    [a \in Answers |-> IF rows[a].state \in Open /\ rows[a].old
                       THEN [rows[a] EXCEPT !.state = "abandoned"] ELSE rows[a]]

-----------------------------------------------------------------------------
Init ==
    /\ arrived = 0 /\ confirmed = 0 /\ seen = {}
    /\ rows = [a \in Answers |-> [state |-> "none", attempts |-> 0, old |-> FALSE]]
    /\ overlap \in BOOLEAN
    /\ up = TRUE /\ lastUpdate = 0 /\ inbox = {}
    /\ request = "nothing" /\ answer \in Answers
    /\ handled = {} /\ dropped = {} /\ atCrash = {}
    /\ fetched = [u \in Updates |-> 0] /\ crashes = 0

\* A user writes.
Write ==
    /\ arrived < MaxUpdates
    /\ arrived' = arrived + 1
    /\ UNCHANGED <<confirmed, seen, rows, overlap, process, past>>

(* poll: getUpdates with an offset asks for the updates from there on and     *)
(* tells Telegram to forget those before it.                                  *)
\* Faults: an offset that acknowledges too much, and one that repeats.
OffsetAhead  == lastUpdate + 2
OffsetBehind == lastUpdate

Offset == lastUpdate + 1
Batch  == {u \in Updates : Offset <= u /\ confirmed < u /\ u <= arrived}

LastOf(batch) == IF batch = {} THEN lastUpdate ELSE Newest(batch)
Confirm == confirmed' = Larger(confirmed, Offset - 1)

Polling == up /\ (overlap \/ (inbox = {} /\ request = "nothing"))

Poll ==
    /\ Polling
    /\ Confirm
    /\ inbox' = inbox \cup Batch
    /\ lastUpdate' = LastOf(Batch)
    /\ fetched' = [u \in Updates |-> IF u \in Batch THEN fetched[u] + 1 ELSE fetched[u]]
    /\ UNCHANGED <<arrived, seen, rows, overlap, up, request, answer,
                   handled, dropped, atCrash, crashes>>

\* Telegram has seen the request, its answer is lost, late or unreadable.
PollLost ==
    /\ Polling
    /\ Confirm
    /\ UNCHANGED <<arrived, seen, rows, overlap, process, past>>

(* Reading update u of the batch raises: the messages read before it are      *)
(* thrown away with it, and the offset is behind them all.                    *)
PollBreaks(u) ==
    /\ Polling
    /\ u \in Batch
    /\ Confirm
    /\ lastUpdate' = u
    /\ dropped' = dropped \cup {v \in Batch : v <= u}
    /\ UNCHANGED <<arrived, seen, rows, overlap, up, inbox, request, answer,
                   handled, atCrash, fetched, crashes>>

(* The worker is done with a message: answered, failed, or skipped for a      *)
(* newer one.  Worker takes them in order, AsyncWorker has a coroutine for    *)
(* each session.  In between it sends what it likes.                          *)
Ready == IF overlap \/ inbox = {} THEN inbox ELSE {Oldest(inbox)}

Finish(u) ==
    /\ up /\ request = "nothing"
    /\ u \in Ready
    /\ inbox' = inbox \ {u}
    /\ handled' = handled \cup {u}
    /\ UNCHANGED <<telegram, rows, overlap, up, lastUpdate, request, answer,
                   dropped, atCrash, fetched, crashes>>

(* In Worker the reply that reports an error may raise as well, in the        *)
(* handler: the loop over the messages is left, and with it all that remain.  *)
RoundBreaks ==
    /\ up /\ ~overlap /\ request = "nothing" /\ inbox # {}
    /\ inbox' = {}
    /\ dropped' = dropped \cup inbox
    /\ UNCHANGED <<telegram, rows, overlap, up, lastUpdate, request, answer,
                   handled, atCrash, fetched, crashes>>

Send(a) ==
    /\ up /\ request = "nothing" /\ Ready # {}
    /\ rows' = CreateObligation(a)
    /\ request' = "sent" /\ answer' = a
    /\ UNCHANGED <<telegram, overlap, up, lastUpdate, inbox, past>>

TelegramShows ==
    /\ request = "sent"
    /\ request' = "shown" /\ seen' = seen \cup {answer}
    /\ UNCHANGED <<arrived, confirmed, rows, overlap, up, lastUpdate, inbox,
                   answer, past>>

\* An error of the API, or the request never got there.
TelegramRefuses ==
    /\ request = "sent"
    /\ request' = "refused"
    /\ UNCHANGED <<telegram, rows, overlap, up, lastUpdate, inbox, answer, past>>

SendSucceeds ==
    /\ request = "shown"
    /\ rows' = MarkDelivered(answer) /\ request' = "nothing"
    /\ UNCHANGED <<telegram, overlap, up, lastUpdate, inbox, answer, past>>

(* The except branch also takes a reply that is late or unreadable, and a     *)
(* mark_delivered that raises: the answer is there all the same.              *)
SendFails ==
    /\ request \in {"shown", "refused"}
    /\ rows' = MarkFailed(answer) /\ request' = "nothing"
    /\ UNCHANGED <<telegram, overlap, up, lastUpdate, inbox, answer, past>>

\* mark_failed raises: the worker's handler takes the exception.
SendRaises ==
    /\ request \in {"shown", "refused"}
    /\ request' = "nothing"
    /\ UNCHANGED <<telegram, rows, overlap, up, lastUpdate, inbox, answer, past>>

-----------------------------------------------------------------------------
\* A request under way may still get there.
Crash ==
    /\ up /\ crashes < MaxCrashes
    /\ up' = FALSE /\ crashes' = crashes + 1
    /\ lastUpdate' = 0 /\ inbox' = {} /\ request' = "nothing"
    /\ seen' \in {seen} \cup {seen \cup {answer} : r \in {request} \ {"nothing", "refused"}}
    /\ atCrash' = atCrash \cup inbox
    /\ UNCHANGED <<arrived, confirmed, rows, overlap, answer, handled, dropped, fetched>>

\* Only Worker looks at the ledger when it starts, and only logs what is open.
Start ==
    /\ ~up
    /\ up' = TRUE
    /\ rows' = IF overlap THEN rows ELSE AbandonExpired
    /\ UNCHANGED <<telegram, overlap, lastUpdate, inbox, request, answer, past>>

\* MAX_AGE has passed since a row was written.
GrowOld(a) ==
    /\ rows[a].state # "none" /\ ~rows[a].old
    /\ rows' = [rows EXCEPT ![a].old = TRUE]
    /\ UNCHANGED <<telegram, overlap, process, past>>

SendEnds == SendSucceeds \/ SendFails \/ SendRaises
Answered == TelegramShows \/ TelegramRefuses

Next ==
    \/ Write \/ Poll \/ PollLost \/ RoundBreaks \/ Crash \/ Start
    \/ \E u \in Updates : PollBreaks(u) \/ Finish(u)
    \/ Answered \/ SendEnds
    \/ \E a \in Answers : Send(a) \/ GrowOld(a)

Spec == Init /\ [][Next]_vars

(* A request ends by its timeout and a turn by its limits, the network works  *)
(* now and then, and the service manager restarts the process.  Nobody has to *)
(* write or to crash.                                                         *)
Fairness ==
    /\ SF_vars(Poll)
    /\ \A u \in Updates : SF_vars(Finish(u))
    /\ WF_vars(Answered) /\ WF_vars(SendEnds)
    /\ WF_vars(Start)

FairSpec == Spec /\ Fairness

-----------------------------------------------------------------------------
(* Types of all variables. *)
TypeOK ==
    /\ arrived \in 0 .. MaxUpdates /\ confirmed \in 0 .. arrived
    /\ seen \subseteq Answers
    /\ rows \in [Answers -> Row]
    /\ overlap \in BOOLEAN /\ up \in BOOLEAN
    /\ lastUpdate \in 0 .. arrived
    /\ inbox \subseteq 1 .. arrived
    /\ request \in Requests /\ answer \in Answers
    /\ handled \subseteq Updates /\ dropped \subseteq Updates /\ atCrash \subseteq Updates
    /\ fetched \in [Updates -> Nat] /\ crashes \in 0 .. MaxCrashes

(* A message that Telegram will not offer again has been processed, or is in *)
(* the hands of the process, or was lost with an exception that broke off the *)
(* poll or the round it was in, or, with AsyncWorker only, was in the hands   *)
(* of a process that crashed.  The offset of poll() acknowledges what the     *)
(* previous poll returned: in Worker that has been processed by then, so that *)
(* a crash costs it no message.                                               *)
ForgottenHasCause ==
    \A u \in 1 .. confirmed :
        u \in handled \cup inbox \cup dropped \cup (IF overlap THEN atCrash ELSE {})

(* poll() returns a message twice only to two processes: every repetition has *)
(* a crash to blame, since _last_update starts from zero again.               *)
RepeatNeedsCrash == \A u \in Updates : fetched[u] <= crashes + 1

(* "Write-ahead: obligation is persisted BEFORE send() is called": whatever   *)
(* is on its way to a chat or has appeared there has a row.                   *)
WriteAhead ==
    \A a \in Answers : rows[a].state = "none" =>
        a \notin seen /\ (request # "nothing" => a # answer)

(* An answer with a row that never appeared is among those load_pending       *)
(* returns at the next start, until it is a day old or has been tried         *)
(* MaxRetries times: nothing crosses it off, whenever the process crashes.    *)
UnseenIsRecoverable ==
    \A a \in Answers \ seen :
        \/ rows[a].state = "none" \/ a \in LoadPending
        \/ rows[a].old \/ rows[a].attempts >= MaxRetries

(* A row is given up for one of two reasons: more failures than MAX_RETRIES   *)
(* ("If attempts exceed MAX_RETRIES, marks as 'abandoned'"), or its age.      *)
AbandonedForReason ==
    \A a \in Answers :
        /\ rows[a].state = "abandoned" => rows[a].old \/ rows[a].attempts > MaxRetries
        /\ rows[a].state = "failed" => rows[a].attempts \in 1 .. MaxRetries

(* What was delivered or abandoned stays so, whatever becomes of a later      *)
(* request with the same text and of the marks that come late.                *)
FinalStays ==
    [][\A a \in Answers : rows[a].state \in Final => rows'[a].state = rows[a].state]_vars

(* A message that somebody wrote is processed in the end, except when an      *)
(* exception broke off the poll or the round that contained it, and, with     *)
(* AsyncWorker, when a process crashed that had it in its hands.              *)
EveryUpdateEnds ==
    \A u \in Updates :
        (u <= arrived) ~> (u \in handled \cup dropped \cup (IF overlap THEN atCrash ELSE {}))
=============================================================================
