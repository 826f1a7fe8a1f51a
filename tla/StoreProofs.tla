---------------------------- MODULE StoreProofs ----------------------------
(* Proofs about what the program keeps in SQLite and what relies on it: the  *)
(* delivery ledger and the Telegram channel (TelegramDelivery), for any      *)
(* number of answers, messages, crashes and retries and for both workers;    *)
(* and the history of the conversations and the session store                *)
(* (SessionHistory), for any number of sessions, chats and turns, any routes *)
(* between them and any limits.  The two share no variable.                  *)
EXTENDS TelegramDelivery, SessionHistory, WellFoundedInduction, TLAPS

-----------------------------------------------------------------------------
(* The ledger.  Ledger is what is invariant about the rows by themselves.    *)

Ledger == rows \in [Answers -> Row] /\ AbandonedForReason

\* What no step undoes: a row, and a final state.
Kept(a) ==
    /\ rows[a].state # "none" => rows'[a].state # "none"
    /\ rows[a].state \in Final => rows'[a].state = rows[a].state

\* What every step but mark_delivered leaves alone.
NotDelivered(a) == rows'[a].state = "delivered" => rows[a].state = "delivered"

(* A statement that changes one row, if at all, has to be looked at there.   *)
LEMMA OneRow ==
  ASSUME Ledger, NEW a \in Answers, NEW r \in Row, rows' = [rows EXCEPT ![a] = r],
         r.state = "abandoned" => r.old \/ r.attempts > MaxRetries,
         r.state = "failed" => r.attempts \in 1 .. MaxRetries,
         r.state # "none",
         rows[a].state \in Final => r.state = rows[a].state
  PROVE  /\ Ledger' /\ \A b \in Answers : Kept(b)
         /\ \A b \in Answers : b # a => NotDelivered(b)
         /\ rows'[a] = r
<1>1. rows' \in [Answers -> Row]
  BY DEF Ledger
<1>2. rows'[a] = r /\ \A b \in Answers : b # a => rows'[b] = rows[b]
  BY DEF Ledger
<1>3. AbandonedForReason'
  BY <1>2 DEF Ledger, AbandonedForReason
<1>. QED  BY <1>1, <1>2, <1>3 DEF Ledger, Kept, NotDelivered

(* The number of attempts stays in its range.                                *)
LEMMA Counting ==
  ASSUME NEW n \in 0 .. MaxRetries + 1
  PROVE  /\ OneMore(n) \in 0 .. MaxRetries + 1
         /\ n < MaxRetries => OneMore(n) \in 1 .. MaxRetries
         /\ ~(n < MaxRetries) => OneMore(n) > MaxRetries
BY ConstantsAssumption DEF OneMore

LEMMA RowFields ==
  ASSUME Ledger, NEW a \in Answers
  PROVE  /\ rows[a].state \in {"none"} \cup Open \cup Final
         /\ rows[a].attempts \in 0 .. MaxRetries + 1
         /\ rows[a].old \in BOOLEAN
BY DEF Ledger, Row

(* create_obligation *)
LEMMA Creating ==
  ASSUME Ledger, NEW a \in Answers, rows' = CreateObligation(a)
  PROVE  /\ Ledger' /\ \A b \in Answers : Kept(b) /\ NotDelivered(b)
         /\ rows'[a].state # "none"
<1> DEFINE new == [state |-> "pending", attempts |-> 0, old |-> FALSE]
<1>1. CASE rows[a].state = "none"
  <2>1. new \in Row
    BY ConstantsAssumption DEF Row, Open
  <2>2. rows' = [rows EXCEPT ![a] = new]
    BY <1>1 DEF CreateObligation
  <2>3. /\ Ledger' /\ \A b \in Answers : Kept(b)
        /\ \A b \in Answers : b # a => NotDelivered(b)
        /\ rows'[a] = new
    BY <1>1, <2>1, <2>2, OneRow DEF Final
  <2>. QED  BY <2>3 DEF NotDelivered
<1>2. CASE rows[a].state # "none"
  <2>1. rows' = rows
    BY <1>2 DEF CreateObligation
  <2>. QED  BY <1>2, <2>1 DEF Ledger, AbandonedForReason, Kept, NotDelivered
<1>. QED  BY <1>1, <1>2

(* mark_delivered *)
LEMMA Delivering ==
  ASSUME Ledger, NEW a \in Answers, rows' = MarkDelivered(a)
  PROVE  /\ Ledger' /\ \A b \in Answers : Kept(b)
         /\ \A b \in Answers : b # a => NotDelivered(b)
<1> DEFINE r == [rows[a] EXCEPT !.state = "delivered", !.attempts = OneMore(@)]
<1>1. CASE rows[a].state \in {"none", "abandoned"}
  <2>1. rows' = rows
    BY <1>1 DEF MarkDelivered
  <2>. QED  BY <2>1 DEF Ledger, AbandonedForReason, Kept, NotDelivered
<1>2. CASE rows[a].state \notin {"none", "abandoned"}
  <2>1. rows' = [rows EXCEPT ![a] = r]
    BY <1>2 DEF MarkDelivered, Ledger
  <2>2. r \in Row /\ r.state = "delivered"
    BY RowFields, Counting DEF Ledger, Row, Final
  <2>3. rows[a].state \in Final => rows[a].state = "delivered"
    BY <1>2 DEF Final
  <2>. QED  BY <2>1, <2>2, <2>3, OneRow
<1>. QED  BY <1>1, <1>2

(* mark_failed *)
LEMMA Failing ==
  ASSUME Ledger, NEW a \in Answers, rows' = MarkFailed(a)
  PROVE  Ledger' /\ \A b \in Answers : Kept(b) /\ NotDelivered(b)
<1> DEFINE given == IF rows[a].attempts >= MaxRetries THEN "abandoned" ELSE "failed"
           r == [rows[a] EXCEPT !.state = given, !.attempts = OneMore(@)]
<1>1. CASE rows[a].state \notin Open
  <2>1. rows' = rows
    BY <1>1 DEF MarkFailed
  <2>. QED  BY <2>1 DEF Ledger, AbandonedForReason, Kept, NotDelivered
<1>2. CASE rows[a].state \in Open
  <2>1. rows' = [rows EXCEPT ![a] = r]
    BY <1>2 DEF MarkFailed, Ledger
  <2>2. r \in Row
    BY RowFields, Counting DEF Ledger, Row, Open, Final
  <2>3. r.state = given /\ r.attempts = OneMore(rows[a].attempts)
    BY DEF Ledger, Row
  <2>4. r.state = "abandoned" => r.attempts > MaxRetries
    BY <2>3, RowFields, Counting, ConstantsAssumption
  <2>5. r.state = "failed" => r.attempts \in 1 .. MaxRetries
    BY <2>3, RowFields, Counting, ConstantsAssumption
  <2>6. rows[a].state \notin Final /\ r.state # "none" /\ r.state # "delivered"
    BY <1>2, <2>3 DEF Open, Final
  <2> HIDE DEF r
  <2>7. /\ Ledger' /\ \A b \in Answers : Kept(b)
        /\ \A b \in Answers : b # a => NotDelivered(b)
        /\ rows'[a] = r
    BY <2>1, <2>2, <2>4, <2>5, <2>6, OneRow
  <2>8. NotDelivered(a)
    BY <2>6, <2>7 DEF NotDelivered
  <2>. QED  BY <2>7, <2>8
<1>. QED  BY <1>1, <1>2

(* A row that becomes too old. *)
LEMMA Ageing ==
  ASSUME Ledger, NEW a \in Answers, rows[a].state # "none",
         rows' = [rows EXCEPT ![a].old = TRUE]
  PROVE  Ledger' /\ \A b \in Answers : Kept(b) /\ NotDelivered(b)
<1> DEFINE r == [rows[a] EXCEPT !.old = TRUE]
<1>1. rows' = [rows EXCEPT ![a] = r]
  BY DEF Ledger
<1>2. r \in Row /\ r.state = rows[a].state /\ r.attempts = rows[a].attempts /\ r.old
  BY DEF Ledger, Row
<1>3. rows[a].state = "failed" => rows[a].attempts \in 1 .. MaxRetries
  BY DEF Ledger, AbandonedForReason
<1>4. /\ Ledger' /\ \A b \in Answers : Kept(b)
      /\ \A b \in Answers : b # a => NotDelivered(b)
      /\ rows'[a] = r
  BY <1>1, <1>2, <1>3, OneRow
<1>. QED  BY <1>2, <1>4 DEF NotDelivered

(* abandon_expired *)
LEMMA Expiring ==
  ASSUME Ledger, rows' = AbandonExpired
  PROVE  Ledger' /\ \A b \in Answers : Kept(b) /\ NotDelivered(b)
<1> DEFINE r(b) == IF rows[b].state \in Open /\ rows[b].old
                   THEN [rows[b] EXCEPT !.state = "abandoned"] ELSE rows[b]
<1>1. rows' = [b \in Answers |-> r(b)]
  BY DEF AbandonExpired
<1>2. ASSUME NEW b \in Answers
      PROVE  /\ r(b) \in Row
             /\ r(b).state = "abandoned" => r(b).old \/ r(b).attempts > MaxRetries
             /\ r(b).state = "failed" => r(b).attempts \in 1 .. MaxRetries
             /\ rows[b].state # "none" => r(b).state # "none"
             /\ rows[b].state \in Final => r(b).state = rows[b].state
             /\ r(b).state = "delivered" => rows[b].state = "delivered"
  <2>1. CASE rows[b].state \in Open /\ rows[b].old
    BY <2>1 DEF Ledger, Row, Open, Final
  <2>2. CASE ~(rows[b].state \in Open /\ rows[b].old)
    BY <2>2 DEF Ledger, AbandonedForReason
  <2>. QED  BY <2>1, <2>2
<1> HIDE DEF r
<1>3. \A b \in Answers : rows'[b] = r(b)
  BY <1>1
<1>4. Ledger'
  BY <1>1, <1>2, <1>3 DEF Ledger, AbandonedForReason
<1>. QED  BY <1>2, <1>3, <1>4 DEF Kept, NotDelivered

-----------------------------------------------------------------------------
(* The ledger and the chat.  AtTelegram ties the rows to what has appeared.  *)

AtTelegram ==
    /\ request \in Requests /\ answer \in Answers /\ seen \subseteq Answers
    /\ \A a \in Answers : rows[a].state = "delivered" => a \in seen
    /\ request = "shown" => answer \in seen

LedgerInv == Ledger /\ AtTelegram /\ WriteAhead

LEMMA LedgerInit == Init => LedgerInv
<1> SUFFICES ASSUME Init PROVE LedgerInv
  OBVIOUS
<1> DEFINE none == [state |-> "none", attempts |-> 0, old |-> FALSE]
<1>1. none \in Row
  BY ConstantsAssumption DEF Row
<1>2. rows = [a \in Answers |-> none]
  BY DEF Init
<1>3. rows \in [Answers -> Row] /\ \A a \in Answers : rows[a] = none
  BY <1>1, <1>2
<1>4. Ledger
  BY <1>3 DEF Ledger, AbandonedForReason
<1>5. AtTelegram /\ WriteAhead
  BY <1>3 DEF AtTelegram, WriteAhead, Init, Requests
<1>. QED  BY <1>4, <1>5 DEF LedgerInv

(* A step that leaves the rows, the request and the chat alone.              *)
LEMMA Elsewhere ==
  ASSUME LedgerInv, UNCHANGED <<rows, seen, request, answer>>
  PROVE  LedgerInv' /\ \A b \in Answers : Kept(b)
BY DEF LedgerInv, Ledger, AtTelegram, WriteAhead, AbandonedForReason, Kept

LEMMA LedgerStep ==
  ASSUME LedgerInv, [Next]_vars
  PROVE  LedgerInv' /\ \A b \in Answers : Kept(b)
<1>. USE DEF LedgerInv
<1>1. CASE Write \/ Poll \/ PollLost \/ RoundBreaks \/ \E u \in Updates : PollBreaks(u) \/ Finish(u)
  BY <1>1, Elsewhere DEF Write, Poll, PollLost, PollBreaks, RoundBreaks, Finish, process,
     telegram, past
<1>2. CASE UNCHANGED vars
  BY <1>2, Elsewhere DEF vars, telegram, process
<1>3. ASSUME NEW a \in Answers, Send(a) PROVE LedgerInv' /\ \A b \in Answers : Kept(b)
  <2>1. /\ rows' = CreateObligation(a) /\ request' = "sent" /\ answer' = a
        /\ seen' = seen
    BY <1>3 DEF Send, telegram
  <2>2. /\ Ledger' /\ \A b \in Answers : Kept(b) /\ NotDelivered(b)
        /\ rows'[a].state # "none"
    BY <2>1, Creating
  <2>3. AtTelegram'
    BY <2>1, <2>2 DEF AtTelegram, NotDelivered, Requests
  <2>4. WriteAhead'
    BY <2>1, <2>2 DEF WriteAhead, Kept
  <2>. QED  BY <2>2, <2>3, <2>4
<1>4. CASE TelegramShows
  <2>1. /\ request = "sent" /\ request' = "shown" /\ seen' = seen \cup {answer}
        /\ rows' = rows /\ answer' = answer
    BY <1>4 DEF TelegramShows
  <2>2. Ledger' /\ \A b \in Answers : Kept(b)
    BY <2>1 DEF Ledger, AbandonedForReason, Kept
  <2>3. AtTelegram' /\ WriteAhead'
    BY <2>1 DEF AtTelegram, WriteAhead, Requests
  <2>. QED  BY <2>2, <2>3
<1>5. CASE TelegramRefuses
  <2>1. /\ request = "sent" /\ request' = "refused" /\ seen' = seen
        /\ rows' = rows /\ answer' = answer
    BY <1>5 DEF TelegramRefuses, telegram
  <2>2. Ledger' /\ \A b \in Answers : Kept(b)
    BY <2>1 DEF Ledger, AbandonedForReason, Kept
  <2>3. AtTelegram' /\ WriteAhead'
    BY <2>1 DEF AtTelegram, WriteAhead, Requests
  <2>. QED  BY <2>2, <2>3
<1>6. CASE SendSucceeds
  <2>1. /\ request = "shown" /\ request' = "nothing" /\ seen' = seen
        /\ rows' = MarkDelivered(answer) /\ answer' = answer /\ answer \in Answers
    BY <1>6 DEF SendSucceeds, telegram, AtTelegram
  <2>2. /\ Ledger' /\ \A b \in Answers : Kept(b)
        /\ \A b \in Answers : b # answer => NotDelivered(b)
    BY <2>1, Delivering
  <2>3. AtTelegram' /\ WriteAhead'
    BY <2>1, <2>2 DEF AtTelegram, WriteAhead, Requests, NotDelivered, Kept
  <2>. QED  BY <2>2, <2>3
<1>7. CASE SendFails
  <2>1. /\ request' = "nothing" /\ seen' = seen
        /\ rows' = MarkFailed(answer) /\ answer' = answer /\ answer \in Answers
    BY <1>7 DEF SendFails, telegram, AtTelegram
  <2>2. Ledger' /\ \A b \in Answers : Kept(b) /\ NotDelivered(b)
    BY <2>1, Failing
  <2>3. AtTelegram' /\ WriteAhead'
    BY <2>1, <2>2 DEF AtTelegram, WriteAhead, Requests, NotDelivered, Kept
  <2>. QED  BY <2>2, <2>3
<1>8. CASE SendRaises
  <2>1. request' = "nothing" /\ UNCHANGED <<rows, seen, answer>>
    BY <1>8 DEF SendRaises, telegram
  <2>2. Ledger' /\ \A b \in Answers : Kept(b)
    BY <2>1 DEF Ledger, AbandonedForReason, Kept
  <2>3. AtTelegram' /\ WriteAhead'
    BY <2>1 DEF AtTelegram, WriteAhead, Requests
  <2>. QED  BY <2>2, <2>3
<1>9. CASE Crash
  <2>1. /\ request' = "nothing" /\ rows' = rows /\ answer' = answer
        /\ seen \subseteq seen'
        /\ seen' = seen \/ (request # "nothing" /\ seen' = seen \cup {answer})
    BY <1>9 DEF Crash
  <2>2. Ledger' /\ \A b \in Answers : Kept(b)
    BY <2>1 DEF Ledger, AbandonedForReason, Kept
  <2>3. AtTelegram' /\ WriteAhead'
    BY <2>1 DEF AtTelegram, WriteAhead, Requests
  <2>. QED  BY <2>2, <2>3
<1>10. CASE Start
  <2>1. UNCHANGED <<seen, request, answer>>
    BY <1>10 DEF Start, telegram
  <2>2. rows' = rows \/ rows' = AbandonExpired
    BY <1>10 DEF Start
  <2>3. CASE rows' = rows
    BY <2>1, <2>3, Elsewhere
  <2>4. CASE rows' = AbandonExpired
    <3>1. Ledger' /\ \A b \in Answers : Kept(b) /\ NotDelivered(b)
      BY <2>4, Expiring
    <3>2. AtTelegram' /\ WriteAhead'
      BY <2>1, <3>1 DEF AtTelegram, WriteAhead, NotDelivered, Kept
    <3>. QED  BY <3>1, <3>2
  <2>. QED  BY <2>2, <2>3, <2>4
<1>11. ASSUME NEW a \in Answers, GrowOld(a) PROVE LedgerInv' /\ \A b \in Answers : Kept(b)
  <2>1. /\ rows[a].state # "none" /\ rows' = [rows EXCEPT ![a].old = TRUE]
        /\ UNCHANGED <<seen, request, answer>>
    BY <1>11 DEF GrowOld, telegram, process
  <2>2. Ledger' /\ \A b \in Answers : Kept(b) /\ NotDelivered(b)
    BY <2>1, Ageing
  <2>3. AtTelegram' /\ WriteAhead'
    BY <2>1, <2>2 DEF AtTelegram, WriteAhead, NotDelivered, Kept
  <2>. QED  BY <2>2, <2>3
<1>. QED
  BY <1>1, <1>2, <1>3, <1>4, <1>5, <1>6, <1>7, <1>8, <1>9, <1>10, <1>11
  DEF Next, Answered, SendEnds

(* No answer is on its way to a chat, or has appeared there, without a row.  *)
THEOREM RecordedAhead == Spec => []WriteAhead
<1>1. LedgerInv /\ [Next]_vars => LedgerInv'
  BY LedgerStep
<1>2. LedgerInv => WriteAhead
  BY DEF LedgerInv
<1>. QED  BY LedgerInit, <1>1, <1>2, PTL DEF Spec

(* No answer that has a row and never appeared is crossed off the list of a  *)
(* new process before its time.                                              *)
THEOREM NothingCrossedOff == Spec => []UnseenIsRecoverable
<1>1. LedgerInv /\ [Next]_vars => LedgerInv'
  BY LedgerStep
<1>2. ASSUME LedgerInv PROVE UnseenIsRecoverable
  <2> SUFFICES ASSUME NEW a \in Answers, a \notin seen
               PROVE  \/ rows[a].state = "none" \/ a \in LoadPending
                      \/ rows[a].old \/ rows[a].attempts >= MaxRetries
    BY DEF UnseenIsRecoverable
  <2>1. rows[a].state \in {"none", "abandoned"} \cup Open
    BY <1>2, RowFields DEF LedgerInv, AtTelegram, Final
  <2>2. rows[a].state = "abandoned" => rows[a].old \/ rows[a].attempts > MaxRetries
    BY <1>2 DEF LedgerInv, Ledger, AbandonedForReason
  <2>3. rows[a].attempts \in 0 .. MaxRetries + 1
    BY <1>2, RowFields DEF LedgerInv
  <2>4. rows[a].state \in Open => \/ a \in LoadPending \/ rows[a].old
                                  \/ ~(rows[a].attempts < MaxRetries)
    BY DEF LoadPending
  <2>. QED  BY <2>1, <2>2, <2>3, <2>4, ConstantsAssumption
<1>. QED  BY LedgerInit, <1>1, <1>2, PTL DEF Spec

(* A row is given up only after MaxRetries failures or for its age.           *)
THEOREM GivenUpForReason == Spec => []AbandonedForReason
<1>1. LedgerInv /\ [Next]_vars => LedgerInv'
  BY LedgerStep
<1>2. LedgerInv => AbandonedForReason
  BY DEF LedgerInv, Ledger
<1>. QED  BY LedgerInit, <1>1, <1>2, PTL DEF Spec

(* A delivered or abandoned row stays delivered or abandoned.                *)
THEOREM FinalRowsStay == Spec => FinalStays
<1>1. LedgerInv /\ [Next]_vars => LedgerInv'
  BY LedgerStep
<1>2. LedgerInv /\ [Next]_vars =>
        [\A a \in Answers : rows[a].state \in Final => rows'[a].state = rows[a].state]_vars
  BY LedgerStep DEF Kept
<1>. QED  BY LedgerInit, <1>1, <1>2, PTL DEF Spec, FinalStays

-----------------------------------------------------------------------------
(* The updates and the offset.                                               *)

Numbers ==
    /\ arrived \in 0 .. MaxUpdates /\ confirmed \in 0 .. arrived
    /\ lastUpdate \in 0 .. arrived
    /\ overlap \in BOOLEAN
    /\ inbox \subseteq 1 .. arrived
    /\ crashes \in Nat /\ fetched \in [Updates -> Nat]

\* Where an update may be that Telegram does not offer again.
Whereabouts == handled \cup inbox \cup dropped \cup (IF overlap THEN atCrash ELSE {})

(* What will be acknowledged by the next poll is in safe hands, too; and what *)
(* Worker has not processed has not been acknowledged.                        *)
InHands ==
    /\ \A u \in 1 .. Larger(confirmed, lastUpdate) : u \in Whereabouts
    /\ ~overlap => \A u \in inbox : confirmed < u

\* What this process has not polled has been polled by crashed processes only.
Counted == \A u \in Updates :
    fetched[u] <= crashes + (IF u <= lastUpdate THEN 1 ELSE 0)

PollInv == Numbers /\ InHands /\ Counted

(* The batch of a poll is what has arrived beyond both marks.                *)
LEMMA BatchIs ==
  ASSUME Numbers
  PROVE  /\ Batch = {u \in Updates : Larger(confirmed, lastUpdate) < u /\ u <= arrived}
         /\ Batch \subseteq 1 .. arrived
         /\ LastOf(Batch) = Larger(lastUpdate, IF Batch = {} THEN 0 ELSE arrived)
         /\ Batch = {} => arrived <= Larger(confirmed, lastUpdate)
         /\ Larger(confirmed, Offset - 1) = Larger(confirmed, lastUpdate)
<1>. USE ConstantsAssumption DEF Numbers, Updates, Larger
<1>1. Batch = {u \in Updates : Larger(confirmed, lastUpdate) < u /\ u <= arrived}
  BY DEF Batch, Offset
<1>2. Batch \subseteq 1 .. arrived
  BY <1>1
<1>3. Batch # {} => arrived \in Batch /\ \A v \in Batch : v <= arrived
  BY <1>1
<1>4. Batch # {} => Newest(Batch) = arrived
  <2> SUFFICES ASSUME Batch # {} PROVE Newest(Batch) = arrived
    OBVIOUS
  <2>1. Newest(Batch) \in Batch /\ \A v \in Batch : v <= Newest(Batch)
    BY <1>3 DEF Newest
  <2>2. arrived \in Int /\ Newest(Batch) \in 1 .. arrived
    <3>1. arrived \in Int
      OBVIOUS
    <3>2. \A v \in Batch : v \in 1 .. arrived
      BY <1>2
    <3>. QED  BY <2>1, <3>1, <3>2
  <2>3. arrived <= Newest(Batch)
    BY <1>3, <2>1
  <2>. QED  BY <2>2, <2>3
<1>5. LastOf(Batch) = Larger(lastUpdate, IF Batch = {} THEN 0 ELSE arrived)
  BY <1>4 DEF LastOf
<1>6. Batch = {} => arrived <= Larger(confirmed, lastUpdate)
  BY <1>1
<1>7. Larger(confirmed, Offset - 1) = Larger(confirmed, lastUpdate)
  BY DEF Offset
<1>. QED  BY <1>1, <1>2, <1>5, <1>6, <1>7

LEMMA PollInit == Init => PollInv
BY ConstantsAssumption DEF Init, PollInv, Numbers, InHands, Counted, Larger, Updates

(* A step that touches neither the offset nor the messages.                  *)
LEMMA OffsetUntouched ==
  ASSUME PollInv, UNCHANGED <<confirmed, lastUpdate, inbox, overlap, past>>,
         arrived' \in arrived .. MaxUpdates
  PROVE  PollInv'
<1>1. Numbers'
  BY ConstantsAssumption DEF PollInv, Numbers, past, Updates
<1>2. InHands' /\ Counted'
  BY DEF PollInv, InHands, Counted, Whereabouts, past, Larger
<1>. QED  BY <1>1, <1>2 DEF PollInv

LEMMA PollStep ==
  ASSUME PollInv, [Next]_vars
  PROVE  PollInv'
<1>. USE ConstantsAssumption
<1>0. /\ arrived \in Nat /\ arrived <= MaxUpdates /\ confirmed \in Nat /\ confirmed <= arrived
      /\ lastUpdate \in Nat /\ lastUpdate <= arrived
      /\ inbox \subseteq 1 .. arrived /\ crashes \in Nat /\ fetched \in [Updates -> Nat]
  BY DEF PollInv, Numbers
<1>1. CASE \/ Write \/ Answered \/ SendEnds \/ Start \/ UNCHANGED vars
           \/ \E a \in Answers : Send(a) \/ GrowOld(a)
  <2>1. UNCHANGED <<confirmed, lastUpdate, inbox, overlap, past>>
    BY <1>1 DEF Write, Answered, TelegramShows, TelegramRefuses, SendEnds, SendSucceeds,
       SendFails, SendRaises, Start, vars, Send, GrowOld, telegram, process, past
  <2>2. arrived' \in arrived .. MaxUpdates
    BY <1>0, <1>1 DEF Write, Answered, TelegramShows, TelegramRefuses, SendEnds,
       SendSucceeds, SendFails, SendRaises, Start, vars, Send, GrowOld, telegram
  <2>. QED  BY <2>1, <2>2, OffsetUntouched
<1>2. CASE Poll
  <2>1. /\ confirmed' = Larger(confirmed, lastUpdate) /\ inbox' = inbox \cup Batch
        /\ lastUpdate' = LastOf(Batch) /\ overlap' = overlap
        /\ arrived' = arrived /\ handled' = handled /\ dropped' = dropped
        /\ atCrash' = atCrash /\ crashes' = crashes
        /\ fetched' = [u \in Updates |-> IF u \in Batch THEN fetched[u] + 1 ELSE fetched[u]]
        /\ ~overlap => inbox = {}
    BY <1>2, BatchIs DEF Poll, Polling, Confirm, PollInv
  <2>2. Numbers'
    <3>1. Batch \subseteq 1 .. arrived
      BY BatchIs DEF PollInv
    <3>2. confirmed' \in 0 .. arrived /\ lastUpdate' \in 0 .. arrived
      BY <1>0, <2>1, BatchIs DEF PollInv, Larger
    <3>3. fetched' \in [Updates -> Nat]
      BY <1>0, <2>1
    <3>. QED  BY <2>1, <3>1, <3>2, <3>3 DEF Numbers, PollInv
  <2>3. InHands'
    <3>1. ASSUME NEW u \in 1 .. Larger(confirmed', lastUpdate')
          PROVE  u \in Whereabouts'
      <4>0. u \in Nat /\ 1 <= u /\ u <= arrived
        BY <1>0, <2>1, BatchIs DEF PollInv, Larger
      <4>1. u <= Larger(confirmed, lastUpdate) \/ u \in Batch
        <5>1. Batch = {v \in Updates : Larger(confirmed, lastUpdate) < v /\ v <= arrived}
          BY BatchIs DEF PollInv
        <5>2. u \in Updates /\ Larger(confirmed, lastUpdate) \in Nat
          BY <1>0, <4>0 DEF Updates, Larger
        <5>. QED  BY <4>0, <5>1, <5>2
      <4>. QED  BY <1>0, <2>1, <4>1 DEF PollInv, InHands, Whereabouts, Larger
    <3>2. ~overlap' => \A u \in inbox' : confirmed' < u
      BY <2>1, BatchIs DEF PollInv
    <3>. QED  BY <3>1, <3>2 DEF InHands
  <2>4. Counted'
    <3> SUFFICES ASSUME NEW u \in Updates
                 PROVE  fetched'[u] <= crashes + (IF u <= lastUpdate' THEN 1 ELSE 0)
      BY <2>1 DEF Counted
    <3>1. /\ fetched[u] \in Nat
          /\ fetched[u] <= crashes + (IF u <= lastUpdate THEN 1 ELSE 0)
      BY <1>0 DEF PollInv, Counted
    <3>2. CASE u \in Batch
      <4>1. lastUpdate < u /\ u <= lastUpdate' /\ fetched'[u] = fetched[u] + 1
        BY <1>0, <2>1, <3>2, BatchIs DEF PollInv, Larger
      <4>. QED  BY <1>0, <3>1, <4>1 DEF Updates
    <3>3. CASE u \notin Batch
      <4>1. lastUpdate <= lastUpdate' /\ lastUpdate' \in Nat /\ fetched'[u] = fetched[u]
        BY <1>0, <2>1, <3>3, BatchIs DEF PollInv, Larger
      <4>. QED  BY <1>0, <3>1, <4>1 DEF Updates
    <3>. QED  BY <3>2, <3>3
  <2>. QED  BY <2>2, <2>3, <2>4 DEF PollInv
<1>3. CASE PollLost
  <2>1. /\ confirmed' = Larger(confirmed, lastUpdate)
        /\ UNCHANGED <<arrived, lastUpdate, inbox, overlap, handled, dropped, atCrash,
                       crashes, fetched>>
        /\ ~overlap => inbox = {}
    BY <1>3, BatchIs DEF PollLost, Polling, Confirm, PollInv, process, past
  <2>2. Numbers'
    BY <1>0, <2>1 DEF Numbers, PollInv, Larger
  <2>3. InHands' /\ Counted'
    BY <1>0, <2>1 DEF PollInv, InHands, Counted, Whereabouts, Larger
  <2>. QED  BY <2>2, <2>3 DEF PollInv
<1>4. ASSUME NEW k \in Updates, PollBreaks(k) PROVE PollInv'
  <2>1. /\ confirmed' = Larger(confirmed, lastUpdate) /\ lastUpdate' = k /\ k \in Batch
        /\ dropped' = dropped \cup {v \in Batch : v <= k}
        /\ UNCHANGED <<arrived, inbox, overlap, handled, atCrash, crashes, fetched>>
        /\ ~overlap => inbox = {}
    BY <1>4, BatchIs DEF PollBreaks, Polling, Confirm, PollInv
  <2>2. k \in Nat /\ Larger(confirmed, lastUpdate) < k /\ k <= arrived
    BY <2>1, BatchIs DEF PollInv, Updates
  <2>3. Numbers'
    BY <1>0, <2>1, <2>2 DEF Numbers, PollInv, Larger
  <2>4. InHands'
    <3>1. ASSUME NEW u \in 1 .. Larger(confirmed', lastUpdate')
          PROVE  u \in Whereabouts'
      <4>0. u \in Nat /\ 1 <= u /\ u <= k
        BY <1>0, <2>1, <2>2 DEF Larger
      <4>1. u <= Larger(confirmed, lastUpdate) \/ (u \in Batch /\ u <= k)
        <5>1. Batch = {v \in Updates : Larger(confirmed, lastUpdate) < v /\ v <= arrived}
          BY BatchIs DEF PollInv
        <5>2. u \in Updates /\ u <= arrived /\ Larger(confirmed, lastUpdate) \in Nat
          BY <1>0, <2>2, <4>0 DEF Updates, Larger
        <5>. QED  BY <4>0, <5>1, <5>2
      <4>. QED  BY <1>0, <2>1, <4>1 DEF PollInv, InHands, Whereabouts, Larger
    <3>2. ~overlap' => \A u \in inbox' : confirmed' < u
      BY <2>1
    <3>. QED  BY <3>1, <3>2 DEF InHands
  <2>5. Counted'
    BY <1>0, <2>1, <2>2 DEF PollInv, Counted, Updates, Larger
  <2>. QED  BY <2>3, <2>4, <2>5 DEF PollInv
<1>5. ASSUME NEW k \in Updates, Finish(k) PROVE PollInv'
  <2>1. /\ inbox' = inbox \ {k} /\ handled' = handled \cup {k}
        /\ UNCHANGED <<arrived, confirmed, lastUpdate, overlap, dropped, atCrash,
                       crashes, fetched>>
    BY <1>5 DEF Finish, telegram
  <2>. QED
    BY <2>1 DEF PollInv, Numbers, InHands, Counted, Whereabouts, Larger
<1>6. CASE RoundBreaks
  <2>1. /\ inbox' = {} /\ dropped' = dropped \cup inbox
        /\ UNCHANGED <<arrived, confirmed, lastUpdate, overlap, handled, atCrash,
                       crashes, fetched>>
    BY <1>6 DEF RoundBreaks, telegram
  <2>. QED
    BY <2>1 DEF PollInv, Numbers, InHands, Counted, Whereabouts, Larger
<1>7. CASE Crash
  <2>1. /\ inbox' = {} /\ lastUpdate' = 0 /\ crashes' = crashes + 1
        /\ atCrash' = atCrash \cup inbox
        /\ UNCHANGED <<arrived, confirmed, overlap, handled, dropped, fetched>>
    BY <1>7 DEF Crash
  <2>2. Numbers'
    BY <1>0, <2>1 DEF Numbers, PollInv
  <2>3. InHands'
    <3> SUFFICES ASSUME NEW u \in 1 .. confirmed PROVE u \in Whereabouts'
      BY <1>0, <2>1 DEF InHands, Larger
    <3>1. u \in Whereabouts
      BY <1>0 DEF PollInv, InHands, Larger
    <3>2. ~overlap => u \notin inbox
      BY <1>0 DEF PollInv, InHands
    <3>. QED  BY <2>1, <3>1, <3>2 DEF Whereabouts
  <2>4. Counted'
    BY <1>0, <2>1 DEF PollInv, Counted, Updates
  <2>. QED  BY <2>2, <2>3, <2>4 DEF PollInv
<1>. QED  BY <1>1, <1>2, <1>3, <1>4, <1>5, <1>6, <1>7 DEF Next

(* Telegram forgets no message but those that were processed, are in hand,   *)
(* or went with a broken poll or round or, with AsyncWorker, with a crash.   *)
THEOREM NothingForgotten == Spec => []ForgottenHasCause
<1>1. PollInv /\ [Next]_vars => PollInv'
  BY PollStep
<1>2. PollInv => ForgottenHasCause
  BY DEF PollInv, Numbers, InHands, ForgottenHasCause, Whereabouts, Larger
<1>. QED  BY PollInit, <1>1, <1>2, PTL DEF Spec

(* No message reaches the worker more often than it has crashed, and once.   *)
THEOREM RepeatsAreCounted == Spec => []RepeatNeedsCrash
<1>1. PollInv /\ [Next]_vars => PollInv'
  BY PollStep
<1>2. PollInv => RepeatNeedsCrash
  <2> SUFFICES ASSUME PollInv, NEW u \in Updates PROVE fetched[u] <= crashes + 1
    BY DEF RepeatNeedsCrash
  <2>1. fetched[u] \in Nat /\ crashes \in Nat
    BY DEF PollInv, Numbers
  <2>. QED  BY <2>1 DEF PollInv, Counted
<1>. QED  BY PollInit, <1>1, <1>2, PTL DEF Spec

-----------------------------------------------------------------------------
(* The rest of the types: the history and whether there is a process.        *)
PastOK ==
    /\ up \in BOOLEAN
    /\ handled \subseteq Updates /\ dropped \subseteq Updates /\ atCrash \subseteq Updates
    /\ crashes \in 0 .. MaxCrashes

LEMMA PastStep ==
  ASSUME PastOK, Numbers, [Next]_vars
  PROVE  PastOK'
<1>1. inbox \subseteq Updates
  BY ConstantsAssumption DEF Numbers, Updates
<1>2. CASE \/ Write \/ Poll \/ PollLost \/ Answered \/ SendEnds \/ UNCHANGED vars
           \/ \E a \in Answers : Send(a) \/ GrowOld(a)
  BY <1>2 DEF PastOK, Write, Poll, PollLost, Answered, TelegramShows, TelegramRefuses,
     SendEnds, SendSucceeds, SendFails, SendRaises, vars, Send, GrowOld, process, past
<1>3. CASE Crash
  <2>1. /\ up' = FALSE /\ handled' = handled /\ dropped' = dropped
        /\ atCrash' = atCrash \cup inbox /\ crashes' = crashes + 1 /\ crashes < MaxCrashes
    BY <1>3 DEF Crash
  <2>2. crashes' \in 0 .. MaxCrashes
    BY <2>1, ConstantsAssumption DEF PastOK
  <2>3. handled' \subseteq Updates /\ dropped' \subseteq Updates /\ atCrash' \subseteq Updates
    BY <1>1, <2>1 DEF PastOK
  <2>4. up' \in BOOLEAN
    BY <2>1
  <2>. QED  BY <2>2, <2>3, <2>4 DEF PastOK
<1>4. CASE Start
  <2>1. up' = TRUE /\ past' = past
    BY <1>4 DEF Start
  <2>. QED  BY <2>1 DEF PastOK, past
<1>5. CASE RoundBreaks \/ \E u \in Updates : PollBreaks(u) \/ Finish(u)
  BY <1>1, <1>5 DEF PastOK, RoundBreaks, PollBreaks, Finish, Batch
<1>. QED  BY <1>2, <1>3, <1>4, <1>5 DEF Next

(* Every variable keeps its type.                                            *)
THEOREM TypeCorrect == Spec => []TypeOK
<1> DEFINE Inv == LedgerInv /\ PollInv /\ PastOK
<1>1. Init => Inv
  <2>1. Init => PastOK
    BY ConstantsAssumption DEF Init, PastOK
  <2>. QED  BY <2>1, LedgerInit, PollInit
<1>2. Inv /\ [Next]_vars => Inv'
  BY LedgerStep, PollStep, PastStep DEF PollInv
<1>3. ASSUME Inv PROVE TypeOK
  <2>1. Numbers /\ PastOK
    BY <1>3 DEF PollInv
  <2>2. rows \in [Answers -> Row] /\ request \in Requests /\ answer \in Answers /\ seen \subseteq Answers
    BY <1>3 DEF LedgerInv, Ledger, AtTelegram
  <2>. QED  BY <2>1, <2>2 DEF Numbers, PastOK, TypeOK
<1>. QED  BY <1>1, <1>2, <1>3, PTL DEF Spec

-----------------------------------------------------------------------------
(***************************************************************************)
(* Lists.  Without is a recursive function, so that what it leaves is shown *)
(* by induction on the length, with the set of the lengths for which it      *)
(* holds in place of a predicate.                                            *)
(***************************************************************************)

\* A set of naturals with 0 and with the successors of its elements is all of them.
LEMMA SetInduction ==
    ASSUME NEW S, S \subseteq Nat, 0 \in S, \A n \in S : n + 1 \in S
    PROVE  S = Nat
<1> DEFINE Out == Nat \ S
<1>1. SUFFICES ASSUME Out # {} PROVE FALSE
  OBVIOUS
<1>2. Out \subseteq Nat
  OBVIOUS
<1>3. \E x \in Out : \A y \in Out : ~(<<y, x>> \in OpToRel(<, Nat))
  <2> HIDE DEF Out
  <2> QED
    BY NatLessThanWellFounded, <1>1, <1>2, WFMin, Zenon
<1>4. \E x \in Out : \A y \in Out : ~(y < x)
  BY <1>3, Zenon DEF OpToRel
<1>5. PICK x \in Out : \A y \in Out : ~(y < x)
  BY <1>4, Zenon
<1>6. x \in Nat /\ x # 0
  BY <1>5
<1>7. x - 1 \in S
  BY <1>5, <1>6
<1> QED
  BY <1>5, <1>6, <1>7

\* The recursion of Without, up to n.
KeptUpTo(f, q, out, n) ==
    f = [i \in 0 .. n |-> IF i = 0 THEN <<>>
                          ELSE IF q[i] \in out THEN f[i - 1]
                          ELSE Append(f[i - 1], q[i])]

LEMMA KeptExists ==
    ASSUME NEW q, NEW out, NEW n \in Nat
    PROVE  \E f : KeptUpTo(f, q, out, n)
<1> DEFINE S == {k \in Nat : \E f : KeptUpTo(f, q, out, k)}
<1>1. 0 \in S
  <2>1. KeptUpTo([i \in 0 .. 0 |-> <<>>], q, out, 0)
    BY DEF KeptUpTo
  <2> QED
    BY <2>1
<1>2. ASSUME NEW k \in S PROVE k + 1 \in S
  <2>1. PICK f : KeptUpTo(f, q, out, k)
    BY <1>2
  <2>2. PICK g : g = [i \in 0 .. (k + 1) |->
                        IF i = k + 1 THEN IF q[i] \in out THEN f[i - 1]
                                          ELSE Append(f[i - 1], q[i])
                                     ELSE f[i]]
    OBVIOUS
  <2>3. \A i \in 0 .. k : f[i] = IF i = 0 THEN <<>> ELSE IF q[i] \in out THEN f[i - 1]
                                 ELSE Append(f[i - 1], q[i])
    BY <2>1 DEF KeptUpTo
  <2>4. \A i \in 0 .. k : g[i] = f[i]
    BY <2>2
  <2>5. \A i \in 0 .. (k + 1) : g[i] = IF i = 0 THEN <<>> ELSE IF q[i] \in out THEN g[i - 1]
                                       ELSE Append(g[i - 1], q[i])
    BY <2>2, <2>3, <2>4
  <2>6. KeptUpTo(g, q, out, k + 1)
    BY <2>2, <2>5 DEF KeptUpTo
  <2> QED
    BY <2>6
<1>3. S = Nat
  <2>1. S \subseteq Nat
    OBVIOUS
  <2> HIDE DEF S
  <2> QED
    BY <1>1, <1>2, <2>1, SetInduction, Zenon
<1> QED
  BY <1>3

\* w is what is left of the first n elements of q: none of them stands further
\* back than before, and the last is the last if it is left at all.
LeftOf(w, q, out, n) ==
    /\ Len(w) <= n
    /\ \A k \in 1 .. Len(w) : \E j \in k .. n : w[k] = q[j] /\ q[j] \notin out
    /\ \A j \in 1 .. n : q[j] \notin out => \E k \in 1 .. Len(w) : w[k] = q[j]
    /\ n > 0 /\ q[n] \notin out => Len(w) > 0 /\ w[Len(w)] = q[n]

LEMMA LeftOfNext ==
    ASSUME NEW S, NEW q \in Seq(S), NEW out, NEW n \in Nat, n + 1 <= Len(q),
           NEW w \in Seq(S), LeftOf(w, q, out, n),
           NEW v, v = IF q[n + 1] \in out THEN w ELSE Append(w, q[n + 1])
    PROVE  v \in Seq(S) /\ LeftOf(v, q, out, n + 1)
<1>1. q[n + 1] \in S /\ Len(w) \in Nat
  OBVIOUS
<1>2. CASE q[n + 1] \in out
  <2>1. v = w
    BY <1>2
  <2>2. \A k \in 1 .. Len(w) : \E j \in k .. (n + 1) : w[k] = q[j] /\ q[j] \notin out
    <3>1. TAKE k \in 1 .. Len(w)
    <3>2. PICK j \in k .. n : w[k] = q[j] /\ q[j] \notin out
      BY <1>1 DEF LeftOf
    <3>3. j \in k .. (n + 1)
      BY <1>1, <3>2
    <3> QED
      BY <3>2, <3>3
  <2>3. \A j \in 1 .. (n + 1) : q[j] \notin out => \E k \in 1 .. Len(w) : w[k] = q[j]
    <3>1. TAKE j \in 1 .. (n + 1)
    <3>2. CASE j = n + 1
      BY <1>2, <3>2
    <3>3. CASE j # n + 1
      <4>1. j \in 1 .. n
        BY <3>3
      <4> QED
        BY <4>1 DEF LeftOf
    <3> QED
      BY <3>2, <3>3
  <2>4. Len(w) <= n + 1
    BY <1>1 DEF LeftOf
  <2> QED
    BY <1>2, <2>1, <2>2, <2>3, <2>4 DEF LeftOf
<1>3. CASE q[n + 1] \notin out
  <2>1. /\ v = Append(w, q[n + 1]) /\ v \in Seq(S) /\ Len(v) = Len(w) + 1
        /\ v[Len(v)] = q[n + 1]
        /\ \A k \in 1 .. Len(w) : v[k] = w[k]
    BY <1>1, <1>3
  <2>2. Len(w) <= n
    BY DEF LeftOf
  <2>3. \A k \in 1 .. Len(v) : \E j \in k .. (n + 1) : v[k] = q[j] /\ q[j] \notin out
    <3>1. TAKE k \in 1 .. Len(v)
    <3>2. CASE k = Len(v)
      <4>1. n + 1 \in k .. (n + 1)
        BY <1>1, <2>1, <2>2, <3>2
      <4> QED
        BY <1>3, <2>1, <3>2, <4>1
    <3>3. CASE k # Len(v)
      <4>1. k \in 1 .. Len(w)
        BY <1>1, <2>1, <3>3
      <4>2. PICK j \in k .. n : w[k] = q[j] /\ q[j] \notin out
        BY <4>1 DEF LeftOf
      <4>3. j \in k .. (n + 1)
        BY <4>1, <4>2
      <4> QED
        BY <2>1, <4>1, <4>2, <4>3
    <3> QED
      BY <3>2, <3>3
  <2>4. \A j \in 1 .. (n + 1) : q[j] \notin out => \E k \in 1 .. Len(v) : v[k] = q[j]
    <3>1. TAKE j \in 1 .. (n + 1)
    <3>2. CASE j = n + 1
      <4>1. Len(v) \in 1 .. Len(v)
        BY <1>1, <2>1
      <4> QED
        BY <2>1, <3>2, <4>1
    <3>3. CASE j # n + 1 /\ q[j] \notin out
      <4>1. j \in 1 .. n
        BY <3>3
      <4>2. PICK k \in 1 .. Len(w) : w[k] = q[j]
        BY <3>3, <4>1 DEF LeftOf
      <4>3. k \in 1 .. Len(v)
        BY <1>1, <2>1, <4>2
      <4> QED
        BY <2>1, <4>2, <4>3
    <3> QED
      BY <3>2, <3>3
  <2>5. Len(v) <= n + 1 /\ Len(v) > 0
    BY <1>1, <2>1, <2>2
  <2> QED
    BY <2>1, <2>3, <2>4, <2>5 DEF LeftOf
<1> QED
  BY <1>2, <1>3

LEMMA WithoutIs ==
    ASSUME NEW S, NEW q \in Seq(S), NEW out
    PROVE  Without(q, out) \in Seq(S) /\ LeftOf(Without(q, out), q, out, Len(q))
<1> DEFINE f == CHOOSE g : g = [i \in 0 .. Len(q) |->
                    IF i = 0 THEN <<>> ELSE IF q[i] \in out THEN g[i - 1]
                    ELSE Append(g[i - 1], q[i])]
<1>1. Without(q, out) = f[Len(q)]
  BY Zenon DEF Without
<1>2. KeptUpTo(f, q, out, Len(q))
  <2>1. Len(q) \in Nat
    OBVIOUS
  <2>2. \E g : KeptUpTo(g, q, out, Len(q))
    BY <2>1, KeptExists, Zenon
  <2> QED
    BY <2>2, Zenon DEF KeptUpTo
<1> HIDE DEF f
<1>3. /\ Len(q) \in Nat /\ f[0] = <<>>
      /\ \A n \in 0 .. Len(q) : n # 0 =>
            f[n] = IF q[n] \in out THEN f[n - 1] ELSE Append(f[n - 1], q[n])
  <2>1. Len(q) \in Nat
    OBVIOUS
  <2>2. \A n \in 0 .. Len(q) :
            f[n] = IF n = 0 THEN <<>> ELSE IF q[n] \in out THEN f[n - 1]
                   ELSE Append(f[n - 1], q[n])
    BY <1>2, Zenon DEF KeptUpTo
  <2> QED
    BY <2>1, <2>2
<1> DEFINE G == {n \in Nat : n <= Len(q) => f[n] \in Seq(S) /\ LeftOf(f[n], q, out, n)}
<1>4. 0 \in G
  <2>1. <<>> \in Seq(S) /\ Len(<<>>) = 0
    OBVIOUS
  <2>2. LeftOf(<<>>, q, out, 0)
    BY <2>1 DEF LeftOf
  <2> QED
    BY <1>3, <2>1, <2>2
<1>5. ASSUME NEW n \in G PROVE n + 1 \in G
  <2>1. SUFFICES ASSUME n + 1 <= Len(q)
                 PROVE  f[n + 1] \in Seq(S) /\ LeftOf(f[n + 1], q, out, n + 1)
    OBVIOUS
  <2>2. n \in Nat /\ n <= Len(q) /\ n + 1 \in 0 .. Len(q) /\ n + 1 # 0 /\ (n + 1) - 1 = n
    BY <1>3, <2>1
  <2>3. f[n] \in Seq(S) /\ LeftOf(f[n], q, out, n)
    BY <2>2
  <2>4. f[n + 1] = IF q[n + 1] \in out THEN f[n] ELSE Append(f[n], q[n + 1])
    BY <1>3, <2>2
  <2> QED
    BY <2>1, <2>2, <2>3, <2>4, LeftOfNext
<1>6. G = Nat
  <2>1. G \subseteq Nat
    OBVIOUS
  <2> HIDE DEF G
  <2> QED
    BY <1>4, <1>5, <2>1, SetInduction, Zenon
<1>7. Len(q) \in G
  <2> HIDE DEF G
  <2> QED
    BY <1>3, <1>6
<1> QED
  BY <1>1, <1>3, <1>7

LEMMA LatestIs ==
    ASSUME NEW S, NEW q \in Seq(S), NEW n \in Nat \ {0}
    PROVE  /\ Latest(q, n) \in Seq(S)
           /\ Len(Latest(q, n)) <= n
           /\ \A k \in 1 .. Len(Latest(q, n)) : \E j \in k .. Len(q) : Latest(q, n)[k] = q[j]
           /\ Len(q) > 0 => /\ Len(Latest(q, n)) > 0
                            /\ Latest(q, n)[Len(Latest(q, n))] = q[Len(q)]
<1>1. CASE Len(q) <= n
  <2>1. Latest(q, n) = q
    BY <1>1 DEF Latest
  <2> QED
    BY <1>1, <2>1
<1>2. CASE ~(Len(q) <= n)
  <2> DEFINE a == Len(q) - n
  <2>1. a \in Nat /\ a + n = Len(q) /\ a + 1 \in 1 .. Len(q)
    BY <1>2
  <2>2. Latest(q, n) = SubSeq(q, a + 1, Len(q))
    BY <1>2 DEF Latest
  <2>3. PICK l : l = Latest(q, n)
    OBVIOUS
  <2> HIDE DEF a
  <2>4. l \in Seq(S) /\ Len(l) = n /\ \A k \in 1 .. n : l[k] = q[a + k]
    BY <2>1, <2>2, <2>3
  <2>5. \A k \in 1 .. n : a + k \in k .. Len(q)
    BY <2>1
  <2>6. \A k \in 1 .. Len(l) : \E j \in k .. Len(q) : l[k] = q[j]
    BY <2>4, <2>5
  <2>7. Len(l) > 0 /\ l[Len(l)] = q[Len(q)]
    BY <2>1, <2>4
  <2> QED
    BY <2>3, <2>4, <2>6, <2>7
<1> QED
  BY <1>1, <1>2

-----------------------------------------------------------------------------
(***************************************************************************)
(* The history.  A session holds the messages of its list and of the list   *)
(* of its turn.  What holds it together is that the messages a session has   *)
(* not stored yet are its own: neither stored nor held by another session,   *)
(* since those only come to hold what was read back from the store.  The     *)
(* cleanup moves messages towards the front, so that what stands behind the  *)
(* counter stood behind it before.                                           *)
(***************************************************************************)
IsTurn(s, t) == /\ t \in Turns /\ asked[t].session = s
                /\ \A u \in Turns : asked[u].session = s => u <= t
Question(s) == Said("user", Turn(s))

Held(s) == Elements(memory[s]) \cup Elements(context[s])
Stored  == UNION {Elements(chatRows[c]) : c \in Chats}

Private(s, m) ==
    m # System /\ m \notin Stored /\ \A r \in Sessions \ {s} : m \notin Held(r)

Past == \A m \in Stored \cup UNION {Held(s) : s \in Sessions} : m.turn <= Len(asked)

AtTurn(s) ==
    Busy(s) => /\ IsTurn(s, Turn(s))
               /\ context[s][1] = System
               /\ Question(s) \in Elements(context[s])
               /\ Len(context[s]) <= 1 + Keep + 2 * rounds[s]

\* Nobody else has a message of the turn in progress, nor has the list of the
\* session, but for the question.
OwnTurn(s) ==
    Busy(s) => \A m \in Message : m.turn = Turn(s) =>
                  /\ Private(s, m)
                  /\ m \in Elements(memory[s]) => m = Question(s)

Counter(s) == saved[s] <= Len(memory[s]) /\ Len(memory[s]) # 1

BehindCounter(s) ==
    saved[s] > 0 =>
        /\ \A i \in saved[s] + 1 .. Len(memory[s]) : Private(s, memory[s][i])
        /\ \A i \in saved[s] + 1 .. Len(context[s]) : Private(s, context[s][i])

\* A turn goes on from the list of the session, which ends with the question.
GoesOn(s) ==
    Busy(s) /\ saved[s] > 0 =>
        /\ saved[s] < Len(memory[s])
        /\ memory[s][Len(memory[s])] = Question(s)
        /\ \A i \in 1 .. Len(Trim(memory[s])) :
              i \in 1 .. Len(context[s]) /\ context[s][i] = Trim(memory[s])[i]

SessionOK(s) == AtTurn(s) /\ OwnTurn(s) /\ Counter(s) /\ BehindCounter(s) /\ GoesOn(s)

HistoryInv == HistoryTypeOK /\ Past /\ \A s \in Sessions : SessionOK(s)

-----------------------------------------------------------------------------
LEMMA LimitsArePositive ==
    /\ Keep \in Nat \ {0} /\ LoadLimit \in Nat \ {0} /\ MaxActive \in Nat \ {0}
    /\ MaxRounds \in Nat /\ MaxTurns \in Nat
BY HistoryAssumption

LEMMA Saying ==
    ASSUME NEW role \in Roles, NEW t \in 0 .. MaxTurns
    PROVE  /\ Said(role, t) \in Message
           /\ Said(role, t).turn = t /\ Said(role, t).role = role
BY DEF Said, Message, Of

LEMMA SystemIs == System \in Message /\ System.turn = 0 /\ System = Said("system", 0)
BY LimitsArePositive DEF System, Said, Message, Of, Roles

LEMMA MessageIs ==
    ASSUME NEW m \in Message
    PROVE  m.turn \in 0 .. MaxTurns /\ m.role \in Roles
BY DEF Message, Of

LEMMA ElementsOf ==
    ASSUME NEW S, NEW q \in Seq(S)
    PROVE  /\ Elements(q) \subseteq S
           /\ \A x : x \in Elements(q) <=> \E i \in 1 .. Len(q) : x = q[i]
BY DEF Elements

LEMMA Lengths ==
    ASSUME NEW S, NEW q \in Seq(S)
    PROVE  /\ Len(q) \in Nat
           /\ q = <<>> <=> Len(q) = 0
           /\ q # <<>> /\ Len(q) # 1 => Len(q) >= 2
           /\ Len(q) >= 2 => 0 <= Len(q) /\ Len(q) # 1
<1>1. Len(q) \in Nat /\ (q = <<>> <=> Len(q) = 0)
  OBVIOUS
<1>2. PICK n \in Nat : n = Len(q)
  BY <1>1
<1>3. /\ n # 0 /\ n # 1 => n >= 2
      /\ n >= 2 => 0 <= n /\ n # 1
  OBVIOUS
<1> QED
  BY <1>1, <1>2, <1>3, Zenon

LEMMA OneElement ==
    ASSUME NEW S, NEW e \in S
    PROVE  <<e>> \in Seq(S) /\ Len(<<e>>) = 1 /\ <<e>>[1] = e /\ Elements(<<e>>) = {e}
<1>1. <<e>> \in Seq(S) /\ Len(<<e>>) = 1 /\ <<e>>[1] = e
  OBVIOUS
<1>2. PICK q \in Seq(S) : q = <<e>>
  BY <1>1
<1>3. \A x : x \in Elements(q) <=> \E i \in 1 .. 1 : x = q[i]
  BY <1>1, <1>2, ElementsOf
<1>4. Elements(q) = {e}
  BY <1>1, <1>2, <1>3
<1> QED
  BY <1>1, <1>2, <1>4

LEMMA Joined ==
    ASSUME NEW S, NEW q \in Seq(S), NEW p \in Seq(S)
    PROVE  /\ q \o p \in Seq(S) /\ Len(q \o p) = Len(q) + Len(p)
           /\ \A i \in 1 .. Len(q) : (q \o p)[i] = q[i]
           /\ \A i \in 1 .. Len(p) : (q \o p)[Len(q) + i] = p[i]
           /\ Elements(q \o p) = Elements(q) \cup Elements(p)
<1> DEFINE l == q \o p
<1>1. /\ l \in Seq(S) /\ Len(l) = Len(q) + Len(p) /\ Len(q) \in Nat /\ Len(p) \in Nat
      /\ \A i \in 1 .. Len(q) : l[i] = q[i]
      /\ \A i \in 1 .. Len(p) : l[Len(q) + i] = p[i]
  OBVIOUS
<1> HIDE DEF l
<1>2. \A x \in Elements(l) : x \in Elements(q) \cup Elements(p)
  <2>1. TAKE x \in Elements(l)
  <2>2. PICK i \in 1 .. Len(l) : x = l[i]
    BY <1>1, ElementsOf
  <2>3. CASE i \in 1 .. Len(q)
    BY <1>1, <2>2, <2>3, ElementsOf
  <2>4. CASE i \notin 1 .. Len(q)
    <3>1. i - Len(q) \in 1 .. Len(p) /\ Len(q) + (i - Len(q)) = i
      BY <1>1, <2>2, <2>4
    <3>2. x = p[i - Len(q)]
      BY <1>1, <2>2, <3>1
    <3> QED
      BY <3>1, <3>2, ElementsOf
  <2> QED
    BY <2>3, <2>4
<1>3. \A x \in Elements(q) : x \in Elements(l)
  <2>1. TAKE x \in Elements(q)
  <2>2. PICK i \in 1 .. Len(q) : x = q[i]
    BY ElementsOf
  <2>3. i \in 1 .. Len(l) /\ x = l[i]
    BY <1>1, <2>2
  <2> QED
    BY <1>1, <2>3, ElementsOf
<1>4. \A x \in Elements(p) : x \in Elements(l)
  <2>1. TAKE x \in Elements(p)
  <2>2. PICK i \in 1 .. Len(p) : x = p[i]
    BY ElementsOf
  <2>3. Len(q) + i \in 1 .. Len(l) /\ x = l[Len(q) + i]
    BY <1>1, <2>2
  <2> QED
    BY <1>1, <2>3, ElementsOf
<1>5. Elements(l) = Elements(q) \cup Elements(p)
  BY <1>2, <1>3, <1>4
<1> QED
  BY <1>1, <1>5 DEF l

LEMMA WithoutElements ==
    ASSUME NEW S, NEW q \in Seq(S), NEW out
    PROVE  Elements(Without(q, out)) = Elements(q) \ out
<1> DEFINE w == Without(q, out)
<1>1. w \in Seq(S) /\ LeftOf(w, q, out, Len(q))
  BY WithoutIs
<1> HIDE DEF w
<1>2. \A x \in Elements(w) : x \in Elements(q) \ out
  <2>1. TAKE x \in Elements(w)
  <2>2. PICK k \in 1 .. Len(w) : x = w[k]
    BY <1>1, ElementsOf
  <2>3. PICK j \in k .. Len(q) : w[k] = q[j] /\ q[j] \notin out
    BY <1>1 DEF LeftOf
  <2>4. j \in 1 .. Len(q)
    OBVIOUS
  <2> QED
    BY <2>2, <2>3, <2>4, ElementsOf
<1>3. \A x \in Elements(q) \ out : x \in Elements(w)
  <2>1. TAKE x \in Elements(q) \ out
  <2>2. PICK j \in 1 .. Len(q) : x = q[j]
    BY ElementsOf
  <2>3. PICK k \in 1 .. Len(w) : w[k] = q[j]
    BY <1>1, <2>2 DEF LeftOf
  <2> QED
    BY <1>1, <2>2, <2>3, ElementsOf
<1> QED
  BY <1>2, <1>3 DEF w

LEMMA LatestElements ==
    ASSUME NEW S, NEW q \in Seq(S), NEW n \in Nat \ {0}
    PROVE  Elements(Latest(q, n)) \subseteq Elements(q)
<1> DEFINE l == Latest(q, n)
<1>1. l \in Seq(S) /\ \A k \in 1 .. Len(l) : \E j \in k .. Len(q) : l[k] = q[j]
  BY LatestIs
<1> HIDE DEF l
<1>2. ASSUME NEW x \in Elements(l) PROVE x \in Elements(q)
  <2>1. PICK k \in 1 .. Len(l) : x = l[k]
    BY <1>1, ElementsOf
  <2>2. PICK j \in k .. Len(q) : l[k] = q[j]
    BY <1>1
  <2>3. j \in 1 .. Len(q)
    OBVIOUS
  <2> QED
    BY <2>1, <2>2, <2>3, ElementsOf
<1> QED
  BY <1>2 DEF l

\* The cleanup leaves the system prompt and moves the rest towards the front.
LEMMA TrimIs ==
    ASSUME NEW q \in Seq(Message), Len(q) >= 2
    PROVE  /\ Trim(q) \in Seq(Message)
           /\ Len(Trim(q)) <= 1 + Keep /\ Len(Trim(q)) >= 1
           /\ Trim(q)[1] = System
           /\ \A k \in 2 .. Len(Trim(q)) : \E j \in k .. Len(q) : Trim(q)[k] = q[j]
           /\ q[Len(q)].role = "user" =>
                 Len(Trim(q)) >= 2 /\ Trim(q)[Len(Trim(q))] = q[Len(q)]
<1> DEFINE w == Without(Tail(q), Of({"fenced"}))
           l == Latest(w, Keep)
<1>1. PICK p \in Seq(Message) :
         p = Tail(q) /\ Len(p) = Len(q) - 1 /\ \A i \in 1 .. Len(p) : p[i] = q[i + 1]
  <2>1. q # <<>>
    OBVIOUS
  <2>2. Tail(q) \in Seq(Message) /\ Len(Tail(q)) = Len(q) - 1
    BY <2>1
  <2>3. \A i \in 1 .. Len(Tail(q)) : Tail(q)[i] = q[i + 1]
    BY <2>1, <2>2
  <2> QED
    BY <2>2, <2>3
<1>2. w \in Seq(Message) /\ LeftOf(w, p, Of({"fenced"}), Len(p))
  BY <1>1, WithoutIs
<1> HIDE DEF w
<1>3. /\ l \in Seq(Message) /\ Len(l) <= Keep
      /\ \A k \in 1 .. Len(l) : \E j \in k .. Len(w) : l[k] = w[j]
      /\ Len(w) > 0 => Len(l) > 0 /\ l[Len(l)] = w[Len(w)]
  BY <1>2, LatestIs, LimitsArePositive
<1> HIDE DEF l
<1>4. /\ Len(l) \in Nat /\ Len(w) \in Nat /\ Len(p) \in Nat /\ Len(q) \in Nat
      /\ Len(q) = Len(p) + 1
  BY <1>1, <1>2, <1>3
<1>5. PICK t : t = Trim(q)
  OBVIOUS
<1>6. t = <<System>> \o l
  BY <1>5 DEF Trim, w, l
<1>7. /\ t \in Seq(Message) /\ Len(t) = 1 + Len(l) /\ t[1] = System
      /\ \A k \in 2 .. Len(t) : t[k] = l[k - 1]
  BY <1>3, <1>6, SystemIs
<1>8. ASSUME NEW k \in 2 .. Len(t) PROVE \E j \in k .. Len(q) : t[k] = q[j]
  <2>1. k - 1 \in 1 .. Len(l) /\ t[k] = l[k - 1]
    BY <1>4, <1>7
  <2>2. PICK i \in (k - 1) .. Len(w) : l[k - 1] = w[i]
    BY <1>3, <2>1
  <2>3. i \in 1 .. Len(w)
    BY <2>1, <2>2
  <2>4. PICK h \in i .. Len(p) : w[i] = p[h]
    BY <1>2, <2>3 DEF LeftOf
  <2>5. h \in 1 .. Len(p) /\ h + 1 \in k .. Len(q)
    BY <1>4, <2>2, <2>3, <2>4
  <2>6. t[k] = q[h + 1]
    BY <1>1, <2>1, <2>2, <2>4, <2>5
  <2> QED
    BY <2>5, <2>6
<1>9. ASSUME q[Len(q)].role = "user" PROVE Len(t) >= 2 /\ t[Len(t)] = q[Len(q)]
  <2>1. Len(p) \in 1 .. Len(p) /\ p[Len(p)] = q[Len(q)]
    BY <1>1, <1>4
  <2>2. p[Len(p)] \notin Of({"fenced"})
    BY <1>9, <2>1 DEF Of
  <2>3. Len(w) > 0 /\ w[Len(w)] = p[Len(p)]
    BY <1>2, <2>1, <2>2 DEF LeftOf
  <2>4. Len(l) > 0 /\ l[Len(l)] = w[Len(w)]
    BY <1>3, <2>3
  <2>5. Len(t) \in 2 .. Len(t) /\ Len(t) - 1 = Len(l)
    BY <1>4, <1>7, <2>4
  <2> QED
    BY <1>7, <2>1, <2>3, <2>4, <2>5
<1>10. Len(t) <= 1 + Keep /\ Len(t) >= 1
  BY <1>3, <1>4, <1>7, LimitsArePositive
<1> QED
  BY <1>5, <1>7, <1>8, <1>9, <1>10

-----------------------------------------------------------------------------
(* Turns *)

LEMMA TurnIs ==
    ASSUME NEW s, NEW t, asked \in Seq([session : Sessions, chat : Chats]), IsTurn(s, t)
    PROVE  Turn(s) = t
<1>1. t \in Turns /\ asked[t].session = s /\ \A u \in Turns : asked[u].session = s => u <= t
  BY DEF IsTurn
<1>2. Turns \subseteq Nat
  BY DEF Turns
<1>3. \E u \in Turns : asked[u].session = s /\ \A v \in Turns : asked[v].session = s => v <= u
  BY <1>1
<1> DEFINE c == Turn(s)
<1>4. c \in Turns /\ asked[c].session = s /\ \A v \in Turns : asked[v].session = s => v <= c
  BY <1>3, Zenon DEF Turn
<1> HIDE DEF c
<1>5. c <= t /\ t <= c
  BY <1>1, <1>4
<1>6. c \in Nat /\ t \in Nat
  BY <1>1, <1>2, <1>4
<1>7. c = t
  BY <1>5, <1>6
<1> QED
  BY <1>7 DEF c

\* A turn in progress: its number, its chat.
LEMMA AtWork ==
    ASSUME HistoryInv, NEW s \in Sessions, Busy(s)
    PROVE  /\ IsTurn(s, Turn(s)) /\ Turn(s) \in 1 .. Len(asked) /\ Turn(s) \in 1 .. MaxTurns
           /\ Turn(s) # 0 /\ Chat(s) \in Chats
<1>1. IsTurn(s, Turn(s))
  BY DEF HistoryInv, SessionOK, AtTurn
<1>2. asked \in Seq([session : Sessions, chat : Chats]) /\ Len(asked) <= MaxTurns
  BY DEF HistoryInv, HistoryTypeOK
<1>3. Turn(s) \in 1 .. Len(asked)
  BY <1>1, <1>2 DEF IsTurn, Turns
<1>4. Chat(s) \in Chats
  <2>1. PICK t \in 1 .. Len(asked) : t = Turn(s)
    BY <1>3
  <2>2. asked[t].chat \in Chats
    <3>1. PICK R : R = [session : Sessions, chat : Chats]
      OBVIOUS
    <3>2. asked \in Seq(R)
      BY <1>2, <3>1
    <3>3. asked[t] \in R
      BY <3>2
    <3> QED
      BY <3>1, <3>3
  <2>3. Chat(s) = asked[t].chat
    BY <2>1, Zenon DEF Chat
  <2> QED
    BY <2>2, <2>3
<1> QED
  BY <1>1, <1>2, <1>3, <1>4, LimitsArePositive

LEMMA StoredIs ==
    ASSUME NEW m
    PROVE  m \in Stored <=> \E c \in Chats : m \in Elements(chatRows[c])
BY DEF Stored

\* What a turn of s brings into the world.
New(s, m, now) ==
    /\ m.turn \in 1 .. Len(now) /\ now[m.turn].session = s
    /\ m \in Message
    /\ \A r \in Sessions \ {s} : m \notin Held(r)

\* A step of s that spreads only what was stored or held by s before, or is new,
\* leaves the other sessions in order.
Spreads(s) ==
    /\ \A m \in Stored' \cup Held(s)' :
          m \in Stored \cup Held(s) \cup {System} \/ New(s, m, asked')
    /\ asked' = asked \/ \E c \in Chats : asked' = Append(asked, [session |-> s, chat |-> c])
    /\ \A r \in Sessions \ {s} :
          memory'[r] = memory[r] /\ saved'[r] = saved[r] /\ context'[r] = context[r]
          /\ rounds'[r] = rounds[r]

LEMMA AskedGrows ==
    ASSUME HistoryTypeOK, NEW s \in Sessions, Spreads(s)
    PROVE  /\ Len(asked) \in Nat /\ Len(asked') \in Nat /\ Len(asked) <= Len(asked')
           /\ \A t \in 1 .. Len(asked) : asked'[t] = asked[t]
           /\ \A t \in 1 .. Len(asked') : t \in 1 .. Len(asked) \/ asked'[t].session = s
<1>1. asked \in Seq([session : Sessions, chat : Chats]) /\ Len(asked) \in Nat
  BY DEF HistoryTypeOK
<1>2. CASE asked' = asked
  BY <1>1, <1>2
<1>3. CASE \E c \in Chats : asked' = Append(asked, [session |-> s, chat |-> c])
  <2>1. PICK c \in Chats : asked' = Append(asked, [session |-> s, chat |-> c])
    BY <1>3
  <2>2. PICK k \in [session : Sessions, chat : Chats] : k = [session |-> s, chat |-> c]
    OBVIOUS
  <2>3. k.session = s
    BY <2>2
  <2>4. asked' = Append(asked, k)
    BY <2>1, <2>2
  <2> QED
    BY <1>1, <2>3, <2>4
<1> QED
  BY <1>2, <1>3 DEF Spreads

LEMMA PastGoesOn ==
    ASSUME HistoryInv, NEW s \in Sessions, Spreads(s)
    PROVE  Past'
<1>1. SUFFICES ASSUME NEW m \in Stored' \cup UNION {Held(r)' : r \in Sessions}
               PROVE  m.turn <= Len(asked')
  BY DEF Past
<1>2. Len(asked) \in Nat /\ Len(asked') \in Nat /\ Len(asked) <= Len(asked')
  BY AskedGrows DEF HistoryInv
<1>3. m \in Stored \cup {System} \/ (\E r \in Sessions : m \in Held(r)) \/ New(s, m, asked')
  <2>1. CASE m \in Stored' \cup Held(s)'
    BY <2>1 DEF Spreads
  <2>2. CASE \E r \in Sessions \ {s} : m \in Held(r)'
    <3>1. PICK r \in Sessions \ {s} : m \in Held(r)'
      BY <2>2
    <3>2. m \in Held(r)
      BY <3>1 DEF Held, Spreads
    <3> QED
      BY <3>2
  <2> QED
    BY <1>1, <2>1, <2>2
<1>4. CASE m = System
  BY <1>2, <1>4, SystemIs
<1>5. CASE m \in Stored \cup UNION {Held(r) : r \in Sessions}
  <2>1. m.turn <= Len(asked)
    BY <1>5 DEF HistoryInv, Past
  <2>2. m \in Message
    <3>1. CASE m \in Stored
      <4>1. PICK c \in Chats : m \in Elements(chatRows[c])
        BY <3>1, StoredIs
      <4> QED
        BY <4>1, ElementsOf DEF HistoryInv, HistoryTypeOK
    <3>2. CASE \E r \in Sessions : m \in Held(r)
      BY <3>2, ElementsOf DEF HistoryInv, HistoryTypeOK, Held
    <3> QED
      BY <1>5, <3>1, <3>2
  <2>3. m.turn \in Nat
    BY <2>2, MessageIs, LimitsArePositive
  <2> QED
    BY <1>2, <2>1, <2>3
<1>6. CASE New(s, m, asked')
  BY <1>2, <1>6 DEF New
<1> QED
  BY <1>3, <1>4, <1>5, <1>6

\* What another session has for itself stays its own.
LEMMA StaysPrivate ==
    ASSUME HistoryInv, NEW s \in Sessions, Spreads(s), NEW r \in Sessions \ {s},
           NEW m, Private(r, m), ~New(s, m, asked')
    PROVE  Private(r, m)'
<1>1. m # System /\ m \notin Stored /\ \A q \in Sessions \ {r} : m \notin Held(q)
  BY DEF Private
<1>2. m \notin Stored' \cup Held(s)'
  BY <1>1 DEF Spreads
<1>3. ASSUME NEW q \in Sessions \ {r, s} PROVE m \notin Held(q)'
  BY <1>1, <1>3 DEF Spreads, Held
<1>4. System' = System
  BY DEF System, Said
<1> QED
  BY <1>1, <1>2, <1>3, <1>4 DEF Private

LEMMA TurnStays ==
    ASSUME HistoryInv, NEW s \in Sessions, Spreads(s), NEW r \in Sessions \ {s}, Busy(r),
           asked' \in Seq([session : Sessions, chat : Chats])
    PROVE  IsTurn(r, Turn(r))' /\ Turn(r)' = Turn(r)
<1> DEFINE t == Turn(r)
<1>1. IsTurn(r, t) /\ t \in 1 .. Len(asked)
  BY AtWork
<1> HIDE DEF t
<1>2. /\ Len(asked) \in Nat /\ Len(asked') \in Nat /\ Len(asked) <= Len(asked')
      /\ \A u \in 1 .. Len(asked) : asked'[u] = asked[u]
      /\ \A u \in 1 .. Len(asked') : u \in 1 .. Len(asked) \/ asked'[u].session = s
  BY AskedGrows DEF HistoryInv
<1>3. Turns = 1 .. Len(asked) /\ Turns' = 1 .. Len(asked')
  BY DEF Turns, HistoryInv, HistoryTypeOK
<1>4. t \in Turns' /\ asked'[t].session = r
  BY <1>1, <1>2, <1>3 DEF IsTurn
<1>5. ASSUME NEW u \in Turns', asked'[u].session = r PROVE u <= t
  <2>1. u \in 1 .. Len(asked) /\ asked[u].session = r
    BY <1>2, <1>3, <1>5
  <2> QED
    BY <1>1, <1>3, <2>1 DEF IsTurn
<1>6. t \in Turns' /\ asked'[t].session = r /\ \A u \in Turns' : asked'[u].session = r => u <= t
  BY <1>4, <1>5
<1>7. Turn(r)' = t
  <2> DEFINE c == CHOOSE v \in Turns' : /\ asked'[v].session = r
                                        /\ \A u \in Turns' : asked'[u].session = r => u <= v
  <2>1. c \in Turns' /\ asked'[c].session = r /\ \A u \in Turns' : asked'[u].session = r => u <= c
    BY <1>6, Zenon
  <2>2. Turn(r)' = c
    BY DEF Turn
  <2> HIDE DEF c
  <2>3. c <= t /\ t <= c /\ c \in Nat /\ t \in Nat
    BY <1>1, <1>2, <1>3, <1>6, <2>1
  <2> QED
    BY <2>2, <2>3
<1> QED
  BY <1>6, <1>7 DEF IsTurn, t

-----------------------------------------------------------------------------
(* A step of s, and the other sessions *)

LEMMA OthersGoOn ==
    ASSUME HistoryInv, HistoryTypeOK', NEW s \in Sessions, Spreads(s),
           NEW r \in Sessions \ {s}
    PROVE  SessionOK(r)'
<1>0. /\ memory'[r] = memory[r] /\ saved'[r] = saved[r] /\ context'[r] = context[r]
      /\ rounds'[r] = rounds[r] /\ Busy(r)' = Busy(r) /\ Trim(memory[r])' = Trim(memory[r])
  <2>1. /\ memory'[r] = memory[r] /\ saved'[r] = saved[r] /\ context'[r] = context[r]
        /\ rounds'[r] = rounds[r]
    BY DEF Spreads
  <2>2. Trim(memory[r])' = Trim(memory'[r])
    BY DEF Trim, System, Said
  <2> QED
    BY <2>1, <2>2 DEF Busy
<1>1. SessionOK(r) /\ asked' \in Seq([session : Sessions, chat : Chats])
  BY DEF HistoryInv, HistoryTypeOK
<1>2. ASSUME Busy(r) PROVE IsTurn(r, Turn(r))' /\ Turn(r)' = Turn(r)
  BY <1>1, <1>2, TurnStays
<1>3. Busy(r) => Question(r)' = Question(r)
  BY <1>2 DEF Question, Said
<1>4. AtTurn(r)'
  <2>1. SUFFICES ASSUME Busy(r)
                 PROVE  /\ IsTurn(r, Turn(r))'
                        /\ context'[r][1] = System' /\ Question(r)' \in Elements(context'[r])
                        /\ Len(context'[r]) <= 1 + Keep + 2 * rounds'[r]
    BY <1>0 DEF AtTurn, Elements
  <2>2. AtTurn(r)
    BY <1>1 DEF SessionOK
  <2>3. System' = System
    BY DEF System, Said
  <2> QED
    BY <1>0, <1>2, <1>3, <2>1, <2>2, <2>3 DEF AtTurn
<1>5. OwnTurn(r)'
  <2>1. SUFFICES ASSUME Busy(r), NEW m \in Message, m.turn = Turn(r)
                 PROVE  Private(r, m)' /\ (m \in Elements(memory'[r]) => m = Question(r)')
    BY <1>0, <1>2 DEF OwnTurn, Elements, Message, Of, Roles
  <2>2. Private(r, m) /\ (m \in Elements(memory[r]) => m = Question(r))
    BY <1>1, <2>1 DEF SessionOK, OwnTurn
  <2>3. ~New(s, m, asked')
    <3>1. asked'[Turn(r)].session = r
      BY <1>2, <2>1 DEF IsTurn
    <3> QED
      BY <2>1, <3>1 DEF New
  <2> QED
    BY <1>0, <1>3, <2>1, <2>2, <2>3, StaysPrivate
<1>6. Counter(r)'
  BY <1>0, <1>1 DEF SessionOK, Counter
<1>7. BehindCounter(r)'
  <2>1. SUFFICES ASSUME saved[r] > 0
                 PROVE  /\ \A i \in saved[r] + 1 .. Len(memory[r]) : Private(r, memory[r][i])'
                        /\ \A i \in saved[r] + 1 .. Len(context[r]) : Private(r, context[r][i])'
    BY <1>0 DEF BehindCounter, Private, Stored, Held, Elements, System, Said
  <2>2. saved[r] \in Nat /\ memory[r] \in Seq(Message) /\ context[r] \in Seq(Message)
    BY DEF HistoryInv, HistoryTypeOK
  <2>3. BehindCounter(r)
    BY <1>1 DEF SessionOK
  <2>4. ASSUME NEW i \in saved[r] + 1 .. Len(memory[r]) PROVE Private(r, memory[r][i])'
    <3>1. PICK m : m = memory[r][i]
      OBVIOUS
    <3>2. m \in Held(r)
      BY <2>2, <2>4, <3>1, ElementsOf DEF Held
    <3>3. Private(r, m)
      BY <2>1, <2>3, <3>1 DEF BehindCounter
    <3>4. Private(r, m)'
      BY <3>2, <3>3, StaysPrivate DEF New
    <3>5. memory'[r][i] = memory[r][i]
      BY <1>0
    <3> QED
      BY <1>0, <3>1, <3>4, <3>5 DEF Private, Stored, Held, Elements, System, Said
  <2>5. ASSUME NEW i \in saved[r] + 1 .. Len(context[r]) PROVE Private(r, context[r][i])'
    <3>1. PICK m : m = context[r][i]
      OBVIOUS
    <3>2. m \in Held(r)
      BY <2>2, <2>5, <3>1, ElementsOf DEF Held
    <3>3. Private(r, m)
      BY <2>1, <2>3, <3>1 DEF BehindCounter
    <3>4. Private(r, m)'
      BY <3>2, <3>3, StaysPrivate DEF New
    <3>5. context'[r][i] = context[r][i]
      BY <1>0
    <3> QED
      BY <1>0, <3>1, <3>4, <3>5 DEF Private, Stored, Held, Elements, System, Said
  <2> QED
    BY <2>4, <2>5
<1>8. GoesOn(r)'
  <2>1. GoesOn(r)
    BY <1>1 DEF SessionOK
  <2> QED
    BY <1>0, <1>3, <2>1 DEF GoesOn
<1> QED
  BY <1>4, <1>5, <1>6, <1>7, <1>8 DEF SessionOK

LEMMA OneSessionMoves ==
    ASSUME HistoryInv, HistoryTypeOK', NEW s \in Sessions, Spreads(s), SessionOK(s)'
    PROVE  HistoryInv'
BY PastGoesOn, OthersGoOn DEF HistoryInv

-----------------------------------------------------------------------------
(* The steps, one by one *)

HistoryStepOK(s) == HistoryTypeOK' /\ Spreads(s) /\ SessionOK(s)'

\* What a new message meets: the session's list, or what the store gives back.
LEMMA Meeting ==
    ASSUME HistoryInv, NEW s \in Sessions, NEW c \in Chats
    PROVE  /\ Before(s, c) \in Seq(Message) /\ Len(Before(s, c)) >= 1
           /\ Elements(Before(s, c)) \subseteq Stored \cup Held(s) \cup {System}
           /\ memory[s] # <<>> => Before(s, c) = memory[s] /\ Len(memory[s]) >= 2
           /\ Before(s, c) # <<System>> => Len(Before(s, c)) >= 2
<1>1. memory[s] \in Seq(Message) /\ chatRows[c] \in Seq(Message) /\ Len(memory[s]) # 1
  BY DEF HistoryInv, HistoryTypeOK, SessionOK, Counter
<1>2. CASE memory[s] # <<>>
  <2>1. Before(s, c) = memory[s] /\ Len(memory[s]) >= 2
    <3>1. Len(memory[s]) >= 2
      BY <1>1, <1>2, Lengths, Zenon
    <3>2. Before(s, c) = memory[s]
      BY <1>2 DEF Before
    <3> QED
      BY <3>1, <3>2
  <2> QED
    BY <1>1, <1>2, <2>1 DEF Held
<1>3. CASE memory[s] = <<>>
  <2> DEFINE l == LoadSession(c)
             n == Latest(chatRows[c], LoadLimit)
  <2>1. n \in Seq(Message) /\ Elements(n) \subseteq Elements(chatRows[c])
    BY <1>1, LatestIs, LatestElements, LimitsArePositive
  <2> HIDE DEF n
  <2>2. l \in Seq(Message) /\ Elements(l) \subseteq Elements(n)
    <3>1. l = Without(n, Of({"system"}))
      BY DEF LoadSession, n
    <3> QED
      BY <2>1, <3>1, WithoutIs, WithoutElements
  <2>3. Before(s, c) = <<System>> \o l
    BY <1>3 DEF Before
  <2> HIDE DEF l
  <2>4. PICK h \in Seq(Message) : h = <<System>> /\ Len(h) = 1 /\ Elements(h) = {System}
    BY SystemIs, OneElement
  <2>5. /\ h \o l \in Seq(Message) /\ Len(h \o l) = 1 + Len(l) /\ Len(l) \in Nat
        /\ Elements(h \o l) = {System} \cup Elements(l)
    <3>1. /\ h \o l \in Seq(Message) /\ Len(h \o l) = Len(h) + Len(l)
          /\ Elements(h \o l) = Elements(h) \cup Elements(l)
      BY <2>2, <2>4, Joined, Zenon
    <3>2. Len(l) \in Nat
      BY <2>2, Lengths
    <3> QED
      BY <2>4, <3>1, <3>2
  <2>6. Elements(l) \subseteq Stored
    BY <2>1, <2>2 DEF Stored
  <2>7. h \o l # <<System>> => Len(h \o l) >= 2
    <3>1. Len(l) = 0 => l = <<>>
      BY <2>2, Lengths
    <3>2. l = <<>> => h \o l = <<System>>
      BY <2>4
    <3> QED
      BY <2>5, <3>1, <3>2
  <2> QED
    BY <1>3, <2>3, <2>4, <2>5, <2>6, <2>7
<1> QED
  BY <1>2, <1>3

\* A session that is idle, or at a list of which it has stored all.
LEMMA NobodyNew ==
    ASSUME HistoryInv, NEW s \in Sessions,
           \A r \in Sessions \ {s} :
              memory'[r] = memory[r] /\ saved'[r] = saved[r] /\ context'[r] = context[r]
              /\ rounds'[r] = rounds[r],
           chatRows' = chatRows, asked' = asked,
           Held(s)' \subseteq Stored \cup Held(s) \cup {System}
    PROVE  Spreads(s)
BY DEF Spreads, Stored, Elements

LEMMA PrivateStays ==
    ASSUME NEW s \in Sessions, chatRows' = chatRows,
           \A r \in Sessions \ {s} : memory'[r] = memory[r] /\ context'[r] = context[r],
           NEW m, Private(s, m)
    PROVE  Private(s, m)'
<1>1. Stored' = Stored /\ System' = System
  BY DEF Stored, Elements, System, Said
<1>2. \A r \in Sessions \ {s} : Held(r)' = Held(r)
  BY DEF Held
<1> QED
  BY <1>1, <1>2 DEF Private

LEMMA NoTurn ==
    ASSUME NEW s \in Sessions, context'[s] = <<>>
    PROVE  AtTurn(s)' /\ OwnTurn(s)' /\ GoesOn(s)'
BY DEF AtTurn, OwnTurn, GoesOn, Busy

LEMMA BlockOK == ASSUME HistoryInv, NEW s \in Sessions, NEW c \in Chats, Block(s, c)
                 PROVE  HistoryStepOK(s)
<1> DEFINE b == Before(s, c)
<1>1. /\ b \in Seq(Message) /\ Elements(b) \subseteq Stored \cup Held(s) \cup {System}
      /\ memory[s] # <<>> => b = memory[s]
      /\ b # <<System>> => Len(b) >= 2
  BY Meeting
<1>2. /\ memory' = [memory EXCEPT ![s] = IF b = <<System>> THEN @ ELSE b]
      /\ context[s] = <<>>
      /\ chatRows' = chatRows /\ recency' = recency /\ saved' = saved /\ context' = context
      /\ rounds' = rounds /\ asked' = asked
  BY DEF Block, Attach, Busy, store
<1> HIDE DEF b
<1>3. HistoryTypeOK
  BY DEF HistoryInv
<1>4. memory'[s] = (IF b = <<System>> THEN memory[s] ELSE b)
      /\ \A r \in Sessions \ {s} : memory'[r] = memory[r]
  BY <1>2, <1>3 DEF HistoryTypeOK
<1>5. HistoryTypeOK'
  <2>1. memory' \in [Sessions -> Seq(Message)]
    BY <1>1, <1>2, <1>3 DEF HistoryTypeOK
  <2> QED
    BY <1>2, <1>3, <2>1 DEF HistoryTypeOK, Message, Of, Roles
<1>6. Spreads(s)
  <2>1. Held(s)' \subseteq Stored \cup Held(s) \cup {System}
    BY <1>1, <1>2, <1>4 DEF Held
  <2> QED
    BY <1>2, <1>4, <2>1, NobodyNew
<1>7. Counter(s) /\ BehindCounter(s)
  BY DEF HistoryInv, SessionOK
<1>8. memory[s] \in Seq(Message) /\ saved[s] \in Nat /\ Len(memory[s]) \in Nat
  BY <1>3 DEF HistoryTypeOK
<1>9. Counter(s)'
  <2>1. memory[s] = <<>> => saved[s] = 0
    BY <1>7, <1>8 DEF Counter
  <2>2. CASE b = <<System>>
    BY <1>2, <1>4, <1>7, <2>2 DEF Counter
  <2>3. CASE b # <<System>> /\ memory[s] # <<>>
    BY <1>1, <1>2, <1>4, <1>7, <2>3 DEF Counter
  <2>4. CASE b # <<System>> /\ memory[s] = <<>>
    <3>1. 0 <= Len(b) /\ Len(b) # 1
      BY <1>1, <2>4, Lengths, Zenon
    <3>2. memory'[s] = b /\ saved'[s] = 0
      BY <1>2, <1>4, <2>1, <2>4
    <3> QED
      BY <3>1, <3>2 DEF Counter
  <2> QED
    BY <2>2, <2>3, <2>4
<1>10. BehindCounter(s)'
  <2>1. SUFFICES ASSUME saved[s] > 0 PROVE BehindCounter(s)'
    BY <1>2 DEF BehindCounter
  <2>2. memory[s] # <<>>
    BY <1>7, <1>8, <2>1 DEF Counter
  <2>3. memory'[s] = memory[s]
    BY <1>1, <1>4, <2>2
  <2>4. ASSUME NEW m, Private(s, m) PROVE Private(s, m)'
    BY <1>2, <1>4, <2>4, PrivateStays
  <2>5. \A i \in saved[s] + 1 .. Len(memory[s]) : Private(s, memory[s][i])
    BY <1>7, <2>1 DEF BehindCounter
  <2>6. \A i \in saved[s] + 1 .. Len(context[s]) : Private(s, context[s][i])
    BY <1>7, <2>1 DEF BehindCounter
  <2> QED
    BY <1>2, <2>3, <2>4, <2>5, <2>6 DEF BehindCounter, Private, Stored, Held, Elements, System, Said
<1> QED
  BY <1>2, <1>5, <1>6, <1>9, <1>10, NoTurn DEF HistoryStepOK, SessionOK

LEMMA ReceiveOK == ASSUME HistoryInv, NEW s \in Sessions, NEW c \in Chats, Receive(s, c)
                   PROVE  HistoryStepOK(s)
<1>a. PICK b, t : b = Before(s, c) /\ t = Len(asked) + 1
  OBVIOUS
<1>b. PICK q, k : q = Said("user", t) /\ k = [session |-> s, chat |-> c]
  OBVIOUS
<1>c. PICK list, w : list = Append(b, q) /\ w = Trim(list)
  OBVIOUS
<1>0. HistoryTypeOK /\ SessionOK(s) /\ Past
  BY DEF HistoryInv
<1>1. /\ b \in Seq(Message) /\ Len(b) >= 1 /\ Elements(b) \subseteq Stored \cup Held(s) \cup {System}
      /\ memory[s] # <<>> => b = memory[s] /\ Len(memory[s]) >= 2
      /\ b # <<System>> => Len(b) >= 2
  BY <1>a, Meeting
<1>2. /\ memory' = [memory EXCEPT ![s] = IF b = <<System>> THEN @ ELSE list]
      /\ context' = [context EXCEPT ![s] = Trim(list)]
      /\ context[s] = <<>> /\ t <= MaxTurns /\ asked' = Append(asked, k)
      /\ chatRows' = chatRows /\ recency' = recency /\ saved' = saved /\ rounds' = rounds
  BY <1>a, <1>b, <1>c DEF Receive, Attach, Busy, store
<1>3. /\ asked \in Seq([session : Sessions, chat : Chats]) /\ Len(asked) \in Nat
      /\ t \in 1 .. MaxTurns /\ t \in 0 .. MaxTurns /\ t # 0
  BY <1>a, <1>0, <1>2, LimitsArePositive DEF HistoryTypeOK
<1>4. q \in Message /\ q.turn = t /\ q.role = "user"
  BY <1>b, <1>3, Saying DEF Roles
<1>5. /\ list \in Seq(Message) /\ Len(list) = Len(b) + 1 /\ Len(b) \in Nat /\ Len(list) >= 2
      /\ list[Len(list)] = q /\ \A i \in 1 .. Len(b) : list[i] = b[i]
  <2>1. Len(b) \in Nat
    BY <1>1, Lengths
  <2> QED
    BY <1>c, <1>1, <1>4, <2>1
<1>6. Elements(list) = Elements(b) \cup {q}
  <2>1. PICK h \in Seq(Message) : h = <<q>> /\ Elements(h) = {q}
    BY <1>4, OneElement
  <2>2. list = b \o h
    BY <1>c, <1>1, <1>4, <2>1
  <2>3. Elements(b \o h) = Elements(b) \cup Elements(h)
    <3>1. b \in Seq(Message) /\ h \in Seq(Message)
      BY <1>1, <2>1
    <3> QED
      BY <3>1, Joined, Zenon
  <2> QED
    BY <2>1, <2>2, <2>3
<1>7. /\ w \in Seq(Message) /\ Len(w) <= 1 + Keep
      /\ Len(w) >= 2 /\ w[1] = System
      /\ \A i \in 2 .. Len(w) : \E j \in i .. Len(list) : w[i] = list[j]
      /\ w[Len(w)] = q
  BY <1>c, <1>4, <1>5, TrimIs
<1>8. Elements(w) \subseteq Elements(list) \cup {System} /\ q \in Elements(w)
  <2>1. ASSUME NEW m \in Elements(w) PROVE m \in Elements(list) \cup {System}
    <3>1. PICK i \in 1 .. Len(w) : m = w[i]
      BY <1>7, ElementsOf
    <3>2. CASE i = 1
      BY <1>7, <3>1, <3>2
    <3>3. CASE i # 1
      <4>1. PICK j \in i .. Len(list) : m = list[j]
        BY <1>7, <3>1, <3>3
      <4>2. j \in 1 .. Len(list)
        BY <1>5, <3>1, <4>1
      <4> QED
        BY <1>5, <4>1, <4>2, ElementsOf
    <3> QED
      BY <3>2, <3>3
  <2>2. Len(w) \in 1 .. Len(w)
    BY <1>7, Lengths
  <2>3. q \in Elements(w)
    BY <1>7, <2>2, ElementsOf
  <2> QED
    BY <2>1, <2>3
<1>9. /\ memory'[s] = (IF b = <<System>> THEN memory[s] ELSE list)
      /\ context'[s] = w
      /\ \A r \in Sessions \ {s} : memory'[r] = memory[r] /\ context'[r] = context[r]
  BY <1>c, <1>0, <1>2 DEF HistoryTypeOK
<1>10. k \in [session : Sessions, chat : Chats] /\ k.session = s
  BY <1>b
<1>11. /\ asked' \in Seq([session : Sessions, chat : Chats]) /\ Len(asked') = t
       /\ asked'[t] = k /\ \A u \in 1 .. Len(asked) : asked'[u] = asked[u]
  BY <1>a, <1>2, <1>3, <1>10
<1>12. HistoryTypeOK'
  <2>1. memory' \in [Sessions -> Seq(Message)] /\ context' \in [Sessions -> Seq(Message)]
    BY <1>c, <1>0, <1>2, <1>5, <1>7 DEF HistoryTypeOK
  <2> QED
    BY <1>0, <1>2, <1>11, <2>1 DEF HistoryTypeOK, Message, Of, Roles
<1>13. IsTurn(s, t)'
  <2>1. Turns' = 1 .. t
    BY <1>11 DEF Turns
  <2>2. t \in Turns' /\ asked'[t].session = s /\ \A u \in Turns' : u <= t
    BY <1>3, <1>10, <1>11, <2>1
  <2> QED
    BY <2>2 DEF IsTurn
<1>14. Turn(s)' = t
  <2> DEFINE v == CHOOSE x \in Turns' : /\ asked'[x].session = s
                                        /\ \A u \in Turns' : asked'[u].session = s => u <= x
  <2>1. t \in Turns' /\ asked'[t].session = s /\ \A u \in Turns' : asked'[u].session = s => u <= t
    BY <1>13 DEF IsTurn
  <2>2. v \in Turns' /\ asked'[v].session = s /\ \A u \in Turns' : asked'[u].session = s => u <= v
    BY <2>1, Zenon
  <2>3. Turn(s)' = v
    BY DEF Turn
  <2> HIDE DEF v
  <2>4. Turns' \subseteq Nat
    BY <1>11 DEF Turns
  <2>5. v <= t /\ t <= v /\ v \in Nat /\ t \in Nat
    BY <2>1, <2>2, <2>4
  <2> QED
    BY <2>3, <2>5
<1>15. Question(s)' = q
  BY <1>b, <1>14 DEF Question, Said
\* Nobody has anything of this turn yet.
<1>16. ASSUME NEW m, m.turn = t
       PROVE  /\ m # System /\ m \notin Stored
              /\ \A r \in Sessions : m \notin Held(r)
  <2>1. ~(t <= Len(asked))
    BY <1>a, <1>3
  <2> QED
    BY <1>0, <1>3, <1>16, <2>1, SystemIs DEF Past
<1>17. Spreads(s)
  <2>1. New(s, q, asked')
    <3>1. t \in 1 .. Len(asked') /\ asked'[t].session = s
      BY <1>3, <1>10, <1>11
    <3> QED
      BY <1>4, <1>16, <3>1 DEF New
  <2>2. Stored' = Stored
    BY <1>2 DEF Stored
  <2>3. Held(s)' \subseteq Stored \cup Held(s) \cup {System, q}
    <3>1. Held(s)' = Elements(memory'[s]) \cup Elements(w)
      BY <1>9 DEF Held
    <3>2. Elements(w) \subseteq Stored \cup Held(s) \cup {System, q}
      BY <1>1, <1>6, <1>8
    <3>3. Elements(memory'[s]) \subseteq Stored \cup Held(s) \cup {System, q}
      BY <1>1, <1>6, <1>9 DEF Held
    <3> QED
      BY <3>1, <3>2, <3>3
  <2>4. asked' = asked \/ \E d \in Chats : asked' = Append(asked, [session |-> s, chat |-> d])
    BY <1>b, <1>2
  <2> QED
    BY <1>2, <1>9, <2>1, <2>2, <2>3, <2>4 DEF Spreads
<1>18. AtTurn(s)'
  <2>1. Len(w) <= 1 + Keep + 2 * rounds'[s]
    <3>1. rounds'[s] \in Nat
      BY <1>12, LimitsArePositive DEF HistoryTypeOK
    <3> QED
      BY <1>7, <3>1, LimitsArePositive, Lengths
  <2>2. w[1] = System /\ q \in Elements(w)
    BY <1>7, <1>8
  <2> QED
    BY <1>9, <1>13, <1>14, <1>15, <2>1, <2>2 DEF AtTurn, Elements, System, Said
<1>19. ASSUME NEW m, m # System, m \notin Stored, \A r \in Sessions \ {s} : m \notin Held(r)
       PROVE  Private(s, m)'
  <2>1. Private(s, m)
    BY <1>19 DEF Private
  <2> QED
    BY <1>2, <1>9, <2>1, PrivateStays
<1>20. OwnTurn(s)'
  <2>1. SUFFICES ASSUME NEW m \in Message, m.turn = t
                 PROVE  Private(s, m)' /\ (m \in Elements(memory'[s]) => m = q)
    BY <1>14, <1>15 DEF OwnTurn, Elements, Message, Of, Roles
  <2>2. /\ m # System /\ m \notin Stored /\ \A r \in Sessions : m \notin Held(r)
    BY <1>16, <2>1
  <2>3. Private(s, m)'
    BY <1>19, <2>2
  <2>4. m \in Elements(memory'[s]) => m = q
    BY <1>1, <1>6, <1>9, <2>2 DEF Held
  <2> QED
    BY <2>3, <2>4
<1>21. Counter(s) /\ BehindCounter(s) /\ memory[s] \in Seq(Message) /\ saved[s] \in Nat
  BY <1>0 DEF SessionOK, HistoryTypeOK
<1>22. CASE memory[s] = <<>>
  <2>1. saved'[s] = 0
    BY <1>2, <1>21, <1>22 DEF Counter
  <2>2. 0 <= Len(memory'[s]) /\ Len(memory'[s]) # 1
    <3>1. memory'[s] = <<>> \/ memory'[s] = list
      BY <1>9, <1>22
    <3>2. 0 <= Len(list) /\ Len(list) # 1
      BY <1>5, Lengths, Zenon
    <3> QED
      BY <3>1, <3>2
  <2>4. Counter(s)'
    BY <2>1, <2>2 DEF Counter
  <2> QED
    BY <1>12, <1>17, <1>18, <1>20, <2>1, <2>4
       DEF HistoryStepOK, SessionOK, BehindCounter, GoesOn
<1>23. CASE memory[s] # <<>>
  <2>1. b = memory[s] /\ Len(b) >= 2 /\ memory'[s] = list /\ saved[s] <= Len(b)
    <3>1. b = memory[s] /\ Len(b) >= 2
      BY <1>1, <1>23
    <3>2. b # <<System>>
      <4>1. Len(b) # 1
        BY <1>1, <3>1, Lengths, Zenon
      <4>2. Len(<<System>>) = 1
        BY SystemIs, OneElement
      <4> QED
        BY <4>1, <4>2
    <3> QED
      BY <1>9, <1>21, <3>1, <3>2 DEF Counter
  <2>2. Counter(s)'
    BY <1>2, <1>5, <1>21, <2>1 DEF Counter
  <2>3. ASSUME saved[s] > 0, NEW j \in saved[s] + 1 .. Len(list) PROVE Private(s, list[j])'
    <3>1. CASE j = Len(list)
      BY <1>4, <1>5, <1>16, <1>19, <3>1
    <3>2. CASE j # Len(list)
      <4>1. j \in saved[s] + 1 .. Len(b) /\ j \in 1 .. Len(b)
        BY <1>5, <1>21, <2>3, <3>2
      <4>2. Private(s, list[j])
        BY <1>5, <1>21, <2>1, <2>3, <4>1 DEF BehindCounter
      <4> QED
        BY <1>2, <1>9, <4>2, PrivateStays
    <3> QED
      BY <3>1, <3>2
  <2>4. ASSUME saved[s] > 0, NEW i \in saved[s] + 1 .. Len(w) PROVE Private(s, w[i])'
    <3>1. i \in 2 .. Len(w)
      BY <1>21, <2>4
    <3>2. PICK j \in i .. Len(list) : w[i] = list[j]
      BY <1>7, <3>1
    <3>3. j \in saved[s] + 1 .. Len(list)
      BY <1>5, <1>21, <2>4, <3>2
    <3>4. Private(s, list[j])'
      BY <2>3, <2>4, <3>3
    <3> QED
      BY <3>2, <3>4 DEF Private, Stored, Held, Elements, System, Said
  <2>5. BehindCounter(s)'
    BY <1>2, <1>9, <2>1, <2>3, <2>4 DEF BehindCounter, Private, Stored, Held, Elements, System, Said
  <2>6. GoesOn(s)'
    <3>1. Trim(memory[s])' = w
      BY <1>c, <2>1 DEF Trim, System, Said
    <3>2. saved[s] < Len(list)
      BY <1>5, <1>21, <2>1
    <3> QED
      BY <1>2, <1>5, <1>9, <1>15, <2>1, <3>1, <3>2 DEF GoesOn
  <2> QED
    BY <1>12, <1>17, <1>18, <1>20, <2>2, <2>5, <2>6 DEF HistoryStepOK, SessionOK
<1> QED
  BY <1>22, <1>23

\* A message of the turn in progress is new to everybody else.
LEMMA OwnMessage ==
    ASSUME HistoryInv, NEW s \in Sessions, Busy(s), asked' = asked,
           NEW m \in Message, m.turn = Turn(s)
    PROVE  New(s, m, asked') /\ Private(s, m)
<1>1. IsTurn(s, Turn(s)) /\ Turn(s) \in 1 .. Len(asked)
  BY AtWork
<1>2. Private(s, m)
  BY DEF HistoryInv, SessionOK, OwnTurn
<1>3. asked[Turn(s)].session = s
  BY <1>1 DEF IsTurn
<1> QED
  BY <1>1, <1>2, <1>3 DEF New, Private

LEMMA ToolRoundOK == ASSUME HistoryInv, NEW s \in Sessions, ToolRound(s)
                     PROVE  HistoryStepOK(s)
<1>a. PICK t, a, b : t = Turn(s) /\ a = Said("calls", t) /\ b = Said("result", t)
  OBVIOUS
<1>b. PICK p, x, l : p = <<a, b>> /\ x = context[s] /\ l = x \o p
  OBVIOUS
<1>0. HistoryTypeOK /\ SessionOK(s) /\ Busy(s)
  BY DEF HistoryInv, ToolRound
<1>1. /\ rounds[s] < MaxRounds /\ rounds' = [rounds EXCEPT ![s] = @ + 1]
      /\ context' = [context EXCEPT ![s] = l]
      /\ chatRows' = chatRows /\ recency' = recency /\ memory' = memory /\ saved' = saved
      /\ asked' = asked
  BY <1>a, <1>b DEF ToolRound, store
<1>2. t \in 0 .. MaxTurns /\ IsTurn(s, t)
  BY <1>a, <1>0, AtWork
<1>3. a \in Message /\ b \in Message /\ a.turn = t /\ b.turn = t
  BY <1>a, <1>2, Saying DEF Roles
<1>4. p \in Seq(Message) /\ Len(p) = 2 /\ p[1] = a /\ p[2] = b
  BY <1>b, <1>3
<1>5. /\ l \in Seq(Message) /\ Len(l) = Len(x) + 2 /\ Len(x) \in Nat /\ x \in Seq(Message)
      /\ \A i \in 1 .. Len(x) : l[i] = x[i]
      /\ \A i \in Len(x) + 1 .. Len(l) : l[i] = a \/ l[i] = b
  <2>1. x \in Seq(Message)
    BY <1>b, <1>0 DEF HistoryTypeOK
  <2> QED
    BY <1>b, <1>4, <2>1
<1>6. /\ context'[s] = l /\ rounds'[s] = rounds[s] + 1
      /\ \A r \in Sessions \ {s} : context'[r] = context[r] /\ rounds'[r] = rounds[r]
  BY <1>0, <1>1 DEF HistoryTypeOK
<1>7. HistoryTypeOK'
  <2>1. context' \in [Sessions -> Seq(Message)] /\ rounds' \in [Sessions -> 0 .. MaxRounds]
    BY <1>0, <1>1, <1>5, LimitsArePositive DEF HistoryTypeOK
  <2> QED
    BY <1>0, <1>1, <2>1 DEF HistoryTypeOK, Message, Of, Roles
<1>8. \A m \in Elements(l) : m \in Elements(x) \cup {a, b}
  <2>1. TAKE m \in Elements(l)
  <2>2. PICK i \in 1 .. Len(l) : m = l[i]
    BY <1>5, ElementsOf
  <2>3. CASE i \in 1 .. Len(x)
    BY <1>5, <2>2, <2>3, ElementsOf
  <2>4. CASE i \notin 1 .. Len(x)
    BY <1>5, <2>2, <2>4
  <2> QED
    BY <2>3, <2>4
<1>9. Spreads(s)
  <2>1. New(s, a, asked') /\ New(s, b, asked')
    BY <1>a, <1>0, <1>1, <1>3, OwnMessage
  <2>2. Held(s)' = Elements(memory[s]) \cup Elements(l) /\ Stored' = Stored
    BY <1>1, <1>6 DEF Held, Stored
  <2>3. Held(s)' \subseteq Held(s) \cup {a, b}
    BY <1>b, <1>8, <2>2 DEF Held
  <2> QED
    BY <1>1, <1>6, <2>1, <2>2, <2>3 DEF Spreads
<1>10. ASSUME NEW m, Private(s, m) PROVE Private(s, m)'
  BY <1>1, <1>6, <1>10, PrivateStays
<1>11. IsTurn(s, t)' /\ Turn(s)' = t /\ Question(s)' = Question(s)
  BY <1>a, <1>1, <1>2 DEF IsTurn, Turn, Turns, Question, Said
<1>12. x # <<>> /\ 1 \in 1 .. Len(x)
  BY <1>b, <1>0, <1>5 DEF Busy
<1>13. AtTurn(s)'
  <2>1. x[1] = System /\ Question(s) \in Elements(x) /\ Len(x) <= 1 + Keep + 2 * rounds[s]
    BY <1>b, <1>0 DEF SessionOK, AtTurn
  <2>2. l[1] = System
    BY <1>5, <1>12, <2>1
  <2>3. Question(s) \in Elements(l)
    <3>1. PICK i \in 1 .. Len(x) : Question(s) = x[i]
      BY <1>5, <2>1, ElementsOf
    <3>2. i \in 1 .. Len(l) /\ l[i] = x[i]
      BY <1>5, <3>1
    <3> QED
      BY <1>5, <3>1, <3>2, ElementsOf
  <2>4. Len(l) <= 1 + Keep + 2 * rounds'[s]
    <3>1. rounds[s] \in Nat
      BY <1>0, LimitsArePositive DEF HistoryTypeOK
    <3> QED
      BY <1>5, <1>6, <2>1, <3>1, LimitsArePositive
  <2> QED
    BY <1>6, <1>11, <2>2, <2>3, <2>4 DEF AtTurn, Elements, System, Said
<1>14. OwnTurn(s)'
  <2>1. SUFFICES ASSUME NEW m \in Message, m.turn = t
                 PROVE  Private(s, m)' /\ (m \in Elements(memory[s]) => m = Question(s))
    BY <1>1, <1>11 DEF OwnTurn, Elements, Message, Of, Roles
  <2>2. Private(s, m) /\ (m \in Elements(memory[s]) => m = Question(s))
    BY <1>a, <1>0, <2>1 DEF SessionOK, OwnTurn
  <2> QED
    BY <1>10, <2>2
<1>15. Counter(s)'
  BY <1>0, <1>1 DEF SessionOK, Counter
<1>16. BehindCounter(s)'
  <2>1. SUFFICES ASSUME saved[s] > 0
                 PROVE  /\ \A i \in saved[s] + 1 .. Len(memory[s]) : Private(s, memory[s][i])'
                        /\ \A i \in saved[s] + 1 .. Len(l) : Private(s, l[i])'
    BY <1>1, <1>6 DEF BehindCounter, Private, Stored, Held, Elements, System, Said
  <2>2. BehindCounter(s) /\ saved[s] \in Nat
    BY <1>0 DEF SessionOK, HistoryTypeOK
  <2>3. ASSUME NEW i \in saved[s] + 1 .. Len(memory[s]) PROVE Private(s, memory[s][i])'
    <3>1. Private(s, memory[s][i])
      BY <2>1, <2>2 DEF BehindCounter
    <3> QED
      BY <1>1, <1>6, <3>1, PrivateStays
  <2>4. ASSUME NEW i \in saved[s] + 1 .. Len(l) PROVE Private(s, l[i])'
    <3>1. CASE i \in 1 .. Len(x)
      <4>1. Private(s, x[i])
        BY <1>b, <1>5, <2>1, <2>2, <3>1 DEF BehindCounter
      <4>2. Private(s, l[i])
        BY <1>5, <3>1, <4>1
      <4> QED
        BY <1>1, <1>6, <4>2, PrivateStays
    <3>2. CASE i \notin 1 .. Len(x)
      <4>1. l[i] = a \/ l[i] = b
        BY <1>5, <2>2, <3>2
      <4>2. Private(s, l[i])
        BY <1>a, <1>0, <1>1, <1>3, <4>1, OwnMessage
      <4> QED
        BY <1>1, <1>6, <4>2, PrivateStays
    <3> QED
      BY <3>1, <3>2
  <2> QED
    BY <2>3, <2>4
<1>17. GoesOn(s)'
  <2>1. SUFFICES ASSUME saved[s] > 0
                 PROVE  /\ saved[s] < Len(memory[s])
                        /\ memory[s][Len(memory[s])] = Question(s)
                        /\ \A i \in 1 .. Len(Trim(memory[s])) :
                              i \in 1 .. Len(l) /\ l[i] = Trim(memory[s])[i]
    BY <1>1, <1>6, <1>11 DEF GoesOn, Trim, System, Said
  <2>2. /\ saved[s] < Len(memory[s]) /\ memory[s][Len(memory[s])] = Question(s)
        /\ \A i \in 1 .. Len(Trim(memory[s])) :
              i \in 1 .. Len(x) /\ x[i] = Trim(memory[s])[i]
    BY <1>b, <1>0, <2>1 DEF SessionOK, GoesOn
  <2> QED
    BY <1>5, <2>2
<1> QED
  BY <1>7, <1>9, <1>13, <1>14, <1>15, <1>16, <1>17 DEF HistoryStepOK, SessionOK

\* The list at the end of a turn goes on from that of the turn, with messages of it.
LEMMA EndingIs ==
    ASSUME HistoryInv, NEW s \in Sessions, Busy(s), asked' = asked,
           NEW kind \in Kinds, NEW prompted \in BOOLEAN, NEW l, l = Ending(s, kind, prompted)
    PROVE  /\ l \in Seq(Message) /\ context[s] \in Seq(Message)
           /\ Len(l) \in Nat /\ Len(context[s]) \in Nat
           /\ Len(l) >= 2 /\ Len(l) > Len(context[s])
           /\ \A i \in 1 .. Len(context[s]) : l[i] = context[s][i]
           /\ \A i \in Len(context[s]) + 1 .. Len(l) : l[i] \in Message /\ l[i].turn = Turn(s)
           /\ l[Len(l)].role # "system"
           /\ \A m \in Elements(l) : m \in Held(s) \/ New(s, m, asked')
<1>a. PICK t, a, b, x : /\ t = Turn(s) /\ a = Said("prompt", t) /\ b = Said(kind, t)
                        /\ x = context[s]
  OBVIOUS
<1>1. t \in 0 .. MaxTurns /\ x \in Seq(Message) /\ x # <<>>
  BY <1>a, AtWork DEF HistoryInv, HistoryTypeOK, Busy
<1>2. a \in Message /\ b \in Message /\ a.turn = t /\ b.turn = t /\ b.role # "system"
  <2>1. kind \in Roles /\ kind # "system"
    BY DEF Kinds, Roles
  <2> QED
    BY <1>a, <1>1, <2>1, Saying DEF Roles
<1>3. Len(x) \in Nat /\ Len(x) >= 1
  BY <1>1
<1>4. /\ l \in Seq(Message) /\ Len(l) \in Nat /\ Len(l) > Len(x) /\ l[Len(l)] = b
      /\ \A i \in 1 .. Len(x) : l[i] = x[i]
      /\ \A i \in Len(x) + 1 .. Len(l) : l[i] = a \/ l[i] = b
  <2>1. l = x \o (IF prompted THEN <<a>> ELSE <<>>) \o <<b>>
    BY <1>a DEF Ending
  <2>2. CASE prompted
    <3>1. l = x \o <<a>> \o <<b>>
      BY <2>1, <2>2
    <3> QED
      BY <1>1, <1>2, <1>3, <3>1
  <2>3. CASE ~prompted
    <3>1. l = x \o <<>> \o <<b>>
      BY <2>1, <2>3
    <3>2. x \o <<>> = x
      BY <1>1
    <3>3. l = x \o <<b>>
      BY <3>1, <3>2
    <3> QED
      BY <1>1, <1>2, <1>3, <3>3
  <2> QED
    BY <2>2, <2>3
<1>5. ASSUME NEW m \in Elements(l) PROVE m \in Held(s) \/ New(s, m, asked')
  <2>1. PICK i \in 1 .. Len(l) : m = l[i]
    BY <1>4, ElementsOf
  <2>2. CASE i \in 1 .. Len(x)
    BY <1>a, <1>1, <1>4, <2>1, <2>2, ElementsOf DEF Held
  <2>3. CASE i \notin 1 .. Len(x)
    <3>1. m = a \/ m = b
      BY <1>3, <1>4, <2>1, <2>3
    <3> QED
      BY <1>a, <1>2, <3>1, OwnMessage
  <2> QED
    BY <2>2, <2>3
<1>6. Len(l) >= 2
  BY <1>3, <1>4
<1>7. \A i \in Len(x) + 1 .. Len(l) : l[i] \in Message /\ l[i].turn = t
  BY <1>2, <1>4
<1> QED
  BY <1>a, <1>1, <1>2, <1>3, <1>4, <1>5, <1>6, <1>7

LEMMA RestIs ==
    ASSUME NEW S, NEW q \in Seq(S), NEW n \in Nat, NEW d \in Nat \ {0}, n + d = Len(q),
           NEW p, p = SubSeq(q, n + 1, Len(q))
    PROVE  p \in Seq(S) /\ Len(p) = d /\ \A k \in 1 .. d : p[k] = q[n + k]
<1>1. n + 1 \in 1 .. Len(q) /\ Len(q) \in Nat
  OBVIOUS
<1>2. p \in Seq(S) /\ Len(p) = d
  BY <1>1
<1>3. \A k \in 1 .. d : p[k] = q[n + k]
  BY <1>1, <1>2
<1> QED
  BY <1>2, <1>3

\* u is what stands behind the counter in a list, but for system prompts in it.
LeftToSave(s, l, u) ==
    /\ u \in Seq(Message)
    /\ \A m \in Elements(u) : \E i \in saved[s] + 1 .. Len(l) : m = l[i]
    /\ \A i \in saved[s] + 1 .. Len(l) :
          saved[s] = 0 \/ l[i].role # "system" => l[i] \in Elements(u)

LEMMA UnsavedIs ==
    ASSUME NEW s \in Sessions, saved[s] \in Nat, NEW l \in Seq(Message)
    PROVE  LeftToSave(s, l, Unsaved(s, l))
<1> DEFINE out == IF saved[s] = 0 THEN {} ELSE Of({"system"})
<1>1. PICK n, p, u : n = saved[s] /\ p = SubSeq(l, n + 1, Len(l)) /\ u = Unsaved(s, l)
  OBVIOUS
<1>2. /\ p \in Seq(Message) /\ n \in Nat /\ Len(l) \in Nat
      /\ \A k \in 1 .. Len(p) : n + k \in n + 1 .. Len(l) /\ p[k] = l[n + k]
      /\ \A i \in n + 1 .. Len(l) : i - n \in 1 .. Len(p) /\ p[i - n] = l[i]
  <2>1. n \in Nat /\ Len(l) \in Nat
    BY <1>1
  <2>2. CASE n + 1 <= Len(l)
    <3>1. PICK d \in Nat \ {0} : n + d = Len(l)
      BY <2>1, <2>2
    <3>2. p \in Seq(Message) /\ Len(p) = d /\ \A k \in 1 .. d : p[k] = l[n + k]
      <4>1. p = SubSeq(l, n + 1, Len(l))
        BY <1>1
      <4>2. n \in Nat /\ d \in Nat \ {0} /\ n + d = Len(l)
        BY <2>1, <3>1
      <4> QED
        BY <4>1, <4>2, RestIs
    <3>3. \A k \in 1 .. d : n + k \in n + 1 .. Len(l)
      BY <2>1, <3>1
    <3>4. \A i \in n + 1 .. Len(l) : i - n \in 1 .. d /\ n + (i - n) = i
      BY <2>1, <3>1
    <3>5. \A i \in n + 1 .. Len(l) : p[i - n] = l[i]
      BY <3>2, <3>4
    <3> QED
      BY <2>1, <3>2, <3>3, <3>4, <3>5
  <2>3. CASE ~(n + 1 <= Len(l))
    <3>1. p \in Seq(Message) /\ Len(p) = 0
      BY <1>1, <2>1, <2>3
    <3>2. (n + 1) .. Len(l) = {} /\ 1 .. 0 = {}
      BY <2>1, <2>3
    <3> QED
      BY <2>1, <3>1, <3>2
  <2> QED
    BY <2>2, <2>3
<1>3. u = Without(p, out)
  BY <1>1, Zenon DEF Unsaved
<1>4. \A i \in n + 1 .. Len(l) : n = 0 \/ l[i].role # "system" => l[i] \notin out
  BY <1>1 DEF Of
<1> HIDE DEF out
<1>5. u \in Seq(Message) /\ Elements(u) = Elements(p) \ out
  BY <1>2, <1>3, WithoutIs, WithoutElements
<1>6. ASSUME NEW m \in Elements(u) PROVE \E i \in n + 1 .. Len(l) : m = l[i]
  <2>1. PICK k \in 1 .. Len(p) : m = p[k]
    BY <1>2, <1>5, ElementsOf
  <2> QED
    BY <1>2, <2>1
<1>7. ASSUME NEW i \in n + 1 .. Len(l), n = 0 \/ l[i].role # "system" PROVE l[i] \in Elements(u)
  <2>1. l[i] \in Elements(p)
    BY <1>2, ElementsOf
  <2> QED
    BY <1>4, <1>5, <1>7, <2>1
<1> QED
  BY <1>1, <1>5, <1>6, <1>7 DEF LeftToSave

\* What a save does to the tables.
LEMMA SaveIs ==
    ASSUME HistoryTypeOK, NEW c \in Chats, NEW u \in Seq(Message), SaveMessages(c, u)
    PROVE  /\ chatRows' \in [Chats -> Seq(Message)]
           /\ recency' \in Seq(Chats) /\ Len(recency') <= MaxActive
           /\ chatRows'[c] = chatRows[c] \o u
           /\ \A m \in Stored' : m \in Stored \/ m \in Elements(u)
<1>1. chatRows \in [Chats -> Seq(Message)] /\ recency \in Seq(Chats)
  BY DEF HistoryTypeOK
<1>2. PICK v, o : v = Without(recency, {c}) /\ o = Append(v, c)
  OBVIOUS
<1>3. v \in Seq(Chats)
  BY <1>1, <1>2, WithoutIs
<1>4. o \in Seq(Chats)
  BY <1>2, <1>3
<1>5. PICK active : active = Latest(o, MaxActive)
  OBVIOUS
<1>6. active \in Seq(Chats) /\ Len(active) <= MaxActive
  BY <1>4, <1>5, LatestIs, LimitsArePositive
<1>7. /\ recency' = active
      /\ chatRows' = [d \in Chats |-> IF d = c THEN chatRows[c] \o u
                                      ELSE IF d \in Elements(active) THEN chatRows[d]
                                      ELSE <<>>]
  BY <1>2, <1>5 DEF SaveMessages, Active
<1>8. /\ chatRows[c] \o u \in Seq(Message)
      /\ Elements(chatRows[c] \o u) = Elements(chatRows[c]) \cup Elements(u)
  <2>1. PICK q \in Seq(Message) : q = chatRows[c]
    BY <1>1
  <2>2. q \o u \in Seq(Message) /\ Elements(q \o u) = Elements(q) \cup Elements(u)
    BY Joined, Zenon
  <2> QED
    BY <2>1, <2>2
<1>9. chatRows' \in [Chats -> Seq(Message)]
  BY <1>1, <1>7, <1>8
<1>10. ASSUME NEW m \in Stored' PROVE m \in Stored \/ m \in Elements(u)
  <2>1. PICK d \in Chats : m \in Elements(chatRows'[d])
    BY DEF Stored, Elements
  <2>2. CASE d = c
    <3>1. m \in Elements(chatRows[c] \o u)
      BY <1>7, <2>1, <2>2
    <3> QED
      BY <1>8, <3>1, StoredIs
  <2>3. CASE d # c /\ d \in Elements(active)
    <3>1. m \in Elements(chatRows[d])
      BY <1>7, <2>1, <2>3
    <3> QED
      BY <3>1, StoredIs
  <2>4. CASE d # c /\ d \notin Elements(active)
    <3>1. m \in Elements(<<>>)
      BY <1>7, <2>1, <2>4
    <3> QED
      BY <3>1 DEF Elements
  <2> QED
    BY <2>2, <2>3, <2>4
<1>11. chatRows'[c] = chatRows[c] \o u
  BY <1>7
<1> QED
  BY <1>6, <1>7, <1>9, <1>10, <1>11

LEMMA ConcludeOK ==
    ASSUME HistoryInv, NEW s \in Sessions, Busy(s),
           NEW kind \in Kinds, NEW prompted \in BOOLEAN,
           Conclude(s, Ending(s, kind, prompted)),
           chatRows' \in [Chats -> Seq(Message)],
           recency' \in Seq(Chats), Len(recency') <= MaxActive,
           \A m \in Stored' : m \in Stored \/ m \in Elements(Ending(s, kind, prompted))
    PROVE  HistoryStepOK(s)
<1>0. HistoryTypeOK
  BY DEF HistoryInv
<1>a. PICK l : l = Ending(s, kind, prompted)
  OBVIOUS
<1>1. /\ memory' = [memory EXCEPT ![s] = l] /\ saved' = [saved EXCEPT ![s] = Len(l)]
      /\ context' = [context EXCEPT ![s] = <<>>] /\ rounds' = [rounds EXCEPT ![s] = 0]
      /\ asked' = asked
  BY <1>a DEF Conclude, LastSavedLen, Idle
<1>2. /\ l \in Seq(Message) /\ Len(l) \in Nat /\ Len(l) >= 2
      /\ \A m \in Elements(l) : m \in Held(s) \/ New(s, m, asked')
  BY <1>a, <1>1, EndingIs
<1>3. /\ memory'[s] = l /\ saved'[s] = Len(l) /\ context'[s] = <<>>
      /\ \A r \in Sessions \ {s} :
            memory'[r] = memory[r] /\ saved'[r] = saved[r] /\ context'[r] = context[r]
            /\ rounds'[r] = rounds[r]
  BY <1>0, <1>1 DEF HistoryTypeOK
<1>4. HistoryTypeOK'
  <2>1. /\ memory' \in [Sessions -> Seq(Message)] /\ saved' \in [Sessions -> Nat]
        /\ context' \in [Sessions -> Seq(Message)] /\ rounds' \in [Sessions -> 0 .. MaxRounds]
    BY <1>0, <1>1, <1>2, LimitsArePositive DEF HistoryTypeOK
  <2> QED
    BY <1>0, <1>1, <2>1 DEF HistoryTypeOK, Message, Of, Roles
<1>5. Spreads(s)
  <2>1. Held(s)' = Elements(l) \cup Elements(<<>>)
    BY <1>3 DEF Held
  <2>2. Elements(<<>>) = {}
    BY DEF Elements
  <2>3. \A m \in Stored' : m \in Stored \/ m \in Elements(l)
    BY <1>a
  <2> QED
    BY <1>1, <1>2, <1>3, <2>1, <2>2, <2>3 DEF Spreads
<1>6. Counter(s)'
  <2>1. PICK n \in Nat : n = Len(l) /\ n >= 2
    BY <1>2
  <2>2. n <= n /\ n # 1
    BY <2>1
  <2> QED
    BY <1>3, <2>1, <2>2 DEF Counter
<1>7. BehindCounter(s)'
  <2>1. Len(l) + 1 .. Len(l) = {} /\ Len(l) + 1 .. Len(<<>>) = {}
    BY <1>2
  <2> QED
    BY <1>3, <2>1 DEF BehindCounter
<1> QED
  BY <1>3, <1>4, <1>5, <1>6, <1>7, NoTurn DEF HistoryStepOK, SessionOK

LEMMA AnswerOK == ASSUME HistoryInv, NEW s \in Sessions, GetsAnswer(s)
                  PROVE  HistoryStepOK(s)
<1>1. PICK kind \in Kinds, prompted \in BOOLEAN : Answer(s, kind, prompted)
  BY DEF GetsAnswer
<1>a. PICK l, u : l = Ending(s, kind, prompted) /\ u = Unsaved(s, l)
  OBVIOUS
<1>2. /\ Busy(s) /\ Conclude(s, l) /\ asked' = asked
      /\ u = <<>> => UNCHANGED store
      /\ u # <<>> => SaveMessages(Chat(s), u)
  BY <1>1, <1>a DEF Answer, Conclude
<1>0. HistoryTypeOK /\ saved[s] \in Nat /\ Chat(s) \in Chats
  BY <1>2, AtWork DEF HistoryInv, HistoryTypeOK
<1>3. l \in Seq(Message)
  BY <1>a, <1>2, EndingIs
<1>4. /\ u \in Seq(Message)
      /\ \A m \in Elements(u) : \E i \in saved[s] + 1 .. Len(l) : m = l[i]
  BY <1>a, <1>0, <1>3, UnsavedIs DEF LeftToSave
<1>5. \A m \in Elements(u) : m \in Elements(l)
  <2>1. TAKE m \in Elements(u)
  <2>2. PICK i \in saved[s] + 1 .. Len(l) : m = l[i]
    BY <1>4
  <2>3. i \in 1 .. Len(l)
    BY <1>0
  <2> QED
    BY <1>3, <2>2, <2>3, ElementsOf
<1>6. /\ chatRows' \in [Chats -> Seq(Message)] /\ recency' \in Seq(Chats)
      /\ Len(recency') <= MaxActive
      /\ \A m \in Stored' : m \in Stored \/ m \in Elements(l)
  <2>1. CASE u = <<>>
    <3>1. chatRows' = chatRows /\ recency' = recency
      BY <1>2, <2>1 DEF store
    <3>2. Stored' = Stored
      BY <3>1 DEF Stored
    <3> QED
      BY <1>0, <3>1, <3>2 DEF HistoryTypeOK
  <2>2. CASE u # <<>>
    BY <1>0, <1>2, <1>4, <1>5, <2>2, SaveIs
  <2> QED
    BY <2>1, <2>2
<1> QED
  BY <1>a, <1>2, <1>6, ConcludeOK

LEMMA AnswerUnsavedOK ==
    ASSUME HistoryInv, NEW s \in Sessions, NEW kind \in Kinds, NEW prompted \in BOOLEAN,
           AnswerUnsaved(s, kind, prompted)
    PROVE  HistoryStepOK(s)
<1>1. /\ Busy(s) /\ Conclude(s, Ending(s, kind, prompted))
      /\ chatRows' = chatRows /\ recency' = recency
  BY DEF AnswerUnsaved, store
<1>2. Stored' = Stored
  BY <1>1 DEF Stored
<1>3. /\ chatRows' \in [Chats -> Seq(Message)] /\ recency' \in Seq(Chats)
      /\ Len(recency') <= MaxActive
  BY <1>1 DEF HistoryInv, HistoryTypeOK
<1> QED
  BY <1>1, <1>2, <1>3, ConcludeOK

\* The turn goes, and perhaps the session's list and counter with it.
LEMMA LetGo ==
    ASSUME HistoryInv, NEW s \in Sessions, Idle(s), UNCHANGED <<store, asked>>,
           \/ memory' = memory /\ saved' = saved
           \/ memory' = [memory EXCEPT ![s] = <<>>] /\ saved' = [saved EXCEPT ![s] = 0]
    PROVE  HistoryStepOK(s)
<1>0. HistoryTypeOK /\ SessionOK(s)
  BY DEF HistoryInv
<1>1. /\ context' = [context EXCEPT ![s] = <<>>] /\ rounds' = [rounds EXCEPT ![s] = 0]
      /\ chatRows' = chatRows /\ recency' = recency /\ asked' = asked
  BY DEF Idle, store
<1>2. /\ context'[s] = <<>>
      /\ \A r \in Sessions \ {s} :
            memory'[r] = memory[r] /\ saved'[r] = saved[r] /\ context'[r] = context[r]
            /\ rounds'[r] = rounds[r]
      /\ \/ memory'[s] = memory[s] /\ saved'[s] = saved[s]
         \/ memory'[s] = <<>> /\ saved'[s] = 0
      /\ memory' \in [Sessions -> Seq(Message)] /\ saved' \in [Sessions -> Nat]
  <2>1. /\ context'[s] = <<>>
        /\ \A r \in Sessions \ {s} : context'[r] = context[r] /\ rounds'[r] = rounds[r]
    BY <1>0, <1>1 DEF HistoryTypeOK
  <2>2. CASE memory' = memory /\ saved' = saved
    BY <1>0, <2>1, <2>2 DEF HistoryTypeOK
  <2>3. CASE memory' = [memory EXCEPT ![s] = <<>>] /\ saved' = [saved EXCEPT ![s] = 0]
    <3>1. /\ memory' \in [Sessions -> Seq(Message)] /\ saved' \in [Sessions -> Nat]
          /\ memory'[s] = <<>> /\ saved'[s] = 0
          /\ \A r \in Sessions \ {s} : memory'[r] = memory[r] /\ saved'[r] = saved[r]
      BY <1>0, <2>3 DEF HistoryTypeOK
    <3> QED
      BY <2>1, <3>1
  <2> QED
    BY <2>2, <2>3
<1>3. HistoryTypeOK'
  <2>1. context' \in [Sessions -> Seq(Message)] /\ rounds' \in [Sessions -> 0 .. MaxRounds]
    BY <1>0, <1>1, LimitsArePositive DEF HistoryTypeOK
  <2> QED
    BY <1>0, <1>1, <1>2, <2>1 DEF HistoryTypeOK, Message, Of, Roles
<1>4. Spreads(s)
  <2>1. Elements(<<>>) = {}
    BY DEF Elements
  <2>2. Held(s)' \subseteq Stored \cup Held(s) \cup {System}
    BY <1>2, <2>1 DEF Held
  <2> QED
    BY <1>1, <1>2, <2>2, NobodyNew
<1>5. Counter(s)'
  <2>1. Len(<<>>) = 0 /\ 0 <= 0 /\ 0 # 1
    OBVIOUS
  <2>2. CASE memory'[s] = <<>> /\ saved'[s] = 0
    BY <2>1, <2>2 DEF Counter
  <2>3. CASE memory'[s] = memory[s] /\ saved'[s] = saved[s]
    BY <1>0, <2>3 DEF SessionOK, Counter
  <2> QED
    BY <1>2, <2>2, <2>3
<1>6. BehindCounter(s)'
  <2>1. CASE saved'[s] = 0
    BY <2>1 DEF BehindCounter
  <2>2. CASE memory'[s] = memory[s] /\ saved'[s] = saved[s] /\ saved[s] > 0
    <3>1. \A i \in saved[s] + 1 .. Len(memory[s]) : Private(s, memory[s][i])
      BY <1>0, <2>2 DEF SessionOK, BehindCounter
    <3>2. ASSUME NEW i \in saved[s] + 1 .. Len(memory[s]) PROVE Private(s, memory[s][i])'
      <4>1. PICK m : m = memory[s][i]
        OBVIOUS
      <4>2. Private(s, m)'
        BY <1>1, <1>2, <3>1, <4>1, PrivateStays
      <4>3. memory'[s][i] = m
        BY <2>2, <4>1
      <4> QED
        BY <4>2, <4>3 DEF Private, Stored, Held, Elements, System, Said
    <3>3. saved[s] + 1 .. Len(<<>>) = {}
      BY <1>0, <2>2 DEF HistoryTypeOK
    <3> QED
      BY <1>2, <2>2, <3>2, <3>3 DEF BehindCounter, Private, Stored, Held, Elements, System, Said
  <2> QED
    BY <1>0, <1>2, <2>1, <2>2 DEF HistoryTypeOK
<1> QED
  BY <1>2, <1>3, <1>4, <1>5, <1>6, NoTurn DEF HistoryStepOK, SessionOK

LEMMA FailOK == ASSUME HistoryInv, NEW s \in Sessions, Fail(s) PROVE HistoryStepOK(s)
BY LetGo DEF Fail

LEMMA ForgetOK == ASSUME HistoryInv, NEW s \in Sessions, Forget(s) PROVE HistoryStepOK(s)
BY LetGo DEF Forget

LEMMA HistoryStarts == HistoryInit => HistoryInv
<1>1. SUFFICES ASSUME HistoryInit PROVE HistoryInv
  OBVIOUS
<1>2. /\ \A c \in Chats : chatRows[c] = <<>>
      /\ \A s \in Sessions : memory[s] = <<>> /\ context[s] = <<>> /\ saved[s] = 0
  BY <1>1 DEF HistoryInit
<1>3. HistoryTypeOK
  <2>1. <<>> \in Seq(Message) /\ <<>> \in Seq(Chats) /\ Len(<<>>) = 0
        /\ <<>> \in Seq([session : Sessions, chat : Chats])
    OBVIOUS
  <2> QED
    BY <1>1, <2>1, LimitsArePositive DEF HistoryInit, HistoryTypeOK
<1>4. Elements(<<>>) = {} /\ Len(<<>>) = 0
  BY DEF Elements
<1>5. Past
  BY <1>2, <1>4 DEF Past, Stored, Held
<1>6. ASSUME NEW s \in Sessions PROVE SessionOK(s)
  <2>1. ~Busy(s) /\ saved[s] = 0
    BY <1>2 DEF Busy
  <2>2. Counter(s)
    BY <1>2, <1>4 DEF Counter
  <2> QED
    BY <2>1, <2>2 DEF SessionOK, AtTurn, OwnTurn, BehindCounter, GoesOn
<1> QED
  BY <1>3, <1>5, <1>6 DEF HistoryInv

LEMMA HistoryGoesOn == HistoryInv /\ [HistoryNext]_historyVars => HistoryInv'
<1>1. SUFFICES ASSUME HistoryInv, [HistoryNext]_historyVars PROVE HistoryInv'
  OBVIOUS
<1>2. CASE HistoryNext
  <2>1. PICK s \in Sessions :
           \/ \E c \in Chats : Receive(s, c) \/ Block(s, c)
           \/ ToolRound(s) \/ GetsAnswer(s) \/ Fail(s) \/ Forget(s)
           \/ \E kind \in Kinds, prompted \in BOOLEAN : AnswerUnsaved(s, kind, prompted)
    BY <1>2 DEF HistoryNext
  <2>2. HistoryStepOK(s)
    <3>1. CASE \E c \in Chats : Receive(s, c)
      BY <1>1, <3>1, ReceiveOK
    <3>2. CASE \E c \in Chats : Block(s, c)
      BY <1>1, <3>2, BlockOK
    <3>3. CASE ToolRound(s)
      BY <1>1, <3>3, ToolRoundOK
    <3>4. CASE GetsAnswer(s)
      BY <1>1, <3>4, AnswerOK
    <3>5. CASE Fail(s)
      BY <1>1, <3>5, FailOK
    <3>6. CASE Forget(s)
      BY <1>1, <3>6, ForgetOK
    <3>7. CASE \E kind \in Kinds, prompted \in BOOLEAN : AnswerUnsaved(s, kind, prompted)
      BY <1>1, <3>7, AnswerUnsavedOK
    <3> QED
      BY <2>1, <3>1, <3>2, <3>3, <3>4, <3>5, <3>6, <3>7
  <2> QED
    BY <1>1, <2>2, OneSessionMoves DEF HistoryStepOK
<1>3. CASE UNCHANGED historyVars
  <2>1. /\ chatRows' = chatRows /\ recency' = recency /\ memory' = memory /\ saved' = saved
        /\ context' = context /\ rounds' = rounds /\ asked' = asked
    BY <1>3 DEF historyVars, store
  <2>2. Message' = Message /\ System' = System /\ Stored' = Stored /\ Turns' = Turns
        /\ \A r \in Sessions : Held(r)' = Held(r) /\ Busy(r)' = Busy(r)
    BY <2>1 DEF Message, Of, Roles, System, Said, Stored, Turns, Held, Busy
  <2>3. HistoryTypeOK' /\ Past'
    BY <1>1, <2>1, <2>2 DEF HistoryInv, HistoryTypeOK, Past
  <2>4. ASSUME NEW s \in Sessions PROVE SessionOK(s)'
    <3>1. SessionOK(s)
      BY <1>1 DEF HistoryInv
    <3>2. Turn(s)' = Turn(s)
      BY <2>1 DEF Turn, Turns
    <3>3. Question(s)' = Question(s) /\ Trim(memory[s])' = Trim(memory[s])
      BY <2>1, <3>2 DEF Question, Trim, System, Said
    <3>4. AtTurn(s)'
      BY <2>1, <3>1, <3>2, <3>3 DEF SessionOK, AtTurn, IsTurn, Turns, Busy, System, Said, Elements
    <3>5. ASSUME NEW m, Private(s, m) PROVE Private(s, m)'
      BY <2>1, <3>5, PrivateStays
    <3>6. OwnTurn(s)'
      <4>1. SUFFICES ASSUME Busy(s), NEW m \in Message, m.turn = Turn(s)
                     PROVE  Private(s, m)' /\ (m \in Elements(memory[s]) => m = Question(s))
        BY <2>1, <3>2, <3>3 DEF OwnTurn, Busy, Elements, Message, Of, Roles
      <4> QED
        BY <3>1, <3>5, <4>1 DEF SessionOK, OwnTurn
    <3>7. Counter(s)' /\ GoesOn(s)'
      BY <2>1, <3>1, <3>3 DEF SessionOK, Counter, GoesOn, Busy
    <3>8. BehindCounter(s)'
      <4>1. SUFFICES ASSUME saved[s] > 0
                     PROVE  /\ \A i \in saved[s] + 1 .. Len(memory[s]) : Private(s, memory[s][i])'
                            /\ \A i \in saved[s] + 1 .. Len(context[s]) : Private(s, context[s][i])'
        BY <2>1 DEF BehindCounter, Private, Stored, Held, Elements, System, Said
      <4>2. BehindCounter(s)
        BY <3>1 DEF SessionOK
      <4>3. ASSUME NEW i \in saved[s] + 1 .. Len(memory[s]) PROVE Private(s, memory[s][i])'
        <5>1. Private(s, memory[s][i])
          BY <4>1, <4>2, <4>3 DEF BehindCounter
        <5> QED
          BY <2>1, <5>1, PrivateStays DEF Private, Stored, Held, Elements, System, Said
      <4>4. ASSUME NEW i \in saved[s] + 1 .. Len(context[s]) PROVE Private(s, context[s][i])'
        <5>1. Private(s, context[s][i])
          BY <4>1, <4>2, <4>4 DEF BehindCounter
        <5> QED
          BY <2>1, <5>1, PrivateStays DEF Private, Stored, Held, Elements, System, Said
      <4> QED
        BY <4>3, <4>4
    <3> QED
      BY <3>4, <3>6, <3>7, <3>8 DEF SessionOK
  <2> QED
    BY <2>3, <2>4 DEF HistoryInv
<1> QED
  BY <1>1, <1>2, <1>3

\* A session's list, its counter and the rows stay what the code takes them for.
THEOREM HistoryTypeCorrect == HistorySpec => []HistoryTypeOK
<1>1. HistoryInv => HistoryTypeOK
  BY DEF HistoryInv
<1> QED
  BY <1>1, HistoryStarts, HistoryGoesOn, PTL DEF HistorySpec

\* The model is always shown the message it is to answer, whatever was loaded,
\* left over or cut away.
THEOREM TheModelSeesItsMessage == HistorySpec => []SeesItsMessage
<1>1. HistoryInv => SeesItsMessage
  BY DEF HistoryInv, SessionOK, AtTurn, SeesItsMessage, Question
<1> QED
  BY <1>1, HistoryStarts, HistoryGoesOn, PTL DEF HistorySpec

\* What an answer with list l appends to the rows of its chat: u.
Appends(s, l, u) ==
    /\ Busy(s) /\ asked' = asked /\ memory'[s] = l
    /\ chatRows[Chat(s)] \in Seq(Message)
    /\ chatRows'[Chat(s)] = chatRows[Chat(s)] \o u
    /\ LeftToSave(s, l, u)

LEMMA WhatIsAppended ==
    ASSUME HistoryInv, NEW s \in Sessions, GetsAnswer(s)
    PROVE  \E kind \in Kinds, prompted \in BOOLEAN :
              \E l, u : l = Ending(s, kind, prompted) /\ Appends(s, l, u)
<1>0. PICK kind \in Kinds, prompted \in BOOLEAN : Answer(s, kind, prompted)
  BY DEF GetsAnswer
<1>a. PICK l, u : l = Ending(s, kind, prompted) /\ u = Unsaved(s, l)
  OBVIOUS
<1>1. /\ Busy(s) /\ Conclude(s, l) /\ asked' = asked
      /\ u = <<>> => UNCHANGED store
      /\ u # <<>> => SaveMessages(Chat(s), u)
  BY <1>0, <1>a DEF Answer, Conclude
<1>2. HistoryTypeOK /\ saved[s] \in Nat /\ Chat(s) \in Chats /\ chatRows[Chat(s)] \in Seq(Message)
  BY <1>1, AtWork DEF HistoryInv, HistoryTypeOK
<1>3. l \in Seq(Message)
  BY <1>a, <1>1, EndingIs
<1>4. LeftToSave(s, l, u)
  BY <1>a, <1>2, <1>3, UnsavedIs
<1>5. u \in Seq(Message)
  BY <1>4 DEF LeftToSave
<1>6. chatRows'[Chat(s)] = chatRows[Chat(s)] \o u
  <2>1. CASE u = <<>>
    <3>1. chatRows' = chatRows
      BY <1>1, <2>1 DEF store
    <3>2. PICK q \in Seq(Message) : q = chatRows[Chat(s)]
      BY <1>2
    <3>3. q \o <<>> = q
      OBVIOUS
    <3> QED
      BY <2>1, <3>1, <3>2, <3>3
  <2>2. CASE u # <<>>
    BY <1>1, <1>2, <1>5, <2>2, SaveIs
  <2> QED
    BY <2>1, <2>2
<1>7. memory'[s] = l
  BY <1>1, <1>2 DEF Conclude, HistoryTypeOK
<1>8. Appends(s, l, u)
  BY <1>1, <1>2, <1>4, <1>6, <1>7 DEF Appends
<1> QED
  BY <1>a, <1>8, Zenon

LEMMA TurnIsStored ==
    ASSUME HistoryInv, NEW s \in Sessions, GetsAnswer(s),
           saved[s] = 0 \/ Trim(memory[s]) = memory[s]
    PROVE  TurnStored(s)
<1>1. PICK kind \in Kinds, prompted \in BOOLEAN :
         \E l, u : l = Ending(s, kind, prompted) /\ Appends(s, l, u)
  BY WhatIsAppended, Zenon
<1>a. PICK l, u : l = Ending(s, kind, prompted) /\ Appends(s, l, u)
  BY <1>1
<1>b. PICK x : x = context[s]
  OBVIOUS
<1>2. /\ chatRows'[Chat(s)] = chatRows[Chat(s)] \o u
      /\ chatRows[Chat(s)] \in Seq(Message) /\ u \in Seq(Message)
      /\ memory'[s] = l /\ Busy(s) /\ asked' = asked
      /\ \A i \in saved[s] + 1 .. Len(l) :
            saved[s] = 0 \/ l[i].role # "system" => l[i] \in Elements(u)
  BY <1>a DEF Appends, LeftToSave
<1>3. /\ l \in Seq(Message) /\ x \in Seq(Message) /\ Len(l) \in Nat /\ Len(x) \in Nat
      /\ Len(l) >= 2 /\ Len(l) > Len(x)
      /\ \A i \in 1 .. Len(x) : l[i] = x[i]
      /\ l[Len(l)].role # "system"
  BY <1>a, <1>b, <1>2, EndingIs
<1>4. PICK n \in Nat : n = saved[s]
  BY DEF HistoryInv, HistoryTypeOK
<1>5. AtTurn(s) /\ GoesOn(s)
  BY DEF HistoryInv, SessionOK
<1>6. Question(s).role # "system"
  BY DEF Question, Said
<1>7. \E i \in n + 1 .. Len(x) : x[i] = Question(s)
  <2>1. CASE n = 0
    <3>1. Question(s) \in Elements(x)
      BY <1>b, <1>2, <1>5 DEF AtTurn
    <3>2. PICK i \in 1 .. Len(x) : x[i] = Question(s)
      BY <1>3, <3>1, ElementsOf
    <3> QED
      BY <2>1, <3>2
  <2>2. CASE n # 0
    <3>1. PICK q : q = memory[s]
      OBVIOUS
    <3>2. n > 0 /\ Trim(memory[s]) = memory[s]
      BY <1>4, <2>2
    <3>3. /\ n < Len(q) /\ q[Len(q)] = Question(s)
          /\ \A i \in 1 .. Len(q) : i \in 1 .. Len(x) /\ x[i] = q[i]
      BY <1>b, <1>2, <1>4, <1>5, <3>1, <3>2 DEF GoesOn
    <3>4. q \in Seq(Message)
      BY <3>1 DEF HistoryInv, HistoryTypeOK
    <3>5. Len(q) \in 1 .. Len(q) /\ Len(q) \in n + 1 .. Len(q)
      BY <3>3, <3>4
    <3>6. Len(q) \in 1 .. Len(x) /\ x[Len(q)] = Question(s)
      BY <3>3, <3>5
    <3> QED
      BY <1>3, <3>5, <3>6
  <2> QED
    BY <2>1, <2>2
<1>8. PICK i \in n + 1 .. Len(x) : x[i] = Question(s)
  BY <1>7
<1>9. /\ i \in n + 1 .. Len(l) /\ l[i] = Question(s)
      /\ Len(l) \in n + 1 .. Len(l)
  <2>1. i \in 1 .. Len(x) /\ i \in n + 1 .. Len(l) /\ Len(l) \in n + 1 .. Len(l)
    BY <1>3, <1>8
  <2> QED
    BY <1>3, <1>8, <2>1
<1>10. Question(s) \in Elements(u) /\ l[Len(l)] \in Elements(u)
  <2>1. \A j \in n + 1 .. Len(l) : n = 0 \/ l[j].role # "system" => l[j] \in Elements(u)
    BY <1>2, <1>4
  <2>2. l[i] \in Elements(u)
    BY <1>6, <1>9, <2>1
  <2>3. l[Len(l)] \in Elements(u)
    BY <1>3, <1>9, <2>1
  <2> QED
    BY <1>9, <2>2, <2>3
<1>11. Elements(chatRows'[Chat(s)]) = Elements(chatRows[Chat(s)]) \cup Elements(u)
  <2>1. PICK q \in Seq(Message) : q = chatRows[Chat(s)]
    BY <1>2
  <2>2. u \in Seq(Message)
    BY <1>2
  <2>3. Elements(q \o u) = Elements(q) \cup Elements(u)
    BY <2>2, Joined, Zenon
  <2> QED
    BY <1>2, <2>1, <2>3
<1>12. {Question(s), l[Len(l)]} \subseteq Elements(chatRows'[Chat(s)])
  BY <1>10, <1>11
<1>13. {Question(s), memory'[s][Len(memory'[s])]} \subseteq Elements(chatRows'[Chat(s)])
  BY <1>2, <1>12
<1> QED
  BY <1>13 DEF TurnStored, Question

\* A turn is stored with question and answer as long as the history cleanup takes
\* nothing from a list that was saved before.
THEOREM TurnsAreStoredWhileTheyFit == HistorySpec => StoredWhileItFits
<1> DEFINE Fits == \A s \in Sessions :
                      GetsAnswer(s) /\ (saved[s] = 0 \/ Trim(memory[s]) = memory[s])
                         => TurnStored(s)
<1>1. HistoryInv /\ [HistoryNext]_historyVars => [Fits]_historyVars
  BY TurnIsStored
<1> HIDE DEF Fits
<1>2. HistoryInv /\ [HistoryNext]_historyVars => [Fits]_historyVars
  BY <1>1
<1>3. HistorySpec => [][Fits]_historyVars
  BY <1>2, HistoryStarts, HistoryGoesOn, PTL DEF HistorySpec
<1> QED
  BY <1>3 DEF StoredWhileItFits, Fits

LEMMA AppendedIsNew ==
    ASSUME HistoryInv, NEW s \in Sessions, GetsAnswer(s), saved[s] > 0
    PROVE  \A i \in Len(chatRows[Chat(s)]) + 1 .. Len(chatRows'[Chat(s)]) :
              \A c \in Chats : chatRows'[Chat(s)][i] \notin Elements(chatRows[c])
<1>1. PICK kind \in Kinds, prompted \in BOOLEAN :
         \E l, u : l = Ending(s, kind, prompted) /\ Appends(s, l, u)
  BY WhatIsAppended, Zenon
<1>a. PICK l, u : l = Ending(s, kind, prompted) /\ Appends(s, l, u)
  BY <1>1
<1>b. PICK x, d : x = context[s] /\ d = chatRows[Chat(s)]
  OBVIOUS
<1>2. /\ chatRows'[Chat(s)] = d \o u
      /\ d \in Seq(Message) /\ u \in Seq(Message) /\ Busy(s) /\ asked' = asked
      /\ \A m \in Elements(u) : \E j \in saved[s] + 1 .. Len(l) : m = l[j]
  BY <1>a, <1>b DEF Appends, LeftToSave
<1>3. /\ l \in Seq(Message) /\ x \in Seq(Message) /\ Len(l) \in Nat /\ Len(x) \in Nat
      /\ \A j \in 1 .. Len(x) : l[j] = x[j]
      /\ \A j \in Len(x) + 1 .. Len(l) : l[j] \in Message /\ l[j].turn = Turn(s)
  BY <1>a, <1>b, <1>2, EndingIs
<1>4. saved[s] \in Nat
  BY DEF HistoryInv, HistoryTypeOK
<1>c. SUFFICES ASSUME NEW i \in Len(chatRows[Chat(s)]) + 1 .. Len(chatRows'[Chat(s)]),
                      NEW c \in Chats
               PROVE  chatRows'[Chat(s)][i] \notin Elements(chatRows[c])
  OBVIOUS
<1>5. (d \o u)[i] \in Elements(u)
  <2>1. /\ Len(d \o u) = Len(d) + Len(u) /\ Len(d) \in Nat /\ Len(u) \in Nat
        /\ \A k \in 1 .. Len(u) : (d \o u)[Len(d) + k] = u[k]
    BY <1>2
  <2>2. i \in Len(d) + 1 .. Len(d) + Len(u)
    BY <1>b, <1>c, <1>2, <2>1
  <2>3. i - Len(d) \in 1 .. Len(u) /\ Len(d) + (i - Len(d)) = i
    BY <2>1, <2>2
  <2>4. (d \o u)[i] = u[i - Len(d)]
    BY <2>1, <2>3
  <2> QED
    BY <1>2, <2>3, <2>4, ElementsOf
<1>6. PICK j \in saved[s] + 1 .. Len(l) : (d \o u)[i] = l[j]
  BY <1>2, <1>5
<1>7. l[j] \notin Stored
  <2>1. CASE j \in 1 .. Len(x)
    <3>1. BehindCounter(s)
      BY DEF HistoryInv, SessionOK
    <3>2. Private(s, x[j])
      BY <1>b, <1>4, <2>1, <3>1 DEF BehindCounter
    <3> QED
      BY <1>3, <2>1, <3>2 DEF Private
  <2>2. CASE j \notin 1 .. Len(x)
    <3>1. j \in Len(x) + 1 .. Len(l)
      BY <1>3, <1>4, <2>2
    <3>2. l[j] \in Message /\ l[j].turn = Turn(s)
      BY <1>3, <3>1
    <3> QED
      BY <1>2, <3>2, OwnMessage DEF Private
  <2> QED
    BY <2>1, <2>2
<1> QED
  BY <1>2, <1>6, <1>7, StoredIs

\* A list that was saved before adds only messages that no chat has yet.
THEOREM OnlyNewIsAppended == HistorySpec => AppendsOnlyNew
<1> DEFINE NewOnly ==
      \A s \in Sessions :
          GetsAnswer(s) /\ saved[s] > 0
             => \A i \in Len(chatRows[Chat(s)]) + 1 .. Len(chatRows'[Chat(s)]) :
                   \A c \in Chats : chatRows'[Chat(s)][i] \notin Elements(chatRows[c])
<1>1. HistoryInv /\ [HistoryNext]_historyVars => [NewOnly]_historyVars
  BY AppendedIsNew
<1> HIDE DEF NewOnly
<1>2. HistoryInv /\ [HistoryNext]_historyVars => [NewOnly]_historyVars
  BY <1>1
<1>3. HistorySpec => [][NewOnly]_historyVars
  BY <1>2, HistoryStarts, HistoryGoesOn, PTL DEF HistorySpec
<1> QED
  BY <1>3 DEF AppendsOnlyNew, NewOnly
=============================================================================
