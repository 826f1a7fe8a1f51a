--------------------------- MODULE SessionHistory ---------------------------
(* What a conversation remembers: the list session["messages"] and the       *)
(* counter session["last_saved_len"] that AsyncWorker keeps with a session   *)
(* (unified_worker.py, both ends of _process_message), and the rows in the   *)
(* SQLite store behind them (modules/session_manager.py).                    *)
(*                                                                           *)
(* A session is named after source and sender, the rows of the store after   *)
(* source and chat: a session may serve several chats (every Telegram user   *)
(* is called "user") and a chat several sessions, as Routes says.  Within a  *)
(* session messages are processed one at a time (AsyncSessions).             *)
(*                                                                           *)
(* A message is known by its role and the turn it belongs to.  A "fenced"    *)
(* answer is one that the history cleanup throws out: six code fences, or a  *)
(* long style sheet.                                                         *)
EXTENDS Integers, Sequences, FiniteSets

CONSTANTS
    Sessions, Chats,
    Routes,      \* which session a message of which chat can go to
    Keep,        \* messages left of the history before a call, 12
    LoadLimit,   \* rows read back, 30
    MaxActive,   \* SessionManager.max_active, chats with rows, 100
    MaxRounds,   \* MAX_TOOL_ITERATIONS
    StoreFails,  \* whether the store may refuse to write
    MaxTurns     \* bound: messages that are ever processed

ASSUME HistoryAssumption ==
    /\ Routes \subseteq Sessions \X Chats
    /\ {Keep, LoadLimit, MaxActive} \subseteq Nat \ {0}
    /\ MaxRounds \in Nat /\ MaxTurns \in Nat /\ StoreFails \in BOOLEAN

VARIABLES
    chatRows,  \* table messages, by chat
    recency,   \* table sessions: chats with rows, in the order of updated_at
    memory,    \* session["messages"], empty when there is none
    saved,     \* session["last_saved_len"], 0 when there is none
    context,   \* local `messages' of _process_message, empty when it does not run
    rounds,    \* tool_iterations
    asked      \* history: the session and the chat of every turn

store == <<chatRows, recency>>
historyVars == <<store, memory, saved, context, rounds, asked>>

Roles == {"system", "user", "calls", "result", "prompt", "plain", "fenced"}
Said(role, t) == [role |-> role, turn |-> t]
System  == Said("system", 0)
Of(roles) == [role : roles, turn : 0 .. MaxTurns]
Message == Of(Roles)

Elements(q)  == {q[i] : i \in DOMAIN q}
Latest(q, n) == IF Len(q) <= n THEN q ELSE SubSeq(q, Len(q) - n + 1, Len(q))

\* A list without the elements of a set.
Without(q, out) ==
    LET kept[i \in 0 .. Len(q)] == IF i = 0 THEN <<>>
                                   ELSE IF q[i] \in out THEN kept[i - 1]
                                   ELSE Append(kept[i - 1], q[i])
    IN  kept[Len(q)]

\* Turns are numbered in the order they begin.
Turns == DOMAIN asked
Turn(s) == CHOOSE t \in Turns : /\ asked[t].session = s
                                /\ \A u \in Turns : asked[u].session = s => u <= t
Chat(s) == asked[Turn(s)].chat
Busy(s) == context[s] # <<>>

HistoryTypeOK ==
    /\ chatRows \in [Chats -> Seq(Message)]
    /\ recency \in Seq(Chats) /\ Len(recency) <= MaxActive
    /\ memory \in [Sessions -> Seq(Message)]
    /\ saved \in [Sessions -> Nat]
    /\ context \in [Sessions -> Seq(Message)]
    /\ rounds \in [Sessions -> 0 .. MaxRounds]
    /\ asked \in Seq([session : Sessions, chat : Chats]) /\ Len(asked) <= MaxTurns

HistoryInit ==
    /\ chatRows = [c \in Chats |-> <<>>]
    /\ recency = <<>>
    /\ memory = [s \in Sessions |-> <<>>]
    /\ saved = [s \in Sessions |-> 0]
    /\ context = [s \in Sessions |-> <<>>]
    /\ rounds = [s \in Sessions |-> 0]
    /\ asked = <<>>

-----------------------------------------------------------------------------
(* The store *)

\* load_session(): the newest rows, without the system prompts among them.  The
\* results of tool calls are always saved with the calls, so that no call needs
\* a placeholder for its result.
LoadSession(c) == Without(Latest(chatRows[c], LoadLimit), Of({"system"}))

\* _enforce_active_limit(): the chats that were not written for longest go to the
\* archive, which nothing reads.
Active(order) == Latest(order, MaxActive)

SaveMessages(c, new) ==
    LET active == Active(Append(Without(recency, {c}), c))
    IN  /\ recency' = active
        /\ chatRows' = [d \in Chats |-> IF d = c THEN chatRows[c] \o new
                                        ELSE IF d \in Elements(active) THEN chatRows[d]
                                        ELSE <<>>]

-----------------------------------------------------------------------------
(* _process_message *)

\* Faults: the first messages are kept, the counter misses the question or runs ahead.
Earliest(list) ==
    LET clean == Without(Tail(list), Of({"fenced"}))
    IN  <<System>> \o SubSeq(clean, 1, IF Len(clean) < Keep THEN Len(clean) ELSE Keep)
CountLate(list)  == Len(list) - 1
CountAhead(list) == Len(list) + 1

\* History cleanup: the answers that would spoil the context go, then all but the
\* last messages; the system prompt stays.
Trim(list) ==
    <<System>> \o Latest(Without(Tail(list), Of({"fenced"})), Keep)

\* The list a message meets.  It belongs to the session unless the session had
\* none and the store gives none either.
Before(s, c) == IF memory[s] # <<>> THEN memory[s] ELSE <<System>> \o LoadSession(c)
Attach(s, c, list) ==
    memory' = [memory EXCEPT ![s] = IF Before(s, c) = <<System>> THEN @ ELSE list]

\* The question is appended to that very list, the history cleanup makes a new one.
Receive(s, c) ==
    LET t == Len(asked) + 1
        list == Append(Before(s, c), Said("user", t))
    IN  /\ <<s, c>> \in Routes /\ ~Busy(s)
        /\ t <= MaxTurns
        /\ asked' = Append(asked, [session |-> s, chat |-> c])
        /\ Attach(s, c, list)
        /\ context' = [context EXCEPT ![s] = Trim(list)]
        /\ UNCHANGED <<store, saved, rounds>>

\* Vigil blocks the message after the history has been loaded.
Block(s, c) ==
    /\ <<s, c>> \in Routes /\ ~Busy(s)
    /\ Attach(s, c, Before(s, c))
    /\ UNCHANGED <<store, saved, context, rounds, asked>>

\* The model calls a tool and sees its result; several calls of one round are one.
ToolRound(s) ==
    /\ Busy(s) /\ rounds[s] < MaxRounds
    /\ rounds' = [rounds EXCEPT ![s] = @ + 1]
    /\ context' = [context EXCEPT ![s] = @ \o <<Said("calls", Turn(s)), Said("result", Turn(s))>>]
    /\ UNCHANGED <<store, memory, saved, asked>>

Idle(s) ==
    /\ context' = [context EXCEPT ![s] = <<>>]
    /\ rounds' = [rounds EXCEPT ![s] = 0]

\* The list at the end of a turn: an answer, after a prompt for it when tools ran,
\* or were preempted before they did, and the model said nothing.
Ending(s, kind, prompted) ==
    context[s] \o (IF prompted THEN <<Said("prompt", Turn(s))>> ELSE <<>>)
               \o <<Said(kind, Turn(s))>>

\* What the counter says has not been saved.
Unsaved(s, list) ==
    Without(SubSeq(list, saved[s] + 1, Len(list)),
            IF saved[s] = 0 THEN {} ELSE Of({"system"}))

LastSavedLen(list) == Len(list)

Conclude(s, list) ==
    /\ memory' = [memory EXCEPT ![s] = list]
    /\ saved' = [saved EXCEPT ![s] = LastSavedLen(list)]
    /\ Idle(s)
    /\ UNCHANGED asked

Answer(s, kind, prompted) ==
    LET list == Ending(s, kind, prompted)
    IN  /\ Busy(s) /\ (prompted => MaxRounds > 0)
        /\ IF Unsaved(s, list) = <<>> THEN UNCHANGED store
           ELSE SaveMessages(Chat(s), Unsaved(s, list))
        /\ Conclude(s, list)

\* save_messages() fails, returns FALSE, and nobody looks.
AnswerUnsaved(s, kind, prompted) ==
    /\ StoreFails
    /\ Busy(s) /\ (prompted => MaxRounds > 0)
    /\ Conclude(s, Ending(s, kind, prompted))
    /\ UNCHANGED store

\* An exception or the hard timeout: what the turn added to its own list is lost,
\* the question stays where it was appended.
Fail(s) ==
    /\ Busy(s)
    /\ Idle(s)
    /\ UNCHANGED <<store, memory, saved, asked>>

\* The session's entry goes, with a turn in progress or without: idle exit,
\* expiry, eviction, kill or restart of the worker.
Forget(s) ==
    /\ memory[s] # <<>> \/ Busy(s)
    /\ memory' = [memory EXCEPT ![s] = <<>>]
    /\ saved' = [saved EXCEPT ![s] = 0]
    /\ Idle(s)
    /\ UNCHANGED <<store, asked>>

-----------------------------------------------------------------------------
Kinds == {"plain", "fenced"}

GetsAnswer(s) == \E kind \in Kinds, prompted \in BOOLEAN : Answer(s, kind, prompted)

HistoryNext ==
    \E s \in Sessions :
        \/ \E c \in Chats : Receive(s, c) \/ Block(s, c)
        \/ ToolRound(s) \/ GetsAnswer(s) \/ Fail(s) \/ Forget(s)
        \/ \E kind \in Kinds, prompted \in BOOLEAN : AnswerUnsaved(s, kind, prompted)

HistorySpec == HistoryInit /\ [][HistoryNext]_historyVars

-----------------------------------------------------------------------------
(* Properties *)

\* The model is always shown the message it is to answer, after the system
\* prompt and within the limit, whatever was loaded, left over or cut away.
SeesItsMessage ==
    \A s \in Sessions : Busy(s) =>
        /\ context[s][1] = System
        /\ Said("user", Turn(s)) \in Elements(context[s])
        /\ Len(context[s]) <= 1 + Keep + 2 * rounds[s]

TurnStored(s) ==
    {Said("user", Turn(s)), memory'[s][Len(memory'[s])]} \subseteq Elements(chatRows'[Chat(s)])

\* A turn is stored as a whole, question and answer, as long as the history
\* cleanup takes nothing from a list that was saved before, whatever failed,
\* was reloaded or belongs to another chat.
StoredWhileItFits ==
    [][\A s \in Sessions :
          GetsAnswer(s) /\ (saved[s] = 0 \/ Trim(memory[s]) = memory[s])
             => TurnStored(s)]_historyVars

\* A list that was saved before adds only messages that are not yet stored
\* anywhere ("only append new turns"), also when it has been cut since.
AppendsOnlyNew ==
    [][\A s \in Sessions :
          GetsAnswer(s) /\ saved[s] > 0
             => \A i \in Len(chatRows[Chat(s)]) + 1 .. Len(chatRows'[Chat(s)]) :
                   \A c \in Chats : chatRows'[Chat(s)][i] \notin Elements(chatRows[c])]_historyVars

\* What a comment in the code says and the code does not do.

\* "Persist to SQLite for cross-restart memory": a turn that gets an answer is
\* stored, question and answer, also where the history is long.
EveryTurnStored == [][\A s \in Sessions : GetsAnswer(s) => TurnStored(s)]_historyVars
=============================================================================
