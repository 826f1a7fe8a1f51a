--------------------------- MODULE ModelFailover ---------------------------
(* The provider router (src/tical_code/core/model_failover.py): per-provider *)
(* circuit breakers, family blocks, the global fast-fail breaker, the cache  *)
(* of last healthy providers, and the phases of call() and call_stream() run *)
(* by several coroutines of one event loop.                                  *)
(*                                                                           *)
(* A caller runs from one suspension point to the next without interruption: *)
(* it suspends in a request, in the jitter sleep and in the sleep of phase   *)
(* 3.  `running` is the caller that holds the event loop while it selects    *)
(* its next provider; nobody else moves and no time passes meanwhile.        *)
(*                                                                           *)
(* Every timestamp is kept as the time left until it; 0 is "in the past".    *)
(* HealthState.HALF_OPEN is never assigned, so the is_probe branches of the  *)
(* code are unreachable and have no counterpart here.                        *)
EXTENDS Integers, Sequences, FiniteSets

CONSTANTS
    Callers,          \* concurrent calls of one ModelFailover
    Streamers,        \* the callers that use call_stream() as well as call()
    Listed,           \* the providers in configuration order
    Priority,         \* Provider.priority, lower is tried first
    Family,           \* _get_family of each provider
    Cooldowns,        \* COOLDOWN_* by error category; COOLDOWN_BASE_* if it backs off
    CooldownCap,      \* COOLDOWN_CAP
    DeadAfter,        \* MAX_CONSECUTIVE_FAILURES
    DeadCooldown,     \* DEAD_COOLDOWN
    FamilyDeadTime,   \* FAMILY_DEAD_TIME
    MinInterval,      \* MIN_INTERVAL_SECONDS
    BreakAfter,       \* CIRCUIT_BREAKER_THRESHOLD
    BreakTime,        \* CIRCUIT_BREAKER_COOLDOWN
    GlobalTimeout,    \* GLOBAL_CALL_TIMEOUT
    NapLimit          \* longest cooldown that phase 3 sits out, 3 seconds

Providers  == {Listed[i] : i \in DOMAIN Listed}
Families   == {Family[p] : p \in Providers}
Categories == {"rate_limit", "server", "timeout", "auth"}

NoProvider == "no provider"
NoFamily   == "any family"
Nobody     == "nobody"

ASSUME ConstantsAssumption ==
    /\ Streamers \subseteq Callers /\ Nobody \notin Callers
    /\ Listed \in Seq(Providers) /\ Listed # <<>>
    /\ \A i, j \in DOMAIN Listed : Listed[i] = Listed[j] => i = j
    /\ Priority \in [Providers -> Nat]
    /\ Cooldowns \in [Categories -> Nat \ {0}]
    /\ {CooldownCap, DeadAfter, DeadCooldown, BreakAfter, BreakTime} \subseteq Nat \ {0}
    /\ {FamilyDeadTime, MinInterval, GlobalTimeout, NapLimit} \subseteq Nat

VARIABLES
    health,         \* Provider.state
    cooldown,       \* Provider.cooldown_until, as time left
    failures,       \* Provider.consecutive_failures, up to DeadAfter
    gap,            \* what is left of MIN_INTERVAL_SECONDS since last_used
    lru,            \* the providers in the order of last_used
    familyDead,     \* _family_dead_until, as time left
    lastHealthy,    \* _last_healthy
    globalFailures, \* _global_consecutive_failures, up to BreakAfter
    broken,         \* _circuit_broken_until, as time left
    calls,          \* the locals of each call in progress
    running,        \* the caller that holds the event loop
    steady          \* history: providers usable ever since each call began

provider == <<health, cooldown, failures>>
breaker  == <<globalFailures, broken>>
vars == <<provider, gap, lru, familyDead, lastHealthy, breaker, calls, running, steady>>

Stages == {"idle", "fast", "family", "all", "fallback", "nap", "retry",
           "retryFallback", "stream"}
Loops  == {"family", "all", "stream"}             \* these select anew each time
Lists  == {"fallback", "retry", "retryFallback"}  \* these walk a list made once

\* stage: which loop the call is in; at: the provider a request is out to;
\* left: until the global timeout; rest: until the end of the nap;
\* sent: history, requests made by the call.
Idle == [stage |-> "idle", family |-> NoFamily, tried |-> {}, pool |-> <<>>,
         at |-> NoProvider, left |-> 0, rest |-> 0, sent |-> 0]

TypeOK ==
    /\ health \in [Providers -> {"healthy", "cooled_down"}]
    /\ cooldown \in [Providers -> Nat]
    /\ failures \in [Providers -> 0 .. DeadAfter]
    /\ gap \in [Providers -> 0 .. MinInterval]
    /\ lru \in Seq(Providers)
    /\ familyDead \in [Families -> 0 .. FamilyDeadTime]
    /\ lastHealthy \in [Families -> Providers \cup {NoProvider}]
    /\ globalFailures \in 0 .. BreakAfter /\ broken \in 0 .. BreakTime
    /\ running \in Callers \cup {Nobody}
    /\ steady \in [Callers -> SUBSET Providers]
    /\ calls \in [Callers -> [stage : Stages, family : Families \cup {NoFamily},
                              tried : SUBSET Providers, pool : Seq(Providers),
                              at : Providers \cup {NoProvider},
                              left : 0 .. GlobalTimeout, rest : 0 .. NapLimit,
                              sent : Nat]]

Init ==
    /\ health = [p \in Providers |-> "healthy"]
    /\ cooldown = [p \in Providers |-> 0]
    /\ failures = [p \in Providers |-> 0]
    /\ gap = [p \in Providers |-> 0]
    /\ lru = Listed
    /\ familyDead = [f \in Families |-> 0]
    /\ lastHealthy = [f \in Families |-> NoProvider]
    /\ globalFailures = 0
    /\ broken = 0
    /\ calls = [c \in Callers |-> Idle]
    /\ running = Nobody
    /\ steady = [c \in Callers |-> {}]

-----------------------------------------------------------------------------
Least(m, n) == IF m <= n THEN m ELSE n

\* Faults: the plausible slips the checks must notice.
KeepFailures(p) == failures
KeepBroken      == globalFailures' = 0 /\ broken' = broken
DeadLast(category, n) ==
    CASE category \in {"auth", "timeout"} -> Cooldowns[category]
      [] n >= DeadAfter -> DeadCooldown
      [] OTHER -> Least(Cooldowns[category] * 2 ^ (n - 1), CooldownCap)
Untried(c, p)   == [calls[c] EXCEPT !.at = p, !.sent = @ + 1]

Less(t) == IF t > 0 THEN t - 1 ELSE 0

(***************************************************************************)
(* Health                                                                  *)
(***************************************************************************)

\* The cooldown after the n-th failure in a row.
Penalty(category, n) ==
    CASE n >= DeadAfter       -> DeadCooldown
      [] n < DeadAfter /\ category \in {"auth", "timeout"} -> Cooldowns[category]
      [] OTHER -> Least(Cooldowns[category] * 2 ^ (n - 1), CooldownCap)

\* An authentication failure also blocks the family, unless the provider dies of it.
TransitionHealth(p, category) ==
    LET n == Least(failures[p] + 1, DeadAfter) IN
    /\ failures' = [failures EXCEPT ![p] = n]
    /\ cooldown' = [cooldown EXCEPT ![p] = Penalty(category, n)]
    /\ health' = [health EXCEPT ![p] = "cooled_down"]
    /\ familyDead' = IF category = "auth" /\ n < DeadAfter
                       THEN [familyDead EXCEPT ![Family[p]] = FamilyDeadTime]
                       ELSE familyDead

Forgiven(p) == [failures EXCEPT ![p] = 0]

CloseBreaker == globalFailures' = 0 /\ broken' = 0

MarkSuccess(p) ==
    /\ health' = [health EXCEPT ![p] = "healthy"]
    /\ failures' = Forgiven(p)
    /\ cooldown' = [cooldown EXCEPT ![p] = 0]
    /\ CloseBreaker
    /\ lastHealthy' = [lastHealthy EXCEPT ![Family[p]] = p]

Place(p) == CHOOSE i \in DOMAIN lru : lru[i] = p

\* last_used = time.time(): the provider is now the most recently used one.
MarkUsed(p) ==
    /\ gap' = [gap EXCEPT ![p] = MinInterval]
    /\ lru' = Append(SubSeq(lru, 1, Place(p) - 1) \o SubSeq(lru, Place(p) + 1, Len(lru)), p)

(***************************************************************************)
(* Selection                                                               *)
(***************************************************************************)

\* provider_registry.py derives is_fallback from the priority.
IsFallback(p) == Priority[p] >= 10

\* MIN_INTERVAL_SECONDS binds primaries, and only where there are two of them.
Spaced(p) ==
    \/ gap[p] = 0
    \/ IsFallback(p)
    \/ Cardinality({q \in Providers : ~IsFallback(q)}) <= 1

Usable == {p \in Providers : cooldown[p] = 0 /\ familyDead[Family[p]] = 0}

Available(fallbackToo, family, bypassInterval) ==
    {p \in Usable : /\ IsFallback(p) => fallbackToo
                    /\ family \in {Family[p], NoFamily}
                    /\ bypassInterval \/ Spaced(p)}

Before(p, q) ==
    \/ Priority[p] < Priority[q]
    \/ Priority[p] = Priority[q] /\ Place(p) < Place(q)

Sorted(S) == CHOOSE s \in [1 .. Cardinality(S) -> S] :
                \A i, j \in DOMAIN s : i < j => Before(s[i], s[j])

\* What the loop of caller c selects from.
Pool(c) ==
    LET k == calls[c]
    IN  (CASE k.stage = "family" -> Available(TRUE, k.family, FALSE)
           [] k.stage = "all"    -> Available(FALSE, NoFamily, FALSE)
           [] k.stage = "stream" -> Available(k.family = NoFamily, k.family, FALSE)) \ k.tried

\* (fault: the fallbacks are left out)
PrimaryList(c, bypassInterval) ==
    Sorted(Available(FALSE, NoFamily, bypassInterval) \ calls[c].tried)

FallbackList(c, bypassInterval) ==
    Sorted(Available(TRUE, NoFamily, bypassInterval) \ calls[c].tried)
RetryList(c) == Sorted(Available(FALSE, NoFamily, TRUE) \ calls[c].tried)

(***************************************************************************)
(* Callers                                                                 *)
(***************************************************************************)

Late(c) == calls[c].stage \in {"family", "stream"} /\ calls[c].left = 0

Soonest == CHOOSE t \in {cooldown[p] : p \in Providers} :
                \A p \in Providers : t <= cooldown[p]

\* Phase 3 retries when somebody is untried and the first cooldown is about over.
WorthANap(c) == Soonest <= NapLimit /\ calls[c].tried # Providers

Trying(c, p) == [calls[c] EXCEPT !.at = p, !.tried = @ \cup {p}, !.sent = @ + 1]

\* The request to p goes out and the caller suspends.
Attempt(c, p, rest) ==
    /\ calls' = [calls EXCEPT ![c] = [Trying(c, p) EXCEPT !.pool = rest]]
    /\ running' = Nobody
    /\ UNCHANGED <<provider, gap, lru, familyDead, lastHealthy, breaker>>

\* The later phases look at neither the preferred family nor the clock again.
Goto(c, stage, pool) ==
    /\ calls' = [calls EXCEPT ![c].stage = stage, ![c].pool = pool,
                              ![c].family = NoFamily, ![c].left = 0]
    /\ UNCHANGED <<provider, gap, lru, familyDead, lastHealthy, breaker>>

Begin(c, f, stage) ==
    /\ running = Nobody
    /\ calls[c].stage = "idle"
    /\ broken = 0
    /\ calls' = [calls EXCEPT ![c] = [Idle EXCEPT !.stage = stage, !.family = f,
                                                  !.left = GlobalTimeout]]
    /\ running' = c
    /\ UNCHANGED <<provider, gap, lru, familyDead, lastHealthy, breaker>>

\* The cached provider of the family is tried first; family blocks are not consulted.
FastPath(f) ==
    /\ f # NoFamily
    /\ lastHealthy[f] # NoProvider
    /\ health[lastHealthy[f]] = "healthy"
    /\ gap[lastHealthy[f]] = 0

Call(c, f) ==
    IF FastPath(f)
      THEN /\ running = Nobody /\ calls[c].stage = "idle" /\ broken = 0
           /\ calls' = [calls EXCEPT ![c] =
                  [Idle EXCEPT !.stage = "fast", !.family = f, !.left = GlobalTimeout,
                               !.at = lastHealthy[f], !.sent = 1]]
           /\ UNCHANGED <<provider, gap, lru, familyDead, lastHealthy, breaker, running>>
      ELSE Begin(c, f, "family")

CallStream(c, f) == Begin(c, f, "stream")

\* The loops of phase 1, phase 1b and call_stream.
TryNext(c) ==
    /\ running = c /\ calls[c].stage \in Loops /\ ~Late(c)
    /\ Pool(c) # {}
    /\ Attempt(c, Sorted(Pool(c))[1], <<>>)

\* The for loops of phases 2 and 3 walk the list they started with.
TryListed(c) ==
    /\ running = c /\ calls[c].stage \in Lists
    /\ calls[c].pool # <<>>
    /\ Attempt(c, Head(calls[c].pool), Tail(calls[c].pool))

\* (fault: the loops of phase 1 go on when nobody is left)
WidenOnce(c) ==
    /\ running = c /\ calls[c].stage \in Loops /\ ~Late(c)
    /\ Pool(c) = {}
    /\ running' = c
    /\ calls[c].stage = "family" /\ calls[c].family # NoFamily /\ Goto(c, "all", <<>>)

\* A loop found nobody.
Widen(c) ==
    /\ running = c /\ calls[c].stage \in Loops /\ ~Late(c)
    /\ Pool(c) = {}
    /\ running' = c
    /\ \/ calls[c].stage = "family" /\ calls[c].family # NoFamily /\ Goto(c, "all", <<>>)
       \/ /\ \/ calls[c].stage = "family" /\ calls[c].family = NoFamily
             \/ calls[c].stage = "all"
          /\ Goto(c, "fallback", FallbackList(c, FALSE))
       \/ /\ calls[c].stage = "stream" /\ calls[c].family # NoFamily
          /\ calls' = [calls EXCEPT ![c].family = NoFamily]
          /\ UNCHANGED <<provider, gap, lru, familyDead, lastHealthy, breaker>>

\* Phase 3, from the end of phase 2 to its two lists.
Nap(c) ==
    /\ running = c /\ calls[c].stage = "fallback" /\ calls[c].pool = <<>>
    /\ WorthANap(c)
    /\ calls' = [calls EXCEPT ![c].stage = "nap", ![c].rest = Soonest]
    /\ running' = Nobody
    /\ UNCHANGED <<provider, gap, lru, familyDead, lastHealthy, breaker>>

WakeFromNap(c) ==
    /\ running = Nobody /\ calls[c].stage = "nap" /\ calls[c].rest = 0
    /\ running' = c
    /\ Goto(c, "retry", RetryList(c))

RetryFallback(c) ==
    /\ running = c /\ calls[c].stage = "retry" /\ calls[c].pool = <<>>
    /\ running' = c
    /\ Goto(c, "retryFallback", FallbackList(c, TRUE))

Exhausted(c) ==
    \/ calls[c].stage = "fallback" /\ calls[c].pool = <<>> /\ ~WorthANap(c)
    \/ calls[c].stage = "retryFallback" /\ calls[c].pool = <<>>
    \/ calls[c].stage = "stream" /\ calls[c].family = NoFamily /\ Pool(c) = {}

\* Out of time or of providers: count it, and trip the breaker at the threshold.
GiveUp(c) ==
    /\ running = c
    /\ Late(c) \/ Exhausted(c)
    /\ globalFailures' = Least(globalFailures + 1, BreakAfter)
    /\ broken' = IF globalFailures + 1 >= BreakAfter THEN BreakTime ELSE broken
    /\ calls' = [calls EXCEPT ![c] = Idle]
    /\ running' = Nobody
    /\ UNCHANGED <<provider, gap, lru, familyDead, lastHealthy>>

(***************************************************************************)
(* Answers                                                                 *)
(***************************************************************************)

\* The provider answers; a streamed answer leaves last_used alone.
Succeed(c) ==
    /\ running = Nobody /\ calls[c].at # NoProvider
    /\ MarkSuccess(calls[c].at)
    /\ IF calls[c].stage = "stream" THEN UNCHANGED <<gap, lru>> ELSE MarkUsed(calls[c].at)
    /\ calls' = [calls EXCEPT ![c] = Idle]
    /\ UNCHANGED <<familyDead, running>>

\* A recoverable error.  The fast path drops its cache entry and goes on with
\* phase 1, phase 3 goes on with its list, the others sleep first.
Fail(c, category) ==
    /\ running = Nobody /\ calls[c].at # NoProvider
    /\ TransitionHealth(calls[c].at, category)
    /\ lastHealthy' = IF calls[c].stage = "fast"
                        THEN [lastHealthy EXCEPT ![calls[c].family] = NoProvider]
                        ELSE lastHealthy
    /\ calls' = [calls EXCEPT ![c].at = NoProvider,
                              ![c].stage = IF @ = "fast" THEN "family" ELSE @]
    /\ running' = IF calls[c].stage \in {"fast", "retry", "retryFallback"} THEN c ELSE Nobody
    /\ UNCHANGED <<gap, lru, breaker>>

WakeFromJitter(c) ==
    /\ running = Nobody /\ calls[c].at = NoProvider
    /\ calls[c].stage \in Loops \cup {"fallback"}
    /\ running' = c
    /\ UNCHANGED <<provider, gap, lru, familyDead, lastHealthy, breaker, calls>>

\* A permanent error or a malformed answer, or the caller is cancelled.
Leave(c) ==
    /\ running = Nobody /\ calls[c].stage # "idle"
    /\ calls' = [calls EXCEPT ![c] = Idle]
    /\ UNCHANGED <<provider, gap, lru, familyDead, lastHealthy, breaker, running>>

Tick ==
    /\ running = Nobody
    /\ cooldown' = [p \in Providers |-> Less(cooldown[p])]
    /\ gap' = [p \in Providers |-> Less(gap[p])]
    /\ familyDead' = [f \in Families |-> Less(familyDead[f])]
    /\ broken' = Less(broken)
    /\ calls' = [c \in Callers |-> [calls[c] EXCEPT !.left = Less(@), !.rest = Less(@)]]
    /\ UNCHANGED <<health, failures, lru, lastHealthy, globalFailures, running>>

-----------------------------------------------------------------------------
Respond(c) == Succeed(c) \/ \E category \in Categories : Fail(c, category)
Select(c)  == TryNext(c) \/ TryListed(c) \/ Widen(c) \/ Nap(c) \/ RetryFallback(c) \/ GiveUp(c)
Wake(c)    == WakeFromNap(c) \/ WakeFromJitter(c)

Step ==
    \/ Tick
    \/ \E c \in Callers :
          \/ \E f \in Families \cup {NoFamily} :
                Call(c, f) \/ (c \in Streamers /\ CallStream(c, f))
          \/ Respond(c) \/ Leave(c) \/ Select(c) \/ Wake(c)

\* The history: who has been usable from the start of the call until now.
Next ==
    /\ Step
    /\ steady' = [c \in Callers |->
          CASE calls'[c].stage = "idle" -> {}
            [] calls'[c].stage # "idle" /\ calls[c].stage = "idle" -> Usable'
            [] OTHER -> steady[c] \cap Usable']

Spec == Init /\ [][Next]_vars

\* The caller that holds the event loop goes on.  The loop serves ready callbacks
\* first come first served, so whoever is ready again and again between the turns
\* of others gets its own: sleepers, requests that end by their HTTP timeout at
\* the latest, and the clock.  Nobody has to make a call or to cancel one.
Fairness ==
    /\ SF_vars(Tick /\ Next)
    /\ WF_vars((\E c \in Callers : Select(c)) /\ Next)
    /\ \A c \in Callers : SF_vars((Wake(c) \/ Respond(c)) /\ Next)

LiveSpec == Spec /\ Fairness

-----------------------------------------------------------------------------
(***************************************************************************)
(* Properties                                                              *)
(***************************************************************************)

\* The state, the failure count and the cooldown of a provider tell one story,
\* whatever order late answers of several callers arrive in: healthy means that
\* nothing is held against it (_mark_success), cooled down that something is.
HealthAgrees ==
    \A p \in Providers : IF health[p] = "healthy" THEN failures[p] = 0 /\ cooldown[p] = 0
                                                  ELSE failures[p] > 0

\* The global breaker is only open while the calls in a row that failed justify
\* it: one success of anybody closes it (_mark_success).
BreakerAgrees == broken > 0 => globalFailures >= BreakAfter

\* One call() bothers each provider at most once, plus once on the fast path,
\* through all phases and retries ("prevent infinite retry loop").
OneRequestEach == \A c \in Callers : calls[c].sent <= Cardinality(Providers) + 1

\* A provider that dies of its failures in a row stays out for DEAD_COOLDOWN:
\* answers that arrive late can end that only with a success.
DeadStaysDead ==
    [][\A p \in Providers :
          failures[p] >= DeadAfter /\ health'[p] = "cooled_down"
             => cooldown'[p] >= Less(cooldown[p])]_vars

\* call() never reports that all providers are exhausted while one it has not
\* tried was usable all the time, whatever was cached or listed in between.
NoUsableLeftOut ==
    [][\A c \in Callers :
          running = c /\ calls'[c].stage = "idle" /\ calls[c].stage \in Lists
             => steady[c] \subseteq calls[c].tried]_vars

\* Every call returns.
EveryCallReturns == \A c \in Callers : calls[c].stage # "idle" ~> calls[c].stage = "idle"
=============================================================================
