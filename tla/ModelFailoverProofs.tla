------------------------ MODULE ModelFailoverProofs ------------------------
(* Proofs that the health fields of a provider and the two fields of the     *)
(* global breaker always agree, that a dead provider stays out, that a call  *)
(* asks each provider once and that it leaves out none that is usable, for   *)
(* any number of callers and providers and any setting of the timers.        *)
EXTENDS ModelFailover, FiniteSetTheorems, TLAPS

(***************************************************************************)
(* The inductive invariant.  HealthAgrees and BreakerAgrees are the         *)
(* properties themselves.  The rest is what they rest on: the functions are *)
(* total, the counters stay in range, and a dead provider was never given   *)
(* more than DEAD_COOLDOWN, so that giving it DEAD_COOLDOWN again is never  *)
(* an improvement.  The locals of the calls play no part: whatever caller   *)
(* gets whatever answer at whatever time, the fields agree.                 *)
(***************************************************************************)
Fields ==
    /\ health \in [Providers -> {"healthy", "cooled_down"}]
    /\ DOMAIN cooldown = Providers
    /\ failures \in [Providers -> 0 .. DeadAfter]
    /\ globalFailures \in 0 .. BreakAfter
    /\ broken \in 0 .. BreakTime

DeadWithinLimit ==
    \A p \in Providers : failures[p] >= DeadAfter => cooldown[p] \in 0 .. DeadCooldown

Inv == Fields /\ HealthAgrees /\ BreakerAgrees /\ DeadWithinLimit

-----------------------------------------------------------------------------
(***************************************************************************)
(* What a step does to the health of the providers and to the breaker.      *)
(***************************************************************************)

\* The n-th failure in a row, if it kills the provider, costs DEAD_COOLDOWN.
LEMMA DeathPenalty ==
    ASSUME NEW category, NEW n \in Nat, n >= DeadAfter
    PROVE  Penalty(category, n) = DeadCooldown
<1>1. DeadAfter \in Nat /\ ~(n < DeadAfter)
  BY ConstantsAssumption
<1> QED
  BY <1>1 DEF Penalty

\* A failed request is noted so that the fields of its provider agree.
LEMMA FailureKeepsHealth ==
    ASSUME Inv, NEW q, NEW category, TransitionHealth(q, category)
    PROVE  /\ health' \in [Providers -> {"healthy", "cooled_down"}]
           /\ DOMAIN cooldown' = Providers
           /\ failures' \in [Providers -> 0 .. DeadAfter]
           /\ HealthAgrees' /\ DeadWithinLimit'
           /\ \A p \in Providers :
                 failures[p] >= DeadAfter => cooldown'[p] >= Less(cooldown[p])
<1> DEFINE n == Least(failures[q] + 1, DeadAfter)
<1>1. /\ failures' = [failures EXCEPT ![q] = n]
      /\ cooldown' = [cooldown EXCEPT ![q] = Penalty(category, n)]
      /\ health' = [health EXCEPT ![q] = "cooled_down"]
  BY DEF TransitionHealth
<1>2. DeadAfter \in Nat \ {0} /\ DeadCooldown \in Nat
  BY ConstantsAssumption
<1>3. /\ health \in [Providers -> {"healthy", "cooled_down"}]
      /\ DOMAIN cooldown = Providers
      /\ failures \in [Providers -> 0 .. DeadAfter]
  BY DEF Inv, Fields
<1>4. q \in Providers => n \in 1 .. DeadAfter /\ (failures[q] >= DeadAfter => n = DeadAfter)
  BY <1>2, <1>3 DEF Least
<1>5. q \in Providers /\ n >= DeadAfter => Penalty(category, n) = DeadCooldown
  BY <1>2, <1>4, DeathPenalty
<1> HIDE DEF n
<1>6. /\ health' \in [Providers -> {"healthy", "cooled_down"}]
      /\ DOMAIN cooldown' = Providers
      /\ failures' \in [Providers -> 0 .. DeadAfter]
  <2>1. CASE q \in Providers
    BY <1>1, <1>2, <1>3, <1>4, <2>1
  <2>2. CASE q \notin Providers
    <3>1. health' = health /\ failures' = failures /\ DOMAIN cooldown' = DOMAIN cooldown
      BY <1>1, <1>3, <2>2
    <3> QED
      BY <1>3, <3>1
  <2> QED
    BY <2>1, <2>2
<1>7. ASSUME NEW p \in Providers
      PROVE  /\ IF health'[p] = "healthy" THEN failures'[p] = 0 /\ cooldown'[p] = 0
                                          ELSE failures'[p] > 0
             /\ failures'[p] >= DeadAfter => cooldown'[p] \in 0 .. DeadCooldown
             /\ failures[p] >= DeadAfter => cooldown'[p] >= Less(cooldown[p])
  <2>1. CASE p = q
    <3>1. health'[p] = "cooled_down" /\ failures'[p] = n /\ cooldown'[p] = Penalty(category, n)
      BY <1>1, <1>3, <2>1
    <3>2. failures[p] >= DeadAfter => cooldown[p] \in 0 .. DeadCooldown
      BY DEF Inv, DeadWithinLimit
    <3>3. failures'[p] > 0 /\ (failures'[p] >= DeadAfter => cooldown'[p] = DeadCooldown)
      BY <1>2, <1>4, <1>5, <2>1, <3>1
    <3>4. failures[p] >= DeadAfter => cooldown'[p] = DeadCooldown
      BY <1>2, <1>4, <1>5, <2>1, <3>1
    <3>5. failures[p] >= DeadAfter => cooldown'[p] >= Less(cooldown[p])
      BY <1>2, <3>2, <3>4 DEF Less
    <3> QED
      BY <1>2, <3>1, <3>3, <3>5
  <2>2. CASE p # q
    <3>1. health'[p] = health[p] /\ failures'[p] = failures[p] /\ cooldown'[p] = cooldown[p]
      BY <1>1, <1>3, <2>2
    <3>2. /\ IF health[p] = "healthy" THEN failures[p] = 0 /\ cooldown[p] = 0
                                      ELSE failures[p] > 0
          /\ failures[p] >= DeadAfter => cooldown[p] \in 0 .. DeadCooldown
      BY DEF Inv, HealthAgrees, DeadWithinLimit
    <3>3. failures[p] >= DeadAfter => cooldown[p] >= Less(cooldown[p])
      BY <1>2, <3>2 DEF Less
    <3> QED
      BY <3>1, <3>2, <3>3
  <2> QED
    BY <2>1, <2>2
<1> QED
  BY <1>6, <1>7 DEF HealthAgrees, DeadWithinLimit

\* A success clears its provider and closes the breaker.
LEMMA SuccessKeepsInv ==
    ASSUME Inv, NEW q, MarkSuccess(q)
    PROVE  Inv' /\ \A p \in Providers :
                      failures[p] >= DeadAfter /\ health'[p] = "cooled_down"
                         => cooldown'[p] >= Less(cooldown[p])
<1>1. /\ health' = [health EXCEPT ![q] = "healthy"]
      /\ failures' = [failures EXCEPT ![q] = 0]
      /\ cooldown' = [cooldown EXCEPT ![q] = 0]
      /\ globalFailures' = 0 /\ broken' = 0
  BY DEF MarkSuccess, Forgiven, CloseBreaker
<1>2. DeadAfter \in Nat \ {0} /\ DeadCooldown \in Nat /\ BreakAfter \in Nat /\ BreakTime \in Nat
  BY ConstantsAssumption
<1>3. /\ health \in [Providers -> {"healthy", "cooled_down"}]
      /\ DOMAIN cooldown = Providers
      /\ failures \in [Providers -> 0 .. DeadAfter]
  BY DEF Inv, Fields
<1>4. Fields' /\ BreakerAgrees'
  <2>1. health' \in [Providers -> {"healthy", "cooled_down"}]
    BY <1>1, <1>3
  <2>2. failures' \in [Providers -> 0 .. DeadAfter]
    <3>1. 0 \in 0 .. DeadAfter
      BY <1>2
    <3> QED
      BY <1>1, <1>3, <3>1
  <2>3. DOMAIN cooldown' = Providers
    BY <1>1, <1>3
  <2> QED
    BY <1>1, <1>2, <2>1, <2>2, <2>3 DEF Fields, BreakerAgrees
<1>5. ASSUME NEW p \in Providers
      PROVE  /\ IF health'[p] = "healthy" THEN failures'[p] = 0 /\ cooldown'[p] = 0
                                          ELSE failures'[p] > 0
             /\ failures'[p] >= DeadAfter => cooldown'[p] \in 0 .. DeadCooldown
             /\ failures[p] >= DeadAfter /\ health'[p] = "cooled_down"
                   => cooldown'[p] >= Less(cooldown[p])
  <2>1. CASE p = q
    BY <1>1, <1>2, <1>3, <2>1
  <2>2. CASE p # q
    <3>1. health'[p] = health[p] /\ failures'[p] = failures[p] /\ cooldown'[p] = cooldown[p]
      BY <1>1, <1>3, <2>2
    <3>2. /\ IF health[p] = "healthy" THEN failures[p] = 0 /\ cooldown[p] = 0
                                      ELSE failures[p] > 0
          /\ failures[p] >= DeadAfter => cooldown[p] \in 0 .. DeadCooldown
      BY DEF Inv, HealthAgrees, DeadWithinLimit
    <3>3. failures[p] >= DeadAfter => cooldown[p] >= Less(cooldown[p])
      BY <1>2, <3>2 DEF Less
    <3> QED
      BY <3>1, <3>2, <3>3
  <2> QED
    BY <2>1, <2>2
<1> QED
  BY <1>4, <1>5 DEF Inv, HealthAgrees, DeadWithinLimit

\* Where a step leaves the providers alone, a dead one is no better off.
LEMMA DeadAsTheyWere ==
    ASSUME Inv, cooldown' = cooldown
    PROVE  \A p \in Providers : failures[p] >= DeadAfter => cooldown'[p] >= Less(cooldown[p])
<1>1. DeadCooldown \in Nat
  BY ConstantsAssumption
<1> QED
  BY <1>1 DEF Inv, DeadWithinLimit, Less

-----------------------------------------------------------------------------
(***************************************************************************)
(* The steps                                                                *)
(***************************************************************************)

DeadStays ==
    \A p \in Providers :
       failures[p] >= DeadAfter /\ health'[p] = "cooled_down"
          => cooldown'[p] >= Less(cooldown[p])

\* Whatever the step, the invariant survives it and the dead stay dead.
LEMMA StepKeepsInv ==
    ASSUME Inv, Step
    PROVE  Inv' /\ DeadStays
<1>0. /\ DeadAfter \in Nat \ {0} /\ DeadCooldown \in Nat
      /\ BreakAfter \in Nat \ {0} /\ BreakTime \in Nat \ {0}
  BY ConstantsAssumption
<1>1. ASSUME UNCHANGED provider, UNCHANGED breaker
      PROVE  Inv' /\ DeadStays
  BY <1>1, DeadAsTheyWere
     DEF Inv, Fields, HealthAgrees, BreakerAgrees, DeadWithinLimit, DeadStays, provider, breaker
<1>2. CASE Tick
  <2>1. /\ cooldown' = [p \in Providers |-> Less(cooldown[p])] /\ broken' = Less(broken)
        /\ UNCHANGED <<health, failures, globalFailures>>
    BY <1>2 DEF Tick
  <2>2. Fields' /\ BreakerAgrees'
    BY <1>0, <2>1 DEF Inv, Fields, BreakerAgrees, Less
  <2>3. ASSUME NEW p \in Providers
        PROVE  /\ IF health'[p] = "healthy" THEN failures'[p] = 0 /\ cooldown'[p] = 0
                                            ELSE failures'[p] > 0
               /\ failures'[p] >= DeadAfter => cooldown'[p] \in 0 .. DeadCooldown
               /\ failures[p] >= DeadAfter => cooldown'[p] >= Less(cooldown[p])
    <3>1. health'[p] = health[p] /\ failures'[p] = failures[p] /\ cooldown'[p] = Less(cooldown[p])
      BY <2>1
    <3>2. /\ IF health[p] = "healthy" THEN failures[p] = 0 /\ cooldown[p] = 0
                                      ELSE failures[p] > 0
          /\ failures[p] >= DeadAfter => cooldown[p] \in 0 .. DeadCooldown
      BY DEF Inv, HealthAgrees, DeadWithinLimit
    <3> QED
      BY <1>0, <3>1, <3>2 DEF Less
  <2> QED
    BY <2>2, <2>3 DEF Inv, HealthAgrees, DeadWithinLimit, DeadStays
<1>3. ASSUME NEW c \in Callers, Succeed(c)
      PROVE  Inv' /\ DeadStays
  BY <1>3, SuccessKeepsInv DEF Succeed, DeadStays
<1>4. ASSUME NEW c \in Callers, NEW category \in Categories, Fail(c, category)
      PROVE  Inv' /\ DeadStays
  <2>1. TransitionHealth(calls[c].at, category) /\ UNCHANGED breaker
    BY <1>4 DEF Fail
  <2>2. BreakerAgrees' /\ globalFailures' \in 0 .. BreakAfter /\ broken' \in 0 .. BreakTime
    BY <2>1 DEF Inv, Fields, BreakerAgrees, breaker
  <2> QED
    BY <2>1, <2>2, FailureKeepsHealth DEF Inv, Fields, DeadStays
<1>5. ASSUME NEW c \in Callers, GiveUp(c)
      PROVE  Inv' /\ DeadStays
  <2>1. /\ globalFailures' = Least(globalFailures + 1, BreakAfter)
        /\ broken' = IF globalFailures + 1 >= BreakAfter THEN BreakTime ELSE broken
        /\ UNCHANGED <<health, cooldown, failures>>
    BY <1>5 DEF GiveUp, provider
  <2>2. globalFailures \in 0 .. BreakAfter /\ broken \in 0 .. BreakTime
    BY DEF Inv, Fields
  <2>3. globalFailures' \in 0 .. BreakAfter /\ broken' \in 0 .. BreakTime /\ BreakerAgrees'
    BY <1>0, <2>1, <2>2 DEF Inv, BreakerAgrees, Least
  <2> QED
    BY <2>1, <2>3, DeadAsTheyWere
       DEF Inv, Fields, HealthAgrees, DeadWithinLimit, DeadStays
<1>6. ASSUME NEW c \in Callers, NEW f, Call(c, f) \/ CallStream(c, f)
      PROVE  Inv' /\ DeadStays
  BY <1>1, <1>6 DEF Call, CallStream, Begin
<1>7. ASSUME NEW c \in Callers, Leave(c) \/ Wake(c)
      PROVE  Inv' /\ DeadStays
  BY <1>1, <1>7 DEF Leave, Wake, WakeFromNap, WakeFromJitter, Goto
<1>8. ASSUME NEW c \in Callers, Select(c)
      PROVE  Inv' /\ DeadStays
  <2>1. CASE TryNext(c) \/ TryListed(c)
    BY <1>1, <2>1 DEF TryNext, TryListed, Attempt
  <2>2. CASE Widen(c)
    BY <1>1, <2>2 DEF Widen, Goto
  <2>3. CASE Nap(c) \/ RetryFallback(c)
    BY <1>1, <2>3 DEF Nap, RetryFallback, Goto
  <2> QED
    BY <1>5, <1>8, <2>1, <2>2, <2>3 DEF Select
<1> QED
  BY <1>2, <1>3, <1>4, <1>6, <1>7, <1>8 DEF Step, Respond

LEMMA InitInv == ASSUME Init PROVE Inv
<1>1. /\ DeadAfter \in Nat \ {0} /\ BreakAfter \in Nat \ {0} /\ BreakTime \in Nat
  BY ConstantsAssumption
<1> QED
  BY <1>1 DEF Init, Inv, Fields, HealthAgrees, BreakerAgrees, DeadWithinLimit

LEMMA NextInv == ASSUME Inv, [Next]_vars PROVE Inv'
<1>1. CASE Next
  BY <1>1, StepKeepsInv DEF Next
<1>2. CASE UNCHANGED vars
  BY <1>2 DEF vars, provider, breaker, Inv, Fields, HealthAgrees, BreakerAgrees, DeadWithinLimit
<1> QED
  BY <1>1, <1>2

LEMMA Invariance == Spec => []Inv
  BY InitInv, NextInv, PTL DEF Spec

-----------------------------------------------------------------------------
(***************************************************************************)
(* The theorems                                                             *)
(***************************************************************************)

\* The state, the count of failures and the cooldown of a provider (_mark_success,
\* _transition_health) always tell one story, whatever order answers arrive in.
THEOREM HealthIsOneStory == Spec => []HealthAgrees
<1>1. Inv => HealthAgrees
  BY DEF Inv
<1> QED
  BY <1>1, Invariance, PTL

\* The global breaker is open only while enough calls in a row have failed.
THEOREM BreakerHasCause == Spec => []BreakerAgrees
<1>1. Inv => BreakerAgrees
  BY DEF Inv
<1> QED
  BY <1>1, Invariance, PTL

\* After MAX_CONSECUTIVE_FAILURES nothing but a success shortens DEAD_COOLDOWN.
THEOREM DeadProvidersStayDead == Spec => DeadStaysDead
<1>1. ASSUME Inv, [Next]_vars
      PROVE  [DeadStays]_vars
  <2>1. CASE Next
    BY <1>1, <2>1, StepKeepsInv DEF Next
  <2> QED
    BY <1>1, <2>1
<1>2. [DeadStays]_vars <=>
        [\A p \in Providers :
            failures[p] >= DeadAfter /\ health'[p] = "cooled_down"
               => cooldown'[p] >= Less(cooldown[p])]_vars
  BY DEF DeadStays
<1> QED
  BY <1>1, <1>2, Invariance, PTL DEF Spec, DeadStaysDead

-----------------------------------------------------------------------------
(***************************************************************************)
(* The order of the providers.  _available() sorts by priority and by the   *)
(* time of the last use: that this is an order, so that Sorted(S) is a list  *)
(* of all of S and the loops take their next provider from S, rests on every *)
(* provider having its place in lru.                                         *)
(***************************************************************************)

\* Numbers have a least one.
LEMMA LeastNumber ==
    ASSUME NEW T, T \subseteq Nat, T # {}
    PROVE  \E n \in T : \A m \in T : n <= m
<1>1. \E n \in T : \A m \in T : ~(<<m, n>> \in OpToRel(<, Nat))
  BY NatLessThanWellFounded, WFMin, Zenon
<1>2. \E n \in T : \A m \in T : ~(m < n)
  BY <1>1, Zenon DEF OpToRel
<1> QED
  BY <1>2

LEMMA ProvidersAreFinite ==
    /\ IsFiniteSet(Providers) /\ Providers # {}
    /\ Cardinality(Providers) \in Nat
<1>1. Listed \in Seq(Providers) /\ Listed # <<>>
  BY ConstantsAssumption
<1>2. /\ Len(Listed) \in Nat /\ DOMAIN Listed = 1 .. Len(Listed) /\ Len(Listed) # 0
      /\ Listed \in [1 .. Len(Listed) -> Providers]
  BY <1>1
<1>3. \A p \in Providers : \E i \in 1 .. Len(Listed) : Listed[i] = p
  BY <1>2 DEF Providers
<1>4. Listed \in Surjection(1 .. Len(Listed), Providers)
  BY <1>2, <1>3, Zenon DEF Surjection
<1>5. IsFiniteSet(1 .. Len(Listed))
  BY <1>2, FS_Interval
<1>6. IsFiniteSet(Providers)
  BY <1>4, <1>5, FS_Surjection, Zenon
<1>7. Listed[1] \in Providers
  BY <1>2
<1> QED
  BY <1>6, <1>7, FS_CardinalityType

\* Every provider has its place in the order of last_used.
EveryPlace ==
    /\ lru \in Seq(Providers)
    /\ \A p \in Providers : \E i \in DOMAIN lru : lru[i] = p

LEMMA PlaceOf ==
    ASSUME EveryPlace, NEW p \in Providers
    PROVE  Place(p) \in 1 .. Len(lru) /\ Place(p) \in Nat /\ lru[Place(p)] = p
<1>1. Place(p) \in DOMAIN lru /\ lru[Place(p)] = p
  BY DEF EveryPlace, Place
<1>2. DOMAIN lru = 1 .. Len(lru) /\ Len(lru) \in Nat
  BY DEF EveryPlace
<1> QED
  BY <1>1, <1>2

\* Of providers that may be chosen one comes before all others.
LEMMA FirstExists ==
    ASSUME EveryPlace, NEW S, S \subseteq Providers, S # {}
    PROVE  \E p \in S : \A q \in S \ {p} : Before(p, q)
<1> DEFINE Priorities == {Priority[p] : p \in S}
<1>1. \A p \in S : Priority[p] \in Nat /\ Place(p) \in Nat /\ lru[Place(p)] = p
  BY PlaceOf, ConstantsAssumption
<1>2. PICK p0 \in S : \A q \in S : Priority[p0] <= Priority[q]
  <2>1. Priorities \subseteq Nat /\ Priorities # {}
    BY <1>1
  <2>2. \E n \in Priorities : \A m \in Priorities : n <= m
    <3> HIDE DEF Priorities
    <3> QED
      BY <2>1, LeastNumber
  <2> QED
    BY <2>2
<1> DEFINE Firsts == {p \in S : Priority[p] = Priority[p0]}
           Places == {Place(p) : p \in Firsts}
<1>3. PICK p1 \in Firsts : \A q \in Firsts : Place(p1) <= Place(q)
  <2>1. Places \subseteq Nat /\ Places # {}
    BY <1>1
  <2>2. \E n \in Places : \A m \in Places : n <= m
    <3> HIDE DEF Places
    <3> QED
      BY <2>1, LeastNumber
  <2> QED
    BY <2>2
<1>4. ASSUME NEW q \in S \ {p1} PROVE Before(p1, q)
  <2>1. Place(p1) # Place(q)
    BY <1>1, <1>3
  <2>2. CASE Priority[q] = Priority[p0]
    BY <1>1, <1>3, <2>1, <2>2 DEF Before
  <2>3. CASE Priority[q] # Priority[p0]
    BY <1>1, <1>2, <1>3, <2>3 DEF Before
  <2> QED
    BY <2>2, <2>3
<1> QED
  BY <1>3, <1>4

\* A list of all of S in the order of the providers.
InOrder(s, S) ==
    /\ s \in [1 .. Cardinality(S) -> S]
    /\ \A i, j \in DOMAIN s : i < j => Before(s[i], s[j])

\* Providers can be listed in their order: a set that cannot be would have a smaller
\* one that cannot be either.
LEMMA OrderExists ==
    ASSUME EveryPlace, NEW S, S \subseteq Providers
    PROVE  \E s : InOrder(s, S)
<1> DEFINE Bad(T) == T \subseteq Providers /\ ~\E s : InOrder(s, T)
           BadSizes == {Cardinality(T) : T \in {U \in SUBSET Providers : Bad(U)}}
<1>1. SUFFICES ASSUME Bad(S) PROVE FALSE
  BY Zenon
<1>2. \A T \in SUBSET Providers : IsFiniteSet(T) /\ Cardinality(T) \in Nat
  BY ProvidersAreFinite, FS_Subset, FS_CardinalityType
<1>3. PICK T \in SUBSET Providers :
         Bad(T) /\ \A U \in SUBSET Providers : Bad(U) => Cardinality(T) <= Cardinality(U)
  <2> HIDE DEF Bad
  <2>1. BadSizes \subseteq Nat /\ BadSizes # {}
    BY <1>1, <1>2
  <2>2. \E n \in BadSizes : \A m \in BadSizes : n <= m
    <3> HIDE DEF BadSizes
    <3> QED
      BY <2>1, LeastNumber
  <2> QED
    BY <2>2
<1>4. T # {}
  <2>1. ASSUME T = {} PROVE InOrder(<<>>, T)
    <3>1. Cardinality(T) = 0
      BY <2>1, FS_EmptySet
    <3> QED
      BY <3>1 DEF InOrder
  <2> QED
    BY <1>3, <2>1
<1>5. PICK f \in T : \A q \in T \ {f} : Before(f, q)
  BY <1>4, FirstExists
<1> DEFINE U == T \ {f}
           n == Cardinality(U)
<1>6. Cardinality(T) = n + 1 /\ n \in Nat
  BY <1>2, <1>5, FS_RemoveElement
<1>7. PICK s : InOrder(s, U)
  <2>1. U \in SUBSET Providers /\ ~(Cardinality(T) <= Cardinality(U))
    BY <1>6
  <2>2. ~Bad(U)
    <3> HIDE DEF Bad, U
    <3> QED
      BY <1>3, <2>1
  <2> QED
    BY <2>1, <2>2
<1> DEFINE t == [i \in 1 .. (n + 1) |-> IF i = 1 THEN f ELSE s[i - 1]]
<1> HIDE DEF n
<1>8. s \in [1 .. n -> U] /\ \A i, j \in 1 .. n : i < j => Before(s[i], s[j])
  BY <1>7 DEF InOrder, n
<1>9. t \in [1 .. (n + 1) -> T]
  BY <1>5, <1>6, <1>8
<1>10. ASSUME NEW i \in 1 .. (n + 1), NEW j \in 1 .. (n + 1), i < j
       PROVE  Before(t[i], t[j])
  <2>1. j - 1 \in 1 .. n /\ t[j] = s[j - 1]
    BY <1>6, <1>10
  <2>2. CASE i = 1
    <3>1. s[j - 1] \in T \ {f} /\ t[i] = f
      BY <1>8, <2>1, <2>2
    <3> QED
      BY <1>5, <2>1, <3>1
  <2>3. CASE i # 1
    <3>1. i - 1 \in 1 .. n /\ t[i] = s[i - 1] /\ i - 1 < j - 1
      BY <1>6, <1>10, <2>3
    <3> QED
      BY <1>8, <2>1, <3>1
  <2> QED
    BY <2>2, <2>3
<1>11. InOrder(t, T)
  <2>1. DOMAIN t = 1 .. Cardinality(T)
    BY <1>6
  <2> HIDE DEF t
  <2> QED
    BY <1>6, <1>9, <1>10, <2>1 DEF InOrder
<1> QED
  BY <1>3, <1>11
Entries(s) == {s[i] : i \in DOMAIN s}
NoneTwice(s) == \A i, j \in DOMAIN s : s[i] = s[j] => i = j

\* Before is irreflexive, so that a list in its order names nobody twice.
LEMMA OrderedOnce ==
    ASSUME EveryPlace, NEW S, S \subseteq Providers, NEW s, InOrder(s, S)
    PROVE  NoneTwice(s)
<1>1. Cardinality(S) \in Nat
  BY ProvidersAreFinite, FS_Subset, FS_CardinalityType
<1>2. DOMAIN s = 1 .. Cardinality(S) /\ \A i \in DOMAIN s : s[i] \in Providers
  BY DEF InOrder
<1>3. \A p \in Providers : ~Before(p, p)
  BY PlaceOf, ConstantsAssumption DEF Before
<1>4. ASSUME NEW i \in DOMAIN s, NEW j \in DOMAIN s, i < j PROVE s[i] # s[j]
  BY <1>2, <1>3, <1>4 DEF InOrder
<1>5. \A i, j \in DOMAIN s : i = j \/ i < j \/ j < i
  BY <1>1, <1>2
<1> QED
  BY <1>4, <1>5 DEF NoneTwice

\* The list of _available() has all that are available, and each of them once.
LEMMA SortedLists ==
    ASSUME EveryPlace, NEW S, S \subseteq Providers
    PROVE  /\ Sorted(S) \in Seq(Providers) /\ NoneTwice(Sorted(S))
           /\ Entries(Sorted(S)) = S
           /\ S # {} => Sorted(S)[1] \in S
<1>1. IsFiniteSet(S) /\ Cardinality(S) \in Nat
  BY ProvidersAreFinite, FS_Subset, FS_CardinalityType
<1>2. InOrder(Sorted(S), S)
  <2>1. \E s : InOrder(s, S)
    BY OrderExists
  <2>2. \E s \in [1 .. Cardinality(S) -> S] : \A i, j \in DOMAIN s : i < j => Before(s[i], s[j])
    BY <2>1 DEF InOrder
  <2> QED
    BY <2>2, Zenon DEF Sorted, InOrder
<1> DEFINE s == Sorted(S)
           n == Cardinality(S)
<1> HIDE DEF s, n
<1>3. s \in [1 .. n -> S] /\ n \in Nat /\ NoneTwice(s)
  BY <1>1, <1>2, OrderedOnce DEF s, n, InOrder
<1>4. s \in Injection(1 .. n, S)
  BY <1>3, Zenon DEF NoneTwice, Injection, IsInjective
<1>5. Cardinality(1 .. n) = n /\ n = Cardinality(S)
  BY <1>1, <1>3, FS_Interval DEF n
<1>6. s \in Surjection(1 .. n, S)
  BY <1>1, <1>4, <1>5, FS_Injection, Zenon
<1>7. \A p \in S : \E i \in 1 .. n : s[i] = p
  BY <1>6, Zenon DEF Surjection
<1>8. Entries(s) = S
  BY <1>3, <1>7 DEF Entries
<1>9. s \in Seq(Providers)
  BY <1>3
<1>10. S # {} => s[1] \in S
  <2>1. S # {} => n # 0
    BY <1>1, FS_EmptySet DEF n
  <2> QED
    BY <1>3, <2>1
<1> QED
  BY <1>3, <1>8, <1>9, <1>10 DEF s

\* The provider that was used goes to the end, the others keep their places.
LEMMA UsedGoesLast ==
    ASSUME EveryPlace, NEW p \in Providers, MarkUsed(p)
    PROVE  EveryPlace'
<1> DEFINE k == Place(p)
           n == Len(lru)
           front == SubSeq(lru, 1, k - 1)
           back == SubSeq(lru, k + 1, n)
<1>1. lru' = Append(front \o back, p)
  BY DEF MarkUsed
<1>2. lru \in Seq(Providers) /\ DOMAIN lru = 1 .. n
  BY DEF EveryPlace
<1>3. n \in Nat /\ k \in 1 .. n /\ lru[k] = p
  BY <1>2, PlaceOf
<1> HIDE DEF k, n
<1>4. /\ front \in Seq(Providers) /\ Len(front) = k - 1
      /\ \A i \in 1 .. (k - 1) : front[i] = lru[i]
  BY <1>2, <1>3 DEF n
<1>5. /\ back \in Seq(Providers) /\ Len(back) = n - k
      /\ \A i \in 1 .. (n - k) : back[i] = lru[k + i]
  <2>1. k + 1 \in 1 .. (n + 1) /\ \A i \in (k + 1) .. n : lru[i] \in Providers
    BY <1>2, <1>3
  <2>2. back \in Seq(Providers)
    BY <1>2, <1>3, <2>1
  <2>3. Len(back) = n - k
    BY <1>2, <1>3, <2>1
  <2>4. ASSUME NEW i \in 1 .. (n - k) PROVE back[i] = lru[k + i]
    <3>1. back[i] = lru[(k + 1) + i - 1]
      BY <1>2, <1>3, <2>1
    <3> QED
      BY <1>3, <3>1
  <2> QED
    BY <2>2, <2>3, <2>4
<1> HIDE DEF front, back
<1>6. /\ front \o back \in Seq(Providers) /\ Len(front \o back) = n - 1
      /\ \A i \in 1 .. (k - 1) : (front \o back)[i] = lru[i]
      /\ \A i \in k .. (n - 1) : (front \o back)[i] = lru[i + 1]
  <2>1. front \o back \in Seq(Providers) /\ Len(front \o back) = n - 1
    BY <1>3, <1>4, <1>5
  <2>2. ASSUME NEW i \in 1 .. (k - 1) PROVE (front \o back)[i] = lru[i]
    BY <1>3, <1>4, <1>5
  <2>3. ASSUME NEW i \in k .. (n - 1) PROVE (front \o back)[i] = lru[i + 1]
    <3>1. (front \o back)[i] = back[i - (k - 1)] /\ i - (k - 1) \in 1 .. (n - k)
      BY <1>3, <1>4, <1>5
    <3> QED
      BY <1>3, <1>5, <3>1
  <2> QED
    BY <2>1, <2>2, <2>3
<1> DEFINE rest == front \o back
<1>7. PICK r : r = rest
  OBVIOUS
<1>8. /\ r \in Seq(Providers) /\ Len(r) = n - 1
      /\ \A i \in 1 .. (k - 1) : r[i] = lru[i]
      /\ \A i \in k .. (n - 1) : r[i] = lru[i + 1]
      /\ lru' = Append(r, p)
  BY <1>1, <1>6, <1>7
<1>9. /\ lru' \in Seq(Providers) /\ DOMAIN lru' = 1 .. n /\ lru'[n] = p
      /\ \A i \in 1 .. (n - 1) : lru'[i] = r[i]
  BY <1>3, <1>8
<1>10. ASSUME NEW q \in Providers PROVE \E i \in DOMAIN lru' : lru'[i] = q
  <2>1. PICK i \in 1 .. n : lru[i] = q
    BY <1>2 DEF EveryPlace
  <2>2. CASE i < k
    <3>1. i \in 1 .. (k - 1) /\ i \in 1 .. (n - 1)
      BY <1>3, <2>2
    <3> QED
      BY <1>3, <1>8, <1>9, <2>1, <3>1
  <2>3. CASE i = k
    BY <1>3, <1>9, <2>1, <2>3
  <2>4. CASE i > k
    <3>1. i - 1 \in k .. (n - 1) /\ i - 1 \in 1 .. (n - 1) /\ (i - 1) + 1 = i
      BY <1>3, <2>4
    <3>2. lru'[i - 1] = q
      BY <1>8, <1>9, <2>1, <3>1
    <3> QED
      BY <1>3, <1>9, <3>1, <3>2
  <2> QED
    BY <1>3, <2>2, <2>3, <2>4
<1> QED
  BY <1>9, <1>10 DEF EveryPlace

\* Two to a natural power is a number: so many subsets have the first n numbers.
LEMMA PowersOfTwo == ASSUME NEW n \in Nat PROVE 2 ^ n \in Nat
<1>1. IsFiniteSet(1 .. n) /\ Cardinality(1 .. n) = n
  BY FS_Interval
<1>2. IsFiniteSet(SUBSET (1 .. n)) /\ Cardinality(SUBSET (1 .. n)) = 2 ^ Cardinality(1 .. n)
  BY <1>1, FS_SUBSET
<1> QED
  BY <1>1, <1>2, FS_CardinalityType

\* However many failures there were, the cooldown is a time.
LEMMA PenaltyIsATime ==
    ASSUME NEW category \in Categories, NEW n \in Nat \ {0}
    PROVE  Penalty(category, n) \in Nat
<1>1. /\ Cooldowns[category] \in Nat /\ CooldownCap \in Nat /\ DeadCooldown \in Nat
      /\ DeadAfter \in Nat
  BY ConstantsAssumption
<1>2. Cooldowns[category] * 2 ^ (n - 1) \in Nat
  <2>1. n - 1 \in Nat
    OBVIOUS
  <2>2. 2 ^ (n - 1) \in Nat
    BY <2>1, PowersOfTwo
  <2> QED
    BY <1>1, <2>2
<1>3. Least(Cooldowns[category] * 2 ^ (n - 1), CooldownCap) \in Nat
  BY <1>1, <1>2 DEF Least
<1> QED
  BY <1>1, <1>3 DEF Penalty

\* Soonest is the cooldown that is over first.
LEMMA SoonestIsLeast ==
    ASSUME cooldown \in [Providers -> Nat]
    PROVE  Soonest \in Nat /\ \A p \in Providers : Soonest <= cooldown[p]
<1> DEFINE Times == {cooldown[p] : p \in Providers}
<1>1. Times \subseteq Nat /\ Times # {}
  BY ProvidersAreFinite
<1>2. \E t \in Times : \A m \in Times : t <= m
  <2> HIDE DEF Times
  <2> QED
    BY <1>1, LeastNumber
<1>3. \E t \in Times : \A p \in Providers : t <= cooldown[p]
  BY <1>2
<1>4. Soonest \in Times /\ \A p \in Providers : Soonest <= cooldown[p]
  <2>1. Soonest = CHOOSE t \in Times : \A p \in Providers : t <= cooldown[p]
    BY DEF Soonest
  <2> HIDE DEF Times
  <2> QED
    BY <1>3, <2>1, Zenon
<1> QED
  BY <1>1, <1>4
-----------------------------------------------------------------------------
(***************************************************************************)
(* The invariant of the calls.  A call has made at most one request more    *)
(* than it has tried providers, the one of the fast path, because what it    *)
(* has still before it is untried and named once.  What was usable all along *)
(* is usable, and the last list of phase 3 has named all of it.              *)
(***************************************************************************)
CallRecords ==
    [stage : Stages, family : Families \cup {NoFamily}, tried : SUBSET Providers,
     pool : Seq(Providers), at : Providers \cup {NoProvider}, left : 0 .. GlobalTimeout,
     rest : 0 .. NapLimit, sent : Nat]

RouterTypes ==
    /\ health \in [Providers -> {"healthy", "cooled_down"}]
    /\ cooldown \in [Providers -> Nat]
    /\ failures \in [Providers -> 0 .. DeadAfter]
    /\ gap \in [Providers -> 0 .. MinInterval]
    /\ familyDead \in [Families -> 0 .. FamilyDeadTime]
    /\ lastHealthy \in [Families -> Providers \cup {NoProvider}]
    /\ globalFailures \in 0 .. BreakAfter /\ broken \in 0 .. BreakTime
    /\ running \in Callers \cup {Nobody}

CallOK(k) ==
    /\ k \in CallRecords
    /\ k.sent <= Cardinality(k.tried) + 1
    /\ Entries(k.pool) \cap k.tried = {} /\ NoneTwice(k.pool)

Named(k) == k.tried \cup Entries(k.pool)

EachCall ==
    /\ DOMAIN calls = Callers /\ calls = [c \in Callers |-> calls[c]]
    /\ \A c \in Callers : CallOK(calls[c])

SteadyIsUsable == steady \in [Callers -> SUBSET Providers] /\ \A c \in Callers : steady[c] \subseteq Usable

LastListNamesAll ==
    \A c \in Callers : calls[c].stage = "retryFallback" => steady[c] \subseteq Named(calls[c])

CallInv == RouterTypes /\ EveryPlace /\ EachCall /\ SteadyIsUsable /\ LastListNamesAll

\* What a step does to the last list of a call: it names what it did, or all that
\* is usable.
KeepsNaming(d) ==
    calls'[d].stage = "retryFallback" =>
        \/ calls[d].stage = "retryFallback" /\ Named(calls[d]) \subseteq Named(calls'[d])
        \/ Usable' \subseteq Named(calls'[d])

CallsMove == EachCall' /\ \A d \in Callers : KeepsNaming(d)

LEMMA TimersAreNumbers ==
    /\ DeadAfter \in Nat \ {0} /\ BreakAfter \in Nat \ {0} /\ BreakTime \in Nat
    /\ FamilyDeadTime \in Nat /\ MinInterval \in Nat /\ GlobalTimeout \in Nat
    /\ NapLimit \in Nat /\ DeadCooldown \in Nat
BY ConstantsAssumption

\* One call moves, the others do not.
LEMMA OneCallMoves ==
    ASSUME CallInv, NEW c \in Callers, NEW k, CallOK(k), calls' = [calls EXCEPT ![c] = k],
           k.stage = "retryFallback" =>
               \/ calls[c].stage = "retryFallback" /\ Named(calls[c]) \subseteq Named(k)
               \/ Usable' \subseteq Named(k)
    PROVE  CallsMove
<1>1. DOMAIN calls = Callers /\ \A d \in Callers : CallOK(calls[d])
  BY DEF CallInv, EachCall
<1>2. /\ DOMAIN calls' = Callers /\ calls'[c] = k
      /\ \A d \in Callers : d # c => calls'[d] = calls[d]
  BY <1>1
<1>3. ASSUME NEW d \in Callers PROVE CallOK(calls'[d]) /\ KeepsNaming(d)
  <2>1. CASE d = c
    BY <1>2, <2>1 DEF KeepsNaming
  <2>2. CASE d # c
    BY <1>1, <1>2, <2>2 DEF KeepsNaming
  <2> QED
    BY <2>1, <2>2
<1>4. EachCall'
  BY <1>2, <1>3 DEF EachCall
<1> QED
  BY <1>3, <1>4 DEF CallsMove

\* The router itself is left alone.
LEMMA RouterStays ==
    ASSUME CallInv, UNCHANGED <<provider, gap, lru, familyDead, lastHealthy, breaker>>,
           running' \in Callers \cup {Nobody}
    PROVE  RouterTypes' /\ EveryPlace' /\ Usable' = Usable
BY DEF CallInv, RouterTypes, EveryPlace, provider, breaker, Usable

LEMMA IdleIsOK ==
    /\ CallOK(Idle) /\ Idle \in CallRecords
    /\ Idle.stage = "idle" /\ Idle.tried = {} /\ Idle.pool = <<>> /\ Idle.sent = 0
<1>1. Idle \in CallRecords /\ Idle.tried = {} /\ Idle.pool = <<>> /\ Idle.sent = 0
  BY TimersAreNumbers DEF Idle, CallRecords, Stages
<1> QED
  BY <1>1, FS_EmptySet DEF CallOK, Entries, NoneTwice, Idle

LEMMA LeaveMoves ==
    ASSUME CallInv, NEW c \in Callers, calls' = [calls EXCEPT ![c] = Idle]
    PROVE  CallsMove
BY IdleIsOK, OneCallMoves

\* What StepOK says holds after a step whatever the history then is.
StepOK == RouterTypes' /\ EveryPlace' /\ CallsMove

LEMMA BeginOK ==
    ASSUME CallInv, NEW c \in Callers, NEW f \in Families \cup {NoFamily},
           NEW stage \in {"family", "stream"}, Begin(c, f, stage)
    PROVE  StepOK
<1>1. PICK k : k = [Idle EXCEPT !.stage = stage, !.family = f, !.left = GlobalTimeout]
  OBVIOUS
<1>2. /\ k \in CallRecords /\ k.stage = stage /\ k.tried = {} /\ k.pool = <<>> /\ k.sent = 0
  <2>1. stage \in Stages /\ GlobalTimeout \in 0 .. GlobalTimeout
    BY TimersAreNumbers DEF Stages
  <2>2. k \in CallRecords
    BY <1>1, <2>1, IdleIsOK DEF CallRecords
  <2>3. k.stage = stage /\ k.tried = Idle.tried /\ k.pool = Idle.pool /\ k.sent = Idle.sent
    BY <1>1, IdleIsOK DEF CallRecords
  <2> QED
    BY <2>2, <2>3, IdleIsOK
<1>3. CallOK(k)
  BY <1>2, FS_EmptySet DEF CallOK, Entries, NoneTwice
<1>4. calls' = [calls EXCEPT ![c] = k] /\ k.stage # "retryFallback" /\ running' = c
      /\ UNCHANGED <<provider, gap, lru, familyDead, lastHealthy, breaker>>
  BY <1>1, <1>2 DEF Begin
<1> QED
  BY <1>3, <1>4, OneCallMoves, RouterStays DEF StepOK

LEMMA CallStepOK ==
    ASSUME CallInv, NEW c \in Callers, NEW f \in Families \cup {NoFamily}, Call(c, f)
    PROVE  StepOK
<1>1. CASE FastPath(f)
  <2>1. f \in Families /\ lastHealthy[f] \in Providers
    BY <1>1 DEF FastPath, CallInv, RouterTypes
  <2>2. PICK k : k = [Idle EXCEPT !.stage = "fast", !.family = f, !.left = GlobalTimeout,
                                  !.at = lastHealthy[f], !.sent = 1]
    OBVIOUS
  <2>3. k \in CallRecords /\ k.stage = "fast" /\ k.tried = {} /\ k.pool = <<>> /\ k.sent = 1
    <3>1. "fast" \in Stages /\ GlobalTimeout \in 0 .. GlobalTimeout
      BY TimersAreNumbers DEF Stages
    <3>2. k \in CallRecords
      BY <2>1, <2>2, <3>1, IdleIsOK DEF CallRecords
    <3>3. k.stage = "fast" /\ k.tried = Idle.tried /\ k.pool = Idle.pool /\ k.sent = 1
      BY <2>2, IdleIsOK DEF CallRecords
    <3> QED
      BY <3>2, <3>3, IdleIsOK
  <2>4. CallOK(k)
    BY <2>3, FS_EmptySet DEF CallOK, Entries, NoneTwice
  <2>5. calls' = [calls EXCEPT ![c] = k] /\ running' = running
        /\ UNCHANGED <<provider, gap, lru, familyDead, lastHealthy, breaker>>
    BY <1>1, <2>2 DEF Call
  <2>6. running' \in Callers \cup {Nobody}
    BY <2>5 DEF CallInv, RouterTypes
  <2>7. k.stage # "retryFallback"
    BY <2>3
  <2> QED
    BY <2>4, <2>5, <2>6, <2>7, OneCallMoves, RouterStays DEF StepOK
<1>2. CASE ~FastPath(f)
  BY <1>2, BeginOK DEF Call
<1> QED
  BY <1>1, <1>2
\* The request to an untried provider goes out, and what is left of the list, if
\* there is one, is still untried.
LEMMA AttemptOK ==
    ASSUME CallInv, NEW c \in Callers, NEW p \in Providers, NEW rest \in Seq(Providers),
           Attempt(c, p, rest), p \notin calls[c].tried,
           Entries(rest) \cap calls[c].tried = {}, p \notin Entries(rest), NoneTwice(rest),
           calls[c].stage = "retryFallback" => Entries(calls[c].pool) = {p} \cup Entries(rest)
    PROVE  StepOK
<1>1. PICK k : k = [Trying(c, p) EXCEPT !.pool = rest]
  OBVIOUS
<1>2. CallOK(calls[c])
  BY DEF CallInv, EachCall
<1>3. /\ k \in CallRecords /\ k.stage = calls[c].stage /\ k.pool = rest
      /\ k.tried = calls[c].tried \cup {p} /\ k.sent = calls[c].sent + 1
  <2>1. PICK j : j = calls[c]
    OBVIOUS
  <2>2. k = [j EXCEPT !.at = p, !.tried = j.tried \cup {p}, !.sent = j.sent + 1, !.pool = rest]
    BY <1>1, <2>1 DEF Trying
  <2>3. j \in CallRecords
    BY <1>2, <2>1 DEF CallOK
  <2>4. j.tried \cup {p} \in SUBSET Providers /\ j.sent + 1 \in Nat
    BY <2>3 DEF CallRecords
  <2>5. k \in CallRecords
    BY <2>2, <2>3, <2>4 DEF CallRecords
  <2>6. /\ k.stage = j.stage /\ k.pool = rest /\ k.tried = j.tried \cup {p}
        /\ k.sent = j.sent + 1
    BY <2>2, <2>3 DEF CallRecords
  <2> QED
    BY <2>1, <2>5, <2>6
<1>4. k.sent <= Cardinality(k.tried) + 1
  <2>1. calls[c].tried \in SUBSET Providers /\ calls[c].sent \in Nat
    BY <1>2 DEF CallOK, CallRecords
  <2>2. IsFiniteSet(calls[c].tried) /\ Cardinality(calls[c].tried) \in Nat
    BY <2>1, ProvidersAreFinite, FS_Subset, FS_CardinalityType
  <2>3. Cardinality(k.tried) = Cardinality(calls[c].tried) + 1
    BY <1>3, <2>2, FS_AddElement
  <2> QED
    BY <1>2, <1>3, <2>1, <2>2, <2>3 DEF CallOK
<1>5. CallOK(k)
  BY <1>3, <1>4 DEF CallOK
<1>6. calls' = [calls EXCEPT ![c] = k] /\ running' = Nobody
      /\ UNCHANGED <<provider, gap, lru, familyDead, lastHealthy, breaker>>
  BY <1>1 DEF Attempt
<1>7. k.stage = "retryFallback" =>
         calls[c].stage = "retryFallback" /\ Named(calls[c]) \subseteq Named(k)
  BY <1>3 DEF Named
<1> QED
  BY <1>5, <1>6, <1>7, OneCallMoves, RouterStays DEF StepOK

LEMMA TryNextOK == ASSUME CallInv, NEW c \in Callers, TryNext(c) PROVE StepOK
<1>1. /\ calls[c].stage \in Loops /\ Pool(c) # {} /\ Attempt(c, Sorted(Pool(c))[1], <<>>)
  BY DEF TryNext
<1>2. Pool(c) \subseteq Providers \ calls[c].tried
  BY <1>1 DEF Pool, Loops, Available, Usable
<1>3. Sorted(Pool(c))[1] \in Pool(c)
  BY <1>1, <1>2, SortedLists DEF CallInv
<1>4. <<>> \in Seq(Providers) /\ Entries(<<>>) = {} /\ NoneTwice(<<>>)
  BY DEF Entries, NoneTwice
<1>5. calls[c].stage # "retryFallback"
  BY <1>1 DEF Loops
<1> QED
  BY <1>1, <1>2, <1>3, <1>4, <1>5, AttemptOK

LEMMA TryListedOK == ASSUME CallInv, NEW c \in Callers, TryListed(c) PROVE StepOK
<1>1. CallOK(calls[c])
  BY DEF CallInv, EachCall
<1>2. PICK s : s = calls[c].pool
  OBVIOUS
<1>3. s \in Seq(Providers) /\ s # <<>> /\ Attempt(c, Head(s), Tail(s))
  BY <1>1, <1>2 DEF TryListed, CallOK, CallRecords
<1>4. Entries(s) \cap calls[c].tried = {} /\ NoneTwice(s)
  BY <1>1, <1>2 DEF CallOK
<1>5. /\ Len(s) \in Nat \ {0} /\ DOMAIN s = 1 .. Len(s) /\ Head(s) = s[1]
      /\ Tail(s) \in Seq(Providers) /\ DOMAIN Tail(s) = 1 .. (Len(s) - 1)
      /\ \A i \in 1 .. (Len(s) - 1) : Tail(s)[i] = s[i + 1]
  BY <1>3
<1>6. Head(s) \in Entries(s) /\ Head(s) \in Providers
  BY <1>3, <1>5 DEF Entries
<1>7. Entries(Tail(s)) \subseteq Entries(s)
  BY <1>5 DEF Entries
<1>8. Head(s) \notin Entries(Tail(s)) /\ NoneTwice(Tail(s))
  BY <1>4, <1>5 DEF Entries, NoneTwice
<1>9. Entries(s) = {Head(s)} \cup Entries(Tail(s))
  <2>1. ASSUME NEW i \in DOMAIN s, i # 1 PROVE s[i] \in Entries(Tail(s))
    <3>1. i - 1 \in DOMAIN Tail(s) /\ Tail(s)[i - 1] = s[i]
      BY <1>5, <2>1
    <3> QED
      BY <3>1 DEF Entries
  <2> QED
    BY <1>5, <1>6, <1>7, <2>1 DEF Entries
<1>10. Head(s) \notin calls[c].tried /\ Entries(Tail(s)) \cap calls[c].tried = {}
  BY <1>4, <1>6, <1>7
<1>11. Tail(s) \in Seq(Providers)
  BY <1>5
<1> QED
  BY <1>2, <1>3, <1>6, <1>8, <1>9, <1>10, <1>11, AttemptOK

\* A call goes to another loop or list, of providers it has not tried.
LEMMA GotoOK ==
    ASSUME CallInv, NEW c \in Callers, NEW stage \in Stages, NEW pool \in Seq(Providers),
           Goto(c, stage, pool), running' = c,
           Entries(pool) \cap calls[c].tried = {}, NoneTwice(pool),
           stage = "retryFallback" => Usable \subseteq calls[c].tried \cup Entries(pool)
    PROVE  StepOK
<1>1. PICK k : k = [calls[c] EXCEPT !.stage = stage, !.pool = pool, !.family = NoFamily,
                                    !.left = 0]
  OBVIOUS
<1>2. CallOK(calls[c]) /\ DOMAIN calls = Callers
  BY DEF CallInv, EachCall
<1>3. /\ k \in CallRecords /\ k.stage = stage /\ k.pool = pool
      /\ k.tried = calls[c].tried /\ k.sent = calls[c].sent
  <2>1. calls[c] \in CallRecords
    BY <1>2 DEF CallOK
  <2>2. 0 \in 0 .. GlobalTimeout
    BY TimersAreNumbers
  <2>3. k \in CallRecords
    BY <1>1, <2>1, <2>2 DEF CallRecords
  <2>4. /\ k.stage = stage /\ k.pool = pool
        /\ k.tried = calls[c].tried /\ k.sent = calls[c].sent
    BY <1>1, <2>1 DEF CallRecords
  <2> QED
    BY <2>3, <2>4
<1>4. CallOK(k)
  BY <1>2, <1>3 DEF CallOK
<1>5. calls' = [calls EXCEPT ![c] = k]
      /\ UNCHANGED <<provider, gap, lru, familyDead, lastHealthy, breaker>>
  BY <1>1, <1>2 DEF Goto
<1>6. RouterTypes' /\ EveryPlace' /\ Usable' = Usable
  BY <1>5, RouterStays
<1>7. k.stage = "retryFallback" => Usable' \subseteq Named(k)
  BY <1>3, <1>6 DEF Named
<1> QED
  BY <1>4, <1>5, <1>6, <1>7, OneCallMoves DEF StepOK

\* The lists of phases 2 and 3.
LEMMA ListsOK ==
    ASSUME CallInv, NEW c \in Callers, NEW S, S \subseteq Providers
    PROVE  LET s == Sorted(S \ calls[c].tried)
           IN  /\ s \in Seq(Providers) /\ NoneTwice(s)
               /\ Entries(s) = S \ calls[c].tried
BY SortedLists DEF CallInv
LEMMA UsableAreProviders ==
    /\ Usable \subseteq Providers
    /\ \A fallbackToo, family, bypassInterval :
          Available(fallbackToo, family, bypassInterval) \subseteq Providers
BY DEF Usable, Available

LEMMA WidenOK == ASSUME CallInv, NEW c \in Callers, Widen(c) PROVE StepOK
<1>1. running' = c /\ calls[c].stage \in Loops
  BY DEF Widen
<1>2. CASE Goto(c, "all", <<>>)
  <2>1. "all" \in Stages /\ <<>> \in Seq(Providers) /\ Entries(<<>>) = {} /\ NoneTwice(<<>>)
    BY DEF Stages, Entries, NoneTwice
  <2> QED
    BY <1>1, <1>2, <2>1, GotoOK
<1>3. CASE Goto(c, "fallback", FallbackList(c, FALSE))
  <2>1. PICK s : s = FallbackList(c, FALSE)
    OBVIOUS
  <2>2. s \in Seq(Providers) /\ NoneTwice(s) /\ Entries(s) \cap calls[c].tried = {}
    BY <2>1, ListsOK, UsableAreProviders DEF FallbackList
  <2>3. "fallback" \in Stages
    BY DEF Stages
  <2>4. Goto(c, "fallback", s)
    BY <1>3, <2>1
  <2> QED
    BY <1>1, <2>2, <2>3, <2>4, GotoOK
<1>4. CASE /\ calls' = [calls EXCEPT ![c].family = NoFamily]
           /\ UNCHANGED <<provider, gap, lru, familyDead, lastHealthy, breaker>>
  <2>1. PICK k : k = [calls[c] EXCEPT !.family = NoFamily]
    OBVIOUS
  <2>2. CallOK(calls[c]) /\ DOMAIN calls = Callers
    BY DEF CallInv, EachCall
  <2>3. k \in CallRecords /\ k.stage = calls[c].stage /\ k.pool = calls[c].pool
        /\ k.tried = calls[c].tried /\ k.sent = calls[c].sent
    BY <2>1, <2>2 DEF CallOK, CallRecords
  <2>4. CallOK(k)
    BY <2>2, <2>3 DEF CallOK
  <2>5. calls' = [calls EXCEPT ![c] = k] /\ k.stage # "retryFallback"
    BY <1>1, <1>4, <2>1, <2>2, <2>3 DEF Loops
  <2> QED
    BY <1>1, <1>4, <2>4, <2>5, OneCallMoves, RouterStays DEF StepOK
<1> QED
  BY <1>2, <1>3, <1>4 DEF Widen

LEMMA NapOK == ASSUME CallInv, NEW c \in Callers, Nap(c) PROVE StepOK
<1>1. PICK k : k = [calls[c] EXCEPT !.stage = "nap", !.rest = Soonest]
  OBVIOUS
<1>2. CallOK(calls[c]) /\ DOMAIN calls = Callers
  BY DEF CallInv, EachCall
<1>3. Soonest \in 0 .. NapLimit /\ "nap" \in Stages
  <2>1. Soonest \in Nat /\ Soonest <= NapLimit
    BY SoonestIsLeast DEF CallInv, RouterTypes, Nap, WorthANap
  <2> QED
    BY <2>1, TimersAreNumbers DEF Stages
<1>4. k \in CallRecords /\ k.stage = "nap" /\ k.pool = calls[c].pool
      /\ k.tried = calls[c].tried /\ k.sent = calls[c].sent
  <2>1. calls[c] \in CallRecords
    BY <1>2 DEF CallOK
  <2>2. k \in CallRecords
    BY <1>1, <1>3, <2>1 DEF CallRecords
  <2> QED
    BY <1>1, <2>1, <2>2 DEF CallRecords
<1>5. CallOK(k)
  BY <1>2, <1>4 DEF CallOK
<1>6. calls' = [calls EXCEPT ![c] = k] /\ running' = Nobody
      /\ UNCHANGED <<provider, gap, lru, familyDead, lastHealthy, breaker>>
  BY <1>1, <1>2 DEF Nap
<1>7. k.stage # "retryFallback"
  BY <1>4
<1> QED
  BY <1>5, <1>6, <1>7, OneCallMoves, RouterStays DEF StepOK

LEMMA WakeFromNapOK == ASSUME CallInv, NEW c \in Callers, WakeFromNap(c) PROVE StepOK
<1>1. PICK s : s = RetryList(c)
  OBVIOUS
<1>2. s \in Seq(Providers) /\ NoneTwice(s) /\ Entries(s) \cap calls[c].tried = {}
  BY <1>1, ListsOK, UsableAreProviders DEF RetryList
<1>3. "retry" \in Stages
  BY DEF Stages
<1>4. Goto(c, "retry", s) /\ running' = c
  BY <1>1 DEF WakeFromNap
<1> QED
  BY <1>2, <1>3, <1>4, GotoOK

\* The last list has all that are usable and untried.
LEMMA RetryFallbackOK == ASSUME CallInv, NEW c \in Callers, RetryFallback(c) PROVE StepOK
<1>1. PICK s : s = FallbackList(c, TRUE)
  OBVIOUS
<1>2. Available(TRUE, NoFamily, TRUE) = Usable
  BY DEF Available
<1>3. /\ s \in Seq(Providers) /\ NoneTwice(s) /\ Entries(s) = Usable \ calls[c].tried
  BY <1>1, <1>2, ListsOK, UsableAreProviders DEF FallbackList
<1>4. "retryFallback" \in Stages
  BY DEF Stages
<1>5. Goto(c, "retryFallback", s) /\ running' = c
  BY <1>1 DEF RetryFallback
<1>6. Entries(s) \cap calls[c].tried = {} /\ Usable \subseteq calls[c].tried \cup Entries(s)
  BY <1>3
<1> QED
  BY <1>3, <1>4, <1>5, <1>6, GotoOK

LEMMA GiveUpOK == ASSUME CallInv, NEW c \in Callers, GiveUp(c) PROVE StepOK
<1>1. /\ globalFailures' = Least(globalFailures + 1, BreakAfter)
      /\ broken' = IF globalFailures + 1 >= BreakAfter THEN BreakTime ELSE broken
      /\ calls' = [calls EXCEPT ![c] = Idle] /\ running' = Nobody
      /\ UNCHANGED <<health, cooldown, failures, gap, lru, familyDead, lastHealthy>>
  BY DEF GiveUp, provider
<1>2. globalFailures \in 0 .. BreakAfter /\ broken \in 0 .. BreakTime
  BY DEF CallInv, RouterTypes
<1>3. globalFailures' \in 0 .. BreakAfter /\ broken' \in 0 .. BreakTime
  BY <1>1, <1>2, TimersAreNumbers DEF Least
<1>4. RouterTypes' /\ EveryPlace'
  BY <1>1, <1>3 DEF CallInv, RouterTypes, EveryPlace
<1>5. CallsMove
  BY <1>1, LeaveMoves
<1> QED
  BY <1>4, <1>5 DEF StepOK

LEMMA SucceedOK == ASSUME CallInv, NEW c \in Callers, Succeed(c) PROVE StepOK
<1>1. PICK p : p = calls[c].at
  OBVIOUS
<1>2. p \in Providers
  BY <1>1 DEF Succeed, CallInv, EachCall, CallOK, CallRecords
<1>3. /\ MarkSuccess(p) /\ (UNCHANGED <<gap, lru>> \/ MarkUsed(p))
      /\ calls' = [calls EXCEPT ![c] = Idle] /\ UNCHANGED <<familyDead, running>>
  BY <1>1 DEF Succeed
<1>4. /\ health' = [health EXCEPT ![p] = "healthy"]
      /\ failures' = [failures EXCEPT ![p] = 0]
      /\ cooldown' = [cooldown EXCEPT ![p] = 0]
      /\ globalFailures' = 0 /\ broken' = 0
      /\ lastHealthy' = [lastHealthy EXCEPT ![Family[p]] = p]
  BY <1>3 DEF MarkSuccess, Forgiven, CloseBreaker
<1>5. EveryPlace'
  BY <1>2, <1>3, UsedGoesLast DEF CallInv, EveryPlace
<1>6. gap' \in [Providers -> 0 .. MinInterval]
  <2>1. gap \in [Providers -> 0 .. MinInterval] /\ MinInterval \in 0 .. MinInterval
    BY TimersAreNumbers DEF CallInv, RouterTypes
  <2>2. gap' = gap \/ gap' = [gap EXCEPT ![p] = MinInterval]
    BY <1>3 DEF MarkUsed
  <2> QED
    BY <2>1, <2>2
<1>7. RouterTypes'
  <2>1. /\ health' \in [Providers -> {"healthy", "cooled_down"}]
        /\ failures' \in [Providers -> 0 .. DeadAfter] /\ cooldown' \in [Providers -> Nat]
    <3>1. /\ health \in [Providers -> {"healthy", "cooled_down"}]
          /\ failures \in [Providers -> 0 .. DeadAfter] /\ cooldown \in [Providers -> Nat]
          /\ 0 \in 0 .. DeadAfter
      BY TimersAreNumbers DEF CallInv, RouterTypes
    <3> QED
      BY <1>4, <3>1
  <2>2. lastHealthy' \in [Families -> Providers \cup {NoProvider}]
    BY <1>2, <1>4 DEF CallInv, RouterTypes
  <2>3. globalFailures' \in 0 .. BreakAfter /\ broken' \in 0 .. BreakTime
    BY <1>4, TimersAreNumbers
  <2> QED
    BY <1>3, <1>6, <2>1, <2>2, <2>3 DEF CallInv, RouterTypes
<1>8. CallsMove
  BY <1>3, LeaveMoves
<1> QED
  BY <1>5, <1>7, <1>8 DEF StepOK
LEMMA FailOK ==
    ASSUME CallInv, NEW c \in Callers, NEW category \in Categories, Fail(c, category)
    PROVE  StepOK
<1>1. PICK p : p = calls[c].at
  OBVIOUS
<1>2. CallOK(calls[c]) /\ DOMAIN calls = Callers
  BY DEF CallInv, EachCall
<1>3. p \in Providers
  BY <1>1, <1>2 DEF Fail, CallOK, CallRecords
<1>4. PICK n : n = Least(failures[p] + 1, DeadAfter)
  OBVIOUS
<1>5. /\ failures' = [failures EXCEPT ![p] = n]
      /\ cooldown' = [cooldown EXCEPT ![p] = Penalty(category, n)]
      /\ health' = [health EXCEPT ![p] = "cooled_down"]
      /\ familyDead' = familyDead \/ familyDead' = [familyDead EXCEPT ![Family[p]] = FamilyDeadTime]
      /\ lastHealthy' = lastHealthy \/ lastHealthy' = [lastHealthy EXCEPT ![calls[c].family] = NoProvider]
      /\ UNCHANGED <<gap, lru, globalFailures, broken>>
      /\ running' \in {c, Nobody}
  BY <1>1, <1>4 DEF Fail, TransitionHealth, breaker
<1>6. n \in 0 .. DeadAfter /\ n \in Nat \ {0} /\ Penalty(category, n) \in Nat
  <2>1. failures[p] \in 0 .. DeadAfter
    BY <1>3 DEF CallInv, RouterTypes
  <2>2. n \in 0 .. DeadAfter /\ n \in Nat \ {0}
    BY <1>4, <2>1, TimersAreNumbers DEF Least
  <2> QED
    BY <2>2, PenaltyIsATime
<1>7. RouterTypes'
  <2>1. /\ health \in [Providers -> {"healthy", "cooled_down"}]
        /\ cooldown \in [Providers -> Nat] /\ failures \in [Providers -> 0 .. DeadAfter]
        /\ familyDead \in [Families -> 0 .. FamilyDeadTime]
        /\ FamilyDeadTime \in 0 .. FamilyDeadTime
        /\ lastHealthy \in [Families -> Providers \cup {NoProvider}]
    BY TimersAreNumbers DEF CallInv, RouterTypes
  <2>2. /\ health' \in [Providers -> {"healthy", "cooled_down"}]
        /\ cooldown' \in [Providers -> Nat] /\ failures' \in [Providers -> 0 .. DeadAfter]
    BY <1>5, <1>6, <2>1
  <2>3. familyDead' \in [Families -> 0 .. FamilyDeadTime]
    BY <1>5, <2>1
  <2>4. lastHealthy' \in [Families -> Providers \cup {NoProvider}]
    BY <1>5, <2>1
  <2> QED
    BY <1>5, <2>2, <2>3, <2>4 DEF CallInv, RouterTypes
<1>8. EveryPlace'
  BY <1>5 DEF CallInv, EveryPlace
<1> DEFINE stage == IF calls[c].stage = "fast" THEN "family" ELSE calls[c].stage
<1>9. PICK k : k = [calls[c] EXCEPT !.at = NoProvider, !.stage = stage]
  OBVIOUS
<1>10. k \in CallRecords /\ k.stage = stage /\ k.pool = calls[c].pool
       /\ k.tried = calls[c].tried /\ k.sent = calls[c].sent
  <2>1. calls[c] \in CallRecords /\ "family" \in Stages
    BY <1>2 DEF CallOK, Stages
  <2>2. stage \in Stages
    BY <2>1 DEF CallRecords
  <2> HIDE DEF stage
  <2>3. k \in CallRecords
    BY <1>9, <2>1, <2>2 DEF CallRecords
  <2> QED
    BY <1>9, <2>1, <2>3 DEF CallRecords
<1>11. CallOK(k)
  BY <1>2, <1>10 DEF CallOK
<1>12. calls' = [calls EXCEPT ![c] = k]
  BY <1>2, <1>9 DEF Fail
<1>13. k.stage = "retryFallback" =>
          calls[c].stage = "retryFallback" /\ Named(calls[c]) \subseteq Named(k)
  BY <1>10 DEF Named
<1>14. CallsMove
  BY <1>11, <1>12, <1>13, OneCallMoves
<1> QED
  BY <1>7, <1>8, <1>14 DEF StepOK

LEMMA WakeFromJitterOK == ASSUME CallInv, NEW c \in Callers, WakeFromJitter(c) PROVE StepOK
<1>1. calls' = calls /\ running' = c
      /\ UNCHANGED <<provider, gap, lru, familyDead, lastHealthy, breaker>>
  BY DEF WakeFromJitter
<1>2. CallsMove
  BY <1>1 DEF CallInv, EachCall, CallsMove, KeepsNaming
<1> QED
  BY <1>1, <1>2, RouterStays DEF StepOK

LEMMA LeaveOK == ASSUME CallInv, NEW c \in Callers, Leave(c) PROVE StepOK
<1>1. /\ calls' = [calls EXCEPT ![c] = Idle] /\ running' = running
      /\ UNCHANGED <<provider, gap, lru, familyDead, lastHealthy, breaker>>
  BY DEF Leave
<1>2. running' \in Callers \cup {Nobody}
  BY <1>1 DEF CallInv, RouterTypes
<1> QED
  BY <1>1, <1>2, LeaveMoves, RouterStays DEF StepOK

LEMMA LessIsATime ==
    /\ \A t \in Nat : Less(t) \in Nat
    /\ \A m \in Nat : \A t \in 0 .. m : Less(t) \in 0 .. m
BY DEF Less

LEMMA TickOK == ASSUME CallInv, Tick PROVE StepOK
<1>1. /\ cooldown' = [p \in Providers |-> Less(cooldown[p])]
      /\ gap' = [p \in Providers |-> Less(gap[p])]
      /\ familyDead' = [f \in Families |-> Less(familyDead[f])]
      /\ broken' = Less(broken)
      /\ UNCHANGED <<health, failures, lru, lastHealthy, globalFailures, running>>
  BY DEF Tick
<1>2. RouterTypes'
  <2>1. cooldown' \in [Providers -> Nat]
    BY <1>1, LessIsATime DEF CallInv, RouterTypes
  <2>2. gap' \in [Providers -> 0 .. MinInterval]
    BY <1>1, LessIsATime, TimersAreNumbers DEF CallInv, RouterTypes
  <2>3. familyDead' \in [Families -> 0 .. FamilyDeadTime]
    BY <1>1, LessIsATime, TimersAreNumbers DEF CallInv, RouterTypes
  <2>4. broken' \in 0 .. BreakTime
    BY <1>1, LessIsATime, TimersAreNumbers DEF CallInv, RouterTypes
  <2> QED
    BY <1>1, <2>1, <2>2, <2>3, <2>4 DEF CallInv, RouterTypes
<1>3. EveryPlace'
  BY <1>1 DEF CallInv, EveryPlace
<1>4. ASSUME NEW c \in Callers PROVE CallOK(calls'[c]) /\ KeepsNaming(c)
  <2>1. PICK j : j = calls[c]
    OBVIOUS
  <2>2. PICK k : k = [j EXCEPT !.left = Less(j.left), !.rest = Less(j.rest)]
    OBVIOUS
  <2>3. CallOK(j) /\ j \in CallRecords
    BY <2>1 DEF CallInv, EachCall, CallOK
  <2>4. Less(j.left) \in 0 .. GlobalTimeout /\ Less(j.rest) \in 0 .. NapLimit
    BY <2>3, LessIsATime, TimersAreNumbers DEF CallRecords
  <2>5. k \in CallRecords
    BY <2>2, <2>3, <2>4 DEF CallRecords
  <2>6. k.stage = j.stage /\ k.pool = j.pool /\ k.tried = j.tried /\ k.sent = j.sent
    BY <2>2, <2>3 DEF CallRecords
  <2>7. CallOK(k)
    BY <2>3, <2>5, <2>6 DEF CallOK
  <2>8. calls'[c] = k
    BY <2>1, <2>2 DEF Tick
  <2> QED
    BY <2>1, <2>6, <2>7, <2>8 DEF KeepsNaming, Named
<1>5. DOMAIN calls' = Callers /\ calls' = [c \in Callers |-> calls'[c]]
  BY DEF Tick
<1>6. EachCall'
  BY <1>4, <1>5 DEF EachCall
<1> QED
  BY <1>2, <1>3, <1>4, <1>6 DEF StepOK, CallsMove
LEMMA StepIsOK == ASSUME CallInv, Step PROVE StepOK
<1>1. CASE Tick
  BY <1>1, TickOK
<1>2. ASSUME NEW c \in Callers, NEW f \in Families \cup {NoFamily}, Call(c, f) \/ CallStream(c, f)
      PROVE  StepOK
  BY <1>2, CallStepOK, BeginOK DEF CallStream
<1>3. ASSUME NEW c \in Callers, Respond(c) \/ Leave(c)
      PROVE  StepOK
  BY <1>3, SucceedOK, FailOK, LeaveOK DEF Respond
<1>4. ASSUME NEW c \in Callers, Select(c)
      PROVE  StepOK
  BY <1>4, TryNextOK, TryListedOK, WidenOK, NapOK, RetryFallbackOK, GiveUpOK DEF Select
<1>5. ASSUME NEW c \in Callers, Wake(c)
      PROVE  StepOK
  BY <1>5, WakeFromNapOK, WakeFromJitterOK DEF Wake
<1> QED
  BY <1>1, <1>2, <1>3, <1>4, <1>5 DEF Step

LEMMA CallInitInv == ASSUME Init PROVE CallInv
<1>1. RouterTypes
  <2>1. 0 \in 0 .. DeadAfter /\ 0 \in 0 .. MinInterval /\ 0 \in 0 .. FamilyDeadTime
        /\ 0 \in 0 .. BreakAfter /\ 0 \in 0 .. BreakTime /\ 0 \in Nat
    BY TimersAreNumbers
  <2> QED
    BY <2>1, Zenon DEF Init, RouterTypes
<1>2. EveryPlace
  BY ConstantsAssumption DEF Init, EveryPlace, Providers
<1>3. EachCall
  BY IdleIsOK DEF Init, EachCall
<1>4. SteadyIsUsable /\ LastListNamesAll
  BY DEF Init, SteadyIsUsable, LastListNamesAll
<1> QED
  BY <1>1, <1>2, <1>3, <1>4 DEF CallInv

\* The history shrinks with what is usable; it only starts anew with the call.
LEMMA CallNextInv == ASSUME CallInv, [Next]_vars PROVE CallInv'
<1>1. CASE Next
  <2>1. StepOK
    BY <1>1, StepIsOK DEF Next
  <2>2. steady' = [c \in Callers |->
            CASE calls'[c].stage = "idle" -> {}
              [] calls'[c].stage # "idle" /\ calls[c].stage = "idle" -> Usable'
              [] OTHER -> steady[c] \cap Usable']
    BY <1>1 DEF Next
  <2>3. ASSUME NEW c \in Callers
        PROVE  /\ steady'[c] \subseteq Usable'
               /\ calls[c].stage # "idle" => steady'[c] \subseteq steady[c]
    <3>1. steady'[c] \in {{}, Usable', steady[c] \cap Usable'}
      BY <2>2
    <3>2. calls[c].stage # "idle" => steady'[c] \in {{}, steady[c] \cap Usable'}
      BY <2>2
    <3> QED
      BY <3>1, <3>2
  <2>4. SteadyIsUsable'
    <3>1. Usable' \subseteq Providers
      BY DEF Usable
    <3>2. DOMAIN steady' = Callers /\ steady' = [c \in Callers |-> steady'[c]]
      BY <2>2
    <3> QED
      BY <2>3, <3>1, <3>2 DEF SteadyIsUsable
  <2>5. ASSUME NEW c \in Callers, calls'[c].stage = "retryFallback"
        PROVE  steady'[c] \subseteq Named(calls'[c])
    <3>1. KeepsNaming(c)
      BY <2>1 DEF StepOK, CallsMove
    <3>2. CASE calls[c].stage = "retryFallback" /\ Named(calls[c]) \subseteq Named(calls'[c])
      <4>1. steady[c] \subseteq Named(calls[c])
        BY <3>2 DEF CallInv, LastListNamesAll
      <4>2. steady'[c] \subseteq steady[c]
        BY <2>3, <3>2
      <4> QED
        BY <3>2, <4>1, <4>2
    <3>3. CASE Usable' \subseteq Named(calls'[c])
      BY <2>3, <3>3
    <3> QED
      BY <2>5, <3>1, <3>2, <3>3 DEF KeepsNaming
  <2>6. LastListNamesAll'
    BY <2>5 DEF LastListNamesAll
  <2> QED
    BY <2>1, <2>4, <2>6 DEF CallInv, StepOK, CallsMove
<1>2. CASE UNCHANGED vars
  <2>1. /\ UNCHANGED <<provider, gap, lru, familyDead, lastHealthy, breaker>>
        /\ running' = running /\ calls' = calls /\ steady' = steady
    BY <1>2 DEF vars
  <2>2. running' \in Callers \cup {Nobody}
    BY <2>1 DEF CallInv, RouterTypes
  <2>3. RouterTypes' /\ EveryPlace' /\ Usable' = Usable
    BY <2>1, <2>2, RouterStays
  <2> QED
    BY <2>1, <2>3 DEF CallInv, EachCall, SteadyIsUsable, LastListNamesAll
<1> QED
  BY <1>1, <1>2

LEMMA CallInvariance == Spec => []CallInv
  BY CallInitInv, CallNextInv, PTL DEF Spec

-----------------------------------------------------------------------------
(***************************************************************************)
(* The theorems about calls.                                                *)
(***************************************************************************)

\* The types of the state.
THEOREM TypeCorrect == Spec => []TypeOK
<1>1. CallInv => TypeOK
  <2> SUFFICES ASSUME CallInv PROVE TypeOK
    OBVIOUS
  <2>1. calls \in [Callers -> CallRecords]
    <3>1. \A c \in Callers : calls[c] \in CallRecords
      BY DEF CallInv, EachCall, CallOK
    <3>2. calls = [c \in Callers |-> calls[c]]
      BY DEF CallInv, EachCall
    <3> QED
      BY <3>1, <3>2
  <2> QED
    BY <2>1 DEF CallInv, RouterTypes, EveryPlace, SteadyIsUsable, TypeOK, CallRecords
<1> QED
  BY <1>1, CallInvariance, PTL

\* A call bothers each provider at most once, plus once on the fast path, through
\* all its phases and retries.
THEOREM EachProviderIsAskedOnce == Spec => []OneRequestEach
<1>1. CallInv => OneRequestEach
  <2> SUFFICES ASSUME CallInv, NEW c \in Callers
               PROVE  calls[c].sent <= Cardinality(Providers) + 1
    BY DEF OneRequestEach
  <2>1. /\ calls[c].sent <= Cardinality(calls[c].tried) + 1
        /\ calls[c].tried \in SUBSET Providers /\ calls[c].sent \in Nat
    BY DEF CallInv, EachCall, CallOK, CallRecords
  <2>2. /\ Cardinality(calls[c].tried) <= Cardinality(Providers)
        /\ Cardinality(calls[c].tried) \in Nat /\ Cardinality(Providers) \in Nat
    BY <2>1, ProvidersAreFinite, FS_Subset, FS_CardinalityType
  <2> QED
    BY <2>1, <2>2
<1> QED
  BY <1>1, CallInvariance, PTL
\* Where nobody naps over it, what is usable when phase 2 ends has been tried.
LEMMA NoNapNoUsable ==
    ASSUME CallInv, NEW c \in Callers, ~WorthANap(c)
    PROVE  Usable \subseteq calls[c].tried
<1>1. SUFFICES ASSUME NEW p \in Usable PROVE p \in calls[c].tried
  OBVIOUS
<1>2. p \in Providers /\ cooldown[p] = 0
  BY DEF Usable
<1>3. Soonest \in Nat /\ Soonest <= 0
  BY <1>2, SoonestIsLeast DEF CallInv, RouterTypes
<1>4. Soonest <= NapLimit
  BY <1>3, TimersAreNumbers
<1> QED
  BY <1>2, <1>4 DEF WorthANap

\* A call that ends for want of providers has tried all that were usable all along.
LEMMA ExhaustedTriedAll ==
    ASSUME CallInv, Step, NEW c \in Callers, running = c, calls'[c].stage = "idle",
           calls[c].stage \in Lists
    PROVE  steady[c] \subseteq calls[c].tried
<1>1. c # Nobody /\ DOMAIN calls = Callers
  BY ConstantsAssumption DEF CallInv, EachCall
<1>2. ASSUME NEW d \in Callers, NEW f, Call(d, f) \/ CallStream(d, f) PROVE FALSE
  <2>1. CASE running = Nobody
    BY <1>1, <2>1
  <2>2. CASE running # Nobody
    BY <1>2, <2>2 DEF Call, CallStream, Begin
  <2> QED
    BY <2>1, <2>2
<1>3. ASSUME NEW d \in Callers, Respond(d) \/ Leave(d) \/ Wake(d) PROVE FALSE
  BY <1>1, <1>3 DEF Respond, Succeed, Fail, Leave, Wake, WakeFromNap, WakeFromJitter
<1>4. ~Tick
  BY <1>1 DEF Tick
<1>5. PICK d \in Callers : Select(d)
  BY <1>2, <1>3, <1>4 DEF Step
<1>6. d = c
  BY <1>5 DEF Select, TryNext, TryListed, Widen, Nap, RetryFallback, GiveUp
<1>7. CallOK(calls[c])
  BY DEF CallInv, EachCall
<1>8. ~TryNext(c) /\ ~Widen(c)
  BY DEF TryNext, Widen, Loops, Lists
<1>9. ~TryListed(c)
  <2>1. SUFFICES ASSUME TryListed(c) PROVE FALSE
    OBVIOUS
  <2>2. calls'[c].stage = calls[c].stage
    BY <1>1, <1>7, <2>1 DEF TryListed, Attempt, Trying, CallOK, CallRecords
  <2> QED
    BY <2>2 DEF Lists
<1>10. ~Nap(c) /\ ~RetryFallback(c)
  <2>1. calls[c] \in CallRecords
    BY <1>7 DEF CallOK
  <2>2. CASE Nap(c)
    <3>1. calls'[c].stage = "nap"
      BY <1>1, <2>1, <2>2 DEF Nap, CallRecords
    <3> QED
      BY <3>1
  <2>3. CASE RetryFallback(c)
    <3>1. calls'[c].stage = "retryFallback"
      BY <1>1, <2>1, <2>3 DEF RetryFallback, Goto, CallRecords
    <3> QED
      BY <3>1
  <2> QED
    BY <2>2, <2>3
<1>11. GiveUp(c)
  BY <1>5, <1>6, <1>8, <1>9, <1>10 DEF Select
<1>12. Exhausted(c)
  BY <1>11 DEF GiveUp, Late, Lists
<1>13. CASE calls[c].stage = "fallback" /\ ~WorthANap(c)
  BY <1>13, NoNapNoUsable DEF CallInv, SteadyIsUsable
<1>14. CASE calls[c].stage = "retryFallback" /\ calls[c].pool = <<>>
  <2>1. steady[c] \subseteq Named(calls[c])
    BY <1>14 DEF CallInv, LastListNamesAll
  <2> QED
    BY <1>14, <2>1 DEF Named, Entries
<1> QED
  BY <1>12, <1>13, <1>14 DEF Exhausted, Lists

\* call() never says that all providers are exhausted while one that was usable all
\* the time has not been tried.
THEOREM NoUsableProviderIsLeftOut == Spec => NoUsableLeftOut
<1> DEFINE TriedAll == \A c \in Callers :
              running = c /\ calls'[c].stage = "idle" /\ calls[c].stage \in Lists
                 => steady[c] \subseteq calls[c].tried
<1>1. ASSUME CallInv, [Next]_vars PROVE [TriedAll]_vars
  <2>1. CASE Next
    BY <1>1, <2>1, ExhaustedTriedAll DEF Next
  <2> QED
    BY <1>1, <2>1
<1> QED
  BY <1>1, CallInvariance, PTL DEF Spec, NoUsableLeftOut
=============================================================================
