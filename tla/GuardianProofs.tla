--------------------------- MODULE GuardianProofs ---------------------------
(* What bounds the guardian's restarts, proved for every limit, every number *)
(* of retries, every window and every number of faults.                      *)
EXTENDS Guardian, WellFoundedInduction, TLAPS

-----------------------------------------------------------------------------
(***************************************************************************)
(* Counting restarts by age.  Counts is a recursive function, so that what  *)
(* is said of it is shown by induction on the age, with the set of the ages  *)
(* for which it holds in place of a predicate.                               *)
(***************************************************************************)

\* A set of naturals with 0 and with the successors of its elements is all of them.
LEMMA SetInduction ==
    ASSUME NEW S, S \subseteq Nat, 0 \in S, \A n \in S : n + 1 \in S
    PROVE  S = Nat
<1> DEFINE Out == Nat \ S
<1>1. SUFFICES ASSUME Out # {} PROVE FALSE
  OBVIOUS
<1>2. Out \subseteq Nat
  OBVIOUS
<1>3. \E x \in Out : \A y \in Out : ~(<<y, x>> \in OpToRel(<, Nat))
  <2> HIDE DEF Out
  <2> QED
    BY NatLessThanWellFounded, <1>1, <1>2, WFMin, Zenon
<1>4. \E x \in Out : \A y \in Out : ~(y < x)
  BY <1>3, Zenon DEF OpToRel
<1>5. PICK x \in Out : \A y \in Out : ~(y < x)
  BY <1>4, Zenon
<1>6. x \in Nat /\ x # 0
  BY <1>5
<1>7. x - 1 \in S
  BY <1>5, <1>6
<1> QED
  BY <1>5, <1>6, <1>7

\* What holds of age 0 and is handed on to the next age holds of all ages.
LEMMA AgeInduction ==
    ASSUME NEW S, S \subseteq Ages, 0 \in S,
           \A a \in S : a + 1 \in Ages => a + 1 \in S
    PROVE  S = Ages
<1> DEFINE T == {n \in Nat : n \in Ages => n \in S}
<1>1. \A n \in T : n + 1 \in T
  BY GuardianAssumption DEF Ages
<1>2. T = Nat
  <2>1. T \subseteq Nat /\ 0 \in T
    OBVIOUS
  <2> HIDE DEF T
  <2> QED
    BY <1>1, <2>1, SetInduction
<1>3. \A a \in Ages : a \in T
  BY <1>2, GuardianAssumption DEF Ages
<1> QED
  BY <1>3

Log == [Ages -> Nat]

\* The recursion of Counts has a solution, so that Counts is one.
LEMMA CountsDef ==
    ASSUME NEW log \in Log
    PROVE  /\ Counts(log) \in Log
           /\ Counts(log)[0] = log[0]
           /\ \A a \in Ages : a # 0 => Counts(log)[a] = Counts(log)[a - 1] + log[a]
<1> DEFINE Solves(f, n) ==
              /\ f[0] = log[0]
              /\ \A a \in 1 .. n : f[a] = f[a - 1] + log[a]
           Solved(n) == \E f \in Log : Solves(f, n)
           S == {n \in Ages : Solved(n)}
<1>0. Window \in Nat /\ Window # 0 /\ Ages = 0 .. Window
  BY GuardianAssumption DEF Ages
<1>1. 0 \in S
  BY <1>0 DEF Log
<1>2. ASSUME NEW n \in S, n + 1 \in Ages PROVE n + 1 \in S
  <2>1. PICK f \in Log : Solves(f, n)
    BY <1>2
  <2> DEFINE g == [f EXCEPT ![n + 1] = f[n] + log[n + 1]]
  <2>2. g \in Log
    BY <1>0, <1>2, <2>1 DEF Log
  <2>3. /\ n \in Nat /\ n + 1 \in Ages /\ n + 1 # 0
        /\ \A a \in Ages : a # n + 1 => g[a] = f[a]
        /\ g[n + 1] = f[n] + log[n + 1]
    BY <1>0, <1>2 DEF Log
  <2>4. g[0] = log[0]
    BY <1>0, <2>1, <2>3
  <2>5. ASSUME NEW a \in 1 .. (n + 1) PROVE g[a] = g[a - 1] + log[a]
    <3>1. a \in Ages /\ a - 1 \in Ages /\ a - 1 # n + 1
      BY <1>0, <1>2, <2>3
    <3>2. CASE a = n + 1
      BY <1>0, <2>3, <3>1, <3>2
    <3>3. CASE a # n + 1
      <4>1. a \in 1 .. n
        BY <2>3, <3>3
      <4> QED
        BY <2>1, <2>3, <3>1, <4>1
    <3> QED
      BY <3>2, <3>3
  <2>6. Solves(g, n + 1)
    BY <2>4, <2>5
  <2> QED
    BY <1>2, <2>2, <2>6
<1>3. S = Ages
  <2>1. S \subseteq Ages
    OBVIOUS
  <2> HIDE DEF S
  <2> QED
    BY <1>1, <1>2, <2>1, AgeInduction
<1>4. PICK f \in Log : Solves(f, Window)
  <2>1. Window \in Ages
    BY <1>0
  <2>2. Window \in S
    <3> HIDE DEF S
    <3> QED
      BY <1>3, <2>1
  <2>3. Solved(Window)
    <3> HIDE DEF Solved
    <3> QED
      BY <2>2
  <2> QED
    BY <2>3, Zenon
<1> DEFINE Body(h) == [a \in Ages |-> IF a = 0 THEN log[0] ELSE h[a - 1] + log[a]]
<1>5. f = Body(f)
  BY <1>0, <1>4 DEF Log
<1>6. Counts(log) = CHOOSE h : h = Body(h)
  BY Zenon DEF Counts
<1>7. Counts(log) = Body(Counts(log))
  <2> HIDE DEF Body
  <2> QED
    BY <1>5, <1>6, Zenon
<1> DEFINE c == Counts(log)
<1> HIDE DEF c
<1>8. c = [a \in Ages |-> IF a = 0 THEN log[0] ELSE c[a - 1] + log[a]]
  BY <1>7, Zenon DEF c
<1>9. c[0] = log[0] /\ \A a \in Ages : a # 0 => c[a] = c[a - 1] + log[a]
  BY <1>0, <1>8
<1>10. c \in Log
  <2> DEFINE R == {a \in Ages : c[a] \in Nat}
  <2>1. R \subseteq Ages /\ 0 \in R
    BY <1>0, <1>9 DEF Log
  <2>2. \A a \in R : a + 1 \in Ages => a + 1 \in R
    BY <1>0, <1>9 DEF Log
  <2>3. R = Ages
    <3> HIDE DEF R
    <3> QED
      BY <2>1, <2>2, AgeInduction
  <2> QED
    BY <1>8, <2>3 DEF Log
<1> QED
  BY <1>9, <1>10 DEF c

\* Ages in the proofs below are numbers, and every age but 0 has one before it.
LEMMA AgesAreNumbers ==
    /\ Window \in Nat /\ Window # 0 /\ Ages \subseteq Nat
    /\ 0 \in Ages /\ 1 \in Ages /\ Window \in Ages /\ Window - 1 \in Ages
    /\ \A a \in Ages : a <= Window /\ (a # 0 => a - 1 \in Ages /\ a - 1 # Window)
BY GuardianAssumption DEF Ages

LEMMA CountsType ==
    ASSUME NEW log \in Log, NEW a \in Ages
    PROVE  Counts(log)[a] \in Nat /\ log[a] \in Nat
BY CountsDef DEF Log

\* The count of an age includes those of the younger ones.
LEMMA CountsGrow ==
    ASSUME NEW log \in Log, NEW a \in Ages, NEW b \in Ages, a <= b
    PROVE  Counts(log)[a] <= Counts(log)[b]
<1> DEFINE S == {d \in Ages : a <= d => Counts(log)[a] <= Counts(log)[d]}
<1>1. S \subseteq Ages
  OBVIOUS
<1>2. 0 \in S
  BY AgesAreNumbers, CountsType
<1>3. ASSUME NEW d \in S, d + 1 \in Ages PROVE d + 1 \in S
  <2>1. d \in Nat /\ a \in Nat /\ (d + 1) - 1 = d /\ d + 1 # 0
    BY AgesAreNumbers
  <2>2. Counts(log)[d + 1] = Counts(log)[d] + log[d + 1]
    BY <1>3, <2>1, CountsDef
  <2>3. /\ Counts(log)[a] \in Nat /\ Counts(log)[d] \in Nat /\ log[d + 1] \in Nat
        /\ Counts(log)[d + 1] \in Nat
    BY <1>3, CountsType
  <2>4. a <= d + 1 => a <= d \/ a = d + 1
    BY <2>1
  <2> QED
    BY <1>3, <2>2, <2>3, <2>4
<1>4. S = Ages
  <2> HIDE DEF S
  <2> QED
    BY <1>1, <1>2, <1>3, AgeInduction
<1>5. b \in S
  <2> HIDE DEF S
  <2> QED
    BY <1>4
<1> QED
  BY <1>5

\* A restart that is entered is counted at every age.
LEMMA OneMoreCounts ==
    ASSUME NEW log \in Log
    PROVE  /\ OneMore(log) \in Log /\ OneMore(log)[0] = log[0] + 1
           /\ \A a \in Ages : Counts(OneMore(log))[a] = Counts(log)[a] + 1
<1> DEFINE new == OneMore(log)
           S == {a \in Ages : Counts(new)[a] = Counts(log)[a] + 1}
<1>1. new \in Log /\ new[0] = log[0] + 1 /\ \A a \in Ages : a # 0 => new[a] = log[a]
  BY AgesAreNumbers DEF OneMore, Log
<1> HIDE DEF new
<1>2. S \subseteq Ages /\ 0 \in S
  BY <1>1, AgesAreNumbers, CountsDef
<1>3. ASSUME NEW a \in S, a + 1 \in Ages PROVE a + 1 \in S
  <2>1. a \in Nat /\ (a + 1) - 1 = a /\ a + 1 # 0
    BY AgesAreNumbers
  <2>2. /\ Counts(log)[a + 1] = Counts(log)[a] + log[a + 1]
        /\ Counts(new)[a + 1] = Counts(new)[a] + log[a + 1]
    BY <1>1, <1>3, <2>1, CountsDef
  <2>3. Counts(log)[a] \in Nat /\ log[a + 1] \in Nat
    BY <1>3, CountsType
  <2> QED
    BY <1>3, <2>2, <2>3
<1>4. S = Ages
  <2> HIDE DEF S
  <2> QED
    BY <1>2, <1>3, AgeInduction
<1>5. \A a \in Ages : Counts(new)[a] = Counts(log)[a] + 1
  BY <1>4
<1> QED
  BY <1>1, <1>5 DEF new

\* A tick of the clock moves every count to the next age, and the last one out.
LEMMA OlderCounts ==
    ASSUME NEW log \in Log
    PROVE  /\ Older(log) \in Log
           /\ \A a \in Ages : Counts(Older(log))[a] = IF a = 0 THEN 0 ELSE Counts(log)[a - 1]
<1> DEFINE new == Older(log)
           S == {a \in Ages : Counts(new)[a] = IF a = 0 THEN 0 ELSE Counts(log)[a - 1]}
<1>1. new \in Log /\ new[0] = 0 /\ \A a \in Ages : a # 0 => new[a] = log[a - 1]
  BY AgesAreNumbers DEF Older, Log
<1> HIDE DEF new
<1>2. S \subseteq Ages /\ 0 \in S
  BY <1>1, AgesAreNumbers, CountsDef
<1>3. ASSUME NEW a \in S, a + 1 \in Ages PROVE a + 1 \in S
  <2>1. a \in Nat /\ (a + 1) - 1 = a /\ a + 1 # 0
    BY AgesAreNumbers
  <2>2. Counts(new)[a + 1] = Counts(new)[a] + log[a]
    BY <1>1, <1>3, <2>1, CountsDef
  <2>3. CASE a = 0
    BY <1>3, <2>1, <2>2, <2>3, CountsDef, CountsType
  <2>4. CASE a # 0
    BY <1>3, <2>1, <2>2, <2>4, CountsDef
  <2> QED
    BY <2>3, <2>4
<1>4. S = Ages
  <2> HIDE DEF S
  <2> QED
    BY <1>2, <1>3, AgeInduction
<1>5. \A a \in Ages : Counts(new)[a] = IF a = 0 THEN 0 ELSE Counts(log)[a - 1]
  BY <1>4
<1> QED
  BY <1>1, <1>5 DEF new

\* The daemon's filter takes away the restarts that are just an hour old.
LEMMA PrunedCounts ==
    ASSUME NEW log \in Log
    PROVE  /\ Pruned(log) \in Log
           /\ \A a \in Ages : Counts(Pruned(log))[a]
                                 = IF a = Window THEN Counts(log)[Window - 1] ELSE Counts(log)[a]
<1> DEFINE new == Pruned(log)
           S == {a \in Ages : a # Window => Counts(new)[a] = Counts(log)[a]}
<1>1. new \in Log /\ new[Window] = 0 /\ \A a \in Ages : a # Window => new[a] = log[a]
  BY AgesAreNumbers DEF Pruned, Log
<1> HIDE DEF new
<1>2. S \subseteq Ages /\ 0 \in S
  BY <1>1, AgesAreNumbers, CountsDef
<1>3. ASSUME NEW a \in S, a + 1 \in Ages PROVE a + 1 \in S
  <2>1. a \in Nat /\ (a + 1) - 1 = a /\ a + 1 # 0 /\ a # Window
    BY <1>3, AgesAreNumbers
  <2>2. /\ Counts(log)[a + 1] = Counts(log)[a] + log[a + 1]
        /\ Counts(new)[a + 1] = Counts(new)[a] + new[a + 1]
    BY <1>1, <1>3, <2>1, CountsDef
  <2> QED
    BY <1>1, <1>3, <2>1, <2>2
<1>4. S = Ages
  <2> HIDE DEF S
  <2> QED
    BY <1>2, <1>3, AgeInduction
<1>5. \A a \in Ages : a # Window => Counts(new)[a] = Counts(log)[a]
  BY <1>4
<1>6. Counts(new)[Window] = Counts(log)[Window - 1]
  <2>1. Counts(new)[Window] = Counts(new)[Window - 1] + 0
    BY <1>1, AgesAreNumbers, CountsDef
  <2>2. Counts(new)[Window - 1] = Counts(log)[Window - 1] /\ Counts(log)[Window - 1] \in Nat
    BY <1>5, AgesAreNumbers, CountsType
  <2> QED
    BY <2>1, <2>2
<1> QED
  BY <1>1, <1>5, <1>6 DEF new

\* Nothing is counted where nothing is entered.
LEMMA NoneCounts == None \in Log /\ \A a \in Ages : Counts(None)[a] = 0
<1> DEFINE S == {a \in Ages : Counts(None)[a] = 0}
<1>1. None \in Log /\ \A a \in Ages : None[a] = 0
  BY DEF None, Log
<1>2. S \subseteq Ages /\ 0 \in S
  BY <1>1, AgesAreNumbers, CountsDef
<1>3. ASSUME NEW a \in S, a + 1 \in Ages PROVE a + 1 \in S
  <2>1. a \in Nat /\ (a + 1) - 1 = a /\ a + 1 # 0
    BY AgesAreNumbers
  <2> QED
    BY <1>1, <1>3, <2>1, CountsDef
<1>4. S = Ages
  <2> HIDE DEF S
  <2> QED
    BY <1>2, <1>3, AgeInduction
<1> QED
  BY <1>1, <1>4
\* Two logs put together count what each of them counts.
LEMMA MergeCounts ==
    ASSUME NEW log \in Log, NEW more \in Log
    PROVE  /\ Merge(log, more) \in Log
           /\ \A a \in Ages : Counts(Merge(log, more))[a] = Counts(log)[a] + Counts(more)[a]
<1> DEFINE new == Merge(log, more)
           S == {a \in Ages : Counts(new)[a] = Counts(log)[a] + Counts(more)[a]}
<1>1. new \in Log /\ \A a \in Ages : new[a] = log[a] + more[a]
  BY DEF Merge, Log
<1> HIDE DEF new
<1>2. S \subseteq Ages /\ 0 \in S
  BY <1>1, AgesAreNumbers, CountsDef
<1>3. ASSUME NEW a \in S, a + 1 \in Ages PROVE a + 1 \in S
  <2>1. a \in Nat /\ (a + 1) - 1 = a /\ a + 1 # 0
    BY AgesAreNumbers
  <2>2. /\ Counts(log)[a + 1] = Counts(log)[a] + log[a + 1]
        /\ Counts(more)[a + 1] = Counts(more)[a] + more[a + 1]
        /\ Counts(new)[a + 1] = Counts(new)[a] + new[a + 1]
    BY <1>1, <1>3, <2>1, CountsDef
  <2>3. /\ Counts(log)[a] \in Nat /\ log[a + 1] \in Nat
        /\ Counts(more)[a] \in Nat /\ more[a + 1] \in Nat
    BY <1>3, CountsType
  <2> QED
    BY <1>1, <1>3, <2>2, <2>3
<1>4. S = Ages
  <2> HIDE DEF S
  <2> QED
    BY <1>2, <1>3, AgeInduction
<1>5. \A a \in Ages : Counts(new)[a] = Counts(log)[a] + Counts(more)[a]
  BY <1>4
<1> QED
  BY <1>1, <1>5 DEF new

-----------------------------------------------------------------------------
(***************************************************************************)
(* The inductive invariant.  It is about the restarts that count for the   *)
(* healer's guard and those it overlooks; of the file itself only one      *)
(* thing matters, that every restart that counts is in it.                 *)
(***************************************************************************)
Types ==
    /\ pc \in Points /\ attempt \in 0 .. MaxRetries
    /\ pulled \in BOOLEAN /\ active \in BOOLEAN /\ running \in BOOLEAN
    /\ broken \in BOOLEAN /\ importable \in BOOLEAN /\ news \in BOOLEAN
    /\ ticked \in BOOLEAN
    /\ records \in Log /\ own \in Log /\ healer \in Log
    /\ counted \in Log /\ lost \in Log
    /\ faults \in 0 .. MaxFaults

Chain == {"chain", "restart", "record"}
YoungerAges == 0 .. (Window - 1)
One(b) == IF b THEN 1 ELSE 0

\* The daemon is about to restart the service once more.
ToRestart == pc = "act" /\ active

\* What counts is in the file.
Readable == \A a \in Ages : Counts(counted)[a] <= Counts(records)[a]

\* Whatever the age, a restart of the healer counts, or is overlooked, or is about
\* to be recorded.
EachRecorded ==
    \A a \in Ages :
        Counts(healer)[a] <= Counts(counted)[a] + Counts(lost)[a] + One(pc = "record")

\* The guard let the chain begin below the limit; each attempt adds one at most.
WithinLimit ==
    /\ Total(counted) <= MaxRestarts + MaxRetries
    /\ pc \in Chain => Total(counted) + 1 <= MaxRestarts + attempt

\* Until the service is up again nobody says so.
NotYetActive == pc \in {"guard", "chain", "restart"} => ~active

\* A restart of the daemon follows one of the healer in the same pass, which is
\* older by one tick at most.
FollowsHealer ==
    /\ \A a \in YoungerAges :
          Counts(own)[a] + One(ToRestart) <= Counts(counted)[a + 1] + Counts(lost)[a + 1]
    /\ ToRestart /\ ~ticked => Counts(counted)[0] + Counts(lost)[0] >= 1

\* From the guard of the healer on the daemon has a restart left, whatever the
\* clock does until then, but for the restarts that were overlooked.
OneLeft ==
    pc \in Chain \/ ToRestart =>
        \A a \in YoungerAges : Counts(own)[a] + 1 <= MaxRestarts + Counts(lost)[a + 1]

\* A guardian in safe mode ends its pass, without another restart, and exits.
InSafeMode ==
    Total(own) > MaxRestarts =>
        /\ ~running
        /\ \/ pc \in {"periodic", "sleep", "down"}
           \/ pc \in {"guard"} \cup Chain /\ ~pulled

Inv == /\ Types /\ Readable /\ EachRecorded /\ WithinLimit /\ NotYetActive
       /\ FollowsHealer /\ OneLeft /\ InSafeMode

LEMMA LimitsAreNumbers ==
    MaxRestarts \in Nat /\ MaxRestarts >= 1 /\ MaxRetries \in Nat /\ MaxFaults \in Nat
BY GuardianAssumption

LEMMA YoungerAgesHaveNext ==
    /\ YoungerAges \subseteq Ages
    /\ Window - 1 \in YoungerAges /\ (Window - 1) + 1 = Window /\ 0 \in YoungerAges
    /\ \A a \in YoungerAges : a # Window /\ a + 1 \in Ages /\ a + 1 # 0 /\ (a + 1) - 1 = a
                              /\ (a # 0 => a - 1 \in YoungerAges /\ (a - 1) + 1 = a)
BY GuardianAssumption DEF YoungerAges, Ages

\* The counts are numbers, and none is above its total.
LEMMA LogCounts ==
    ASSUME Types
    PROVE  /\ \A a \in Ages : /\ Counts(records)[a] \in Nat /\ Counts(own)[a] \in Nat
                              /\ Counts(healer)[a] \in Nat /\ Counts(lost)[a] \in Nat
                              /\ Counts(counted)[a] \in Nat
                              /\ Counts(counted)[a] <= Total(counted)
                              /\ Counts(own)[a] <= Total(own)
                              /\ Counts(lost)[a] <= Total(lost)
           /\ Total(records) \in Nat /\ Total(own) \in Nat /\ Total(lost) \in Nat
           /\ Total(counted) \in Nat
<1>1. records \in Log /\ own \in Log /\ healer \in Log /\ lost \in Log /\ counted \in Log
  BY DEF Types
<1> QED
  BY <1>1, CountsType, CountsGrow, AgesAreNumbers DEF Total

LEMMA InitInv == ASSUME Init PROVE Inv
<1>1. Types
  <2>1. 0 \in 0 .. MaxRetries /\ 0 \in 0 .. MaxFaults /\ None \in Log
    BY LimitsAreNumbers, NoneCounts
  <2> QED
    BY <2>1, Zenon DEF Init, Types, Points
<1>2. Total(counted) = 0 /\ Total(own) = 0
  BY NoneCounts, AgesAreNumbers DEF Init, Total
<1>3. Readable /\ EachRecorded /\ WithinLimit /\ NotYetActive /\ OneLeft /\ InSafeMode
  BY <1>2, NoneCounts, LimitsAreNumbers
     DEF Init, Readable, EachRecorded, WithinLimit, NotYetActive, OneLeft, InSafeMode, Chain,
         One, ToRestart
<1>4. FollowsHealer
  BY NoneCounts, YoungerAgesHaveNext DEF Init, FollowsHealer, One, ToRestart
<1> QED
  BY <1>1, <1>3, <1>4 DEF Inv

-----------------------------------------------------------------------------
(***************************************************************************)
(* Steps that enter no restart, and leave the clock alone.                  *)
(***************************************************************************)

\* Restarts that counted may be overlooked from now on, and nothing else changes.
CountsKept ==
    /\ records' \in Log /\ counted' \in Log /\ lost' \in Log
    /\ \A a \in Ages :
          /\ Counts(counted')[a] + Counts(lost')[a] = Counts(counted)[a] + Counts(lost)[a]
          /\ Counts(counted')[a] <= Counts(counted)[a]
          /\ Counts(counted')[a] <= Counts(records')[a]
          /\ Counts(counted')[a] \in Nat /\ Counts(lost')[a] \in Nat

LEMMA LogsKept ==
    ASSUME Inv, UNCHANGED logs
    PROVE  CountsKept /\ own' = own /\ healer' = healer
<1>1. /\ records' = records /\ own' = own /\ healer' = healer /\ counted' = counted
      /\ lost' = lost
  BY DEF logs
<1>2. \A a \in Ages : Counts(counted)[a] \in Nat /\ Counts(lost)[a] \in Nat
  BY LogCounts DEF Inv
<1> QED
  BY <1>1, <1>2 DEF CountsKept, Inv, Types, Readable

\* A history that is gone, or cannot be read.
LEMMA OverlookedKeeps ==
    ASSUME Types, Overlooked, records' \in Log
    PROVE  CountsKept
<1>1. counted \in Log /\ lost \in Log
  BY DEF Types
<1>2. counted' \in Log /\ \A a \in Ages : Counts(counted')[a] = 0
  BY NoneCounts DEF Overlooked
<1>3. lost' \in Log /\ \A a \in Ages : Counts(lost')[a] = Counts(lost)[a] + Counts(counted)[a]
  BY <1>1, MergeCounts DEF Overlooked
<1>4. \A a \in Ages : Counts(records')[a] \in Nat
  BY CountsType
<1> QED
  BY <1>2, <1>3, <1>4, LogCounts DEF CountsKept

\* What counts and what is overlooked together stay what they are.
LEMMA KeptStep ==
    ASSUME Inv, CountsKept, healer' = healer, own' = own,
           One(pc' = "record") = One(pc = "record")
    PROVE  /\ Readable' /\ EachRecorded'
           /\ Total(counted') \in Nat /\ Total(counted') <= Total(counted)
           /\ \A a \in YoungerAges :
                 /\ Counts(counted')[a + 1] + Counts(lost')[a + 1]
                       = Counts(counted)[a + 1] + Counts(lost)[a + 1]
                 /\ Counts(lost)[a + 1] <= Counts(lost')[a + 1]
                 /\ Counts(own)[a] \in Nat
                 /\ Counts(counted)[a + 1] \in Nat /\ Counts(lost)[a + 1] \in Nat
                 /\ Counts(counted')[a + 1] \in Nat /\ Counts(lost')[a + 1] \in Nat
                 /\ Counts(counted')[a + 1] <= Total(counted')
<1>1. \A a \in Ages : Counts(counted)[a] \in Nat /\ Counts(lost)[a] \in Nat
  BY LogCounts DEF Inv
<1>2. Readable'
  BY DEF Readable, CountsKept
<1>3. EachRecorded'
  <2> SUFFICES ASSUME NEW a \in Ages
               PROVE  Counts(healer)[a] <= Counts(counted')[a] + Counts(lost')[a]
                                             + One(pc' = "record")
    BY DEF EachRecorded
  <2>1. Counts(healer)[a] <= Counts(counted)[a] + Counts(lost)[a] + One(pc = "record")
    BY DEF Inv, EachRecorded
  <2> QED
    BY <2>1 DEF CountsKept
<1>4. Total(counted') \in Nat /\ Total(counted') <= Total(counted)
  BY AgesAreNumbers DEF CountsKept, Total
<1>5. ASSUME NEW a \in YoungerAges
      PROVE  /\ Counts(counted')[a + 1] + Counts(lost')[a + 1]
                   = Counts(counted)[a + 1] + Counts(lost)[a + 1]
             /\ Counts(lost)[a + 1] <= Counts(lost')[a + 1]
             /\ Counts(own)[a] \in Nat
             /\ Counts(counted)[a + 1] \in Nat /\ Counts(lost)[a + 1] \in Nat
             /\ Counts(counted')[a + 1] \in Nat /\ Counts(lost')[a + 1] \in Nat
             /\ Counts(counted')[a + 1] <= Total(counted')
  <2>1. a \in Ages /\ a + 1 \in Ages /\ a + 1 <= Window /\ Window \in Ages
    BY YoungerAgesHaveNext, AgesAreNumbers
  <2>2. counted' \in Log /\ Types
    BY DEF CountsKept, Inv
  <2>3. Counts(counted')[a + 1] <= Total(counted')
    BY <2>1, <2>2, CountsGrow DEF Total
  <2> QED
    BY <1>1, <2>1, <2>2, <2>3, LogCounts DEF CountsKept
<1> QED
  BY <1>2, <1>3, <1>4, <1>5

\* Such a step keeps the invariant if it begins no chain but at the guard and
\* announces no restart.
LEMMA QuietStep ==
    ASSUME Inv, CountsKept, own' = own, healer' = healer, pc # "record", Types',
           pc' # "record" /\ ~ToRestart',
           pc' \in {"guard", "chain", "restart"} => ~active',
           pc' \in Chain => \/ pc \in Chain /\ attempt' >= attempt
                            \/ Total(counted') < MaxRestarts,
           Total(own) > MaxRestarts =>
              /\ ~running'
              /\ \/ pc' \in {"periodic", "sleep", "down"}
                 \/ pc' \in {"guard"} \cup Chain /\ ~pulled'
    PROVE  Inv'
<1>1. One(pc' = "record") = One(pc = "record")
  BY DEF One
<1>2. Readable' /\ EachRecorded' /\ Total(counted') \in Nat /\ Total(counted') <= Total(counted)
  BY <1>1, KeptStep
<1>3. \A a \in YoungerAges :
         /\ Counts(counted')[a + 1] + Counts(lost')[a + 1]
               = Counts(counted)[a + 1] + Counts(lost)[a + 1]
         /\ Counts(lost)[a + 1] <= Counts(lost')[a + 1]
         /\ Counts(own)[a] \in Nat
         /\ Counts(counted)[a + 1] \in Nat /\ Counts(lost)[a + 1] \in Nat
         /\ Counts(counted')[a + 1] \in Nat /\ Counts(lost')[a + 1] \in Nat
         /\ Counts(counted')[a + 1] <= Total(counted')
  BY <1>1, KeptStep
<1>4. WithinLimit'
  <2>1. attempt \in Nat /\ attempt' \in Nat /\ Total(counted) \in Nat
    BY LimitsAreNumbers, LogCounts DEF Inv, Types
  <2>2. /\ Total(counted) <= MaxRestarts + MaxRetries
        /\ pc \in Chain => Total(counted) + 1 <= MaxRestarts + attempt
    BY DEF Inv, WithinLimit
  <2>3. pc' \in Chain => Total(counted') + 1 <= MaxRestarts + attempt'
    BY <1>2, <2>1, <2>2, LimitsAreNumbers
  <2> QED
    BY <1>2, <2>1, <2>2, <2>3, LimitsAreNumbers DEF WithinLimit
<1>5. \A a \in YoungerAges : Counts(own)[a] <= Counts(counted')[a + 1] + Counts(lost')[a + 1]
  <2> SUFFICES ASSUME NEW a \in YoungerAges
               PROVE  Counts(own)[a] <= Counts(counted')[a + 1] + Counts(lost')[a + 1]
    OBVIOUS
  <2>1. /\ Counts(own)[a] + One(ToRestart) <= Counts(counted)[a + 1] + Counts(lost)[a + 1]
        /\ One(ToRestart) \in {0, 1}
    BY DEF Inv, FollowsHealer, One
  <2> QED
    BY <1>3, <2>1
<1>6. FollowsHealer'
  <2>1. \A a \in YoungerAges :
           Counts(own')[a] + 0 <= Counts(counted')[a + 1] + Counts(lost')[a + 1]
    BY <1>3, <1>5
  <2> QED
    BY <2>1 DEF FollowsHealer, One
<1>7. OneLeft'
  <2> SUFFICES ASSUME pc' \in Chain, NEW a \in YoungerAges
               PROVE  Counts(own)[a] + 1 <= MaxRestarts + Counts(lost')[a + 1]
    BY DEF OneLeft
  <2>1. CASE pc \in Chain
    <3>1. Counts(own)[a] + 1 <= MaxRestarts + Counts(lost)[a + 1]
      BY <2>1 DEF Inv, OneLeft
    <3> QED
      BY <1>3, <3>1, LimitsAreNumbers
  <2>2. CASE Total(counted') < MaxRestarts
    BY <1>2, <1>3, <1>5, <2>2, LimitsAreNumbers
  <2> QED
    BY <2>1, <2>2
<1>8. NotYetActive' /\ InSafeMode'
  BY DEF NotYetActive, InSafeMode, Total
<1> QED
  BY <1>2, <1>4, <1>6, <1>7, <1>8 DEF Inv

\* A step of the world that stops no process, or empties the file.
LEMMA WorldStep ==
    ASSUME Inv, UNCHANGED place, CountsKept, own' = own, healer' = healer,
           running' \in {running, FALSE},
           broken' \in BOOLEAN, importable' \in BOOLEAN, news' \in BOOLEAN,
           faults' \in 0 .. MaxFaults
    PROVE  Inv'
<1>1. /\ pc' = pc /\ pulled' = pulled /\ attempt' = attempt /\ active' = active
      /\ ticked' = ticked
  BY DEF place
<1>2. running \in BOOLEAN /\ running' \in BOOLEAN /\ (running' => running)
  <2>1. running \in BOOLEAN
    BY DEF Inv, Types
  <2>2. CASE running' = running
    BY <2>1, <2>2
  <2>3. CASE running' = FALSE
    BY <2>1, <2>3
  <2> QED
    BY <2>2, <2>3
<1>3. Types'
  BY <1>1, <1>2 DEF Inv, Types, CountsKept
<1>4. Readable' /\ EachRecorded' /\ Total(counted') \in Nat /\ Total(counted') <= Total(counted)
  BY <1>1, KeptStep
<1>5. \A a \in YoungerAges :
         /\ Counts(counted')[a + 1] + Counts(lost')[a + 1]
               = Counts(counted)[a + 1] + Counts(lost)[a + 1]
         /\ Counts(lost)[a + 1] <= Counts(lost')[a + 1]
         /\ Counts(own)[a] \in Nat
         /\ Counts(counted)[a + 1] \in Nat /\ Counts(lost)[a + 1] \in Nat
         /\ Counts(counted')[a + 1] \in Nat /\ Counts(lost')[a + 1] \in Nat
         /\ Counts(counted')[a + 1] <= Total(counted')
  BY <1>1, KeptStep
<1>6. WithinLimit'
  <2>1. attempt \in Nat /\ Total(counted) \in Nat
    BY LimitsAreNumbers, LogCounts DEF Inv, Types
  <2> QED
    BY <1>1, <1>4, <2>1, LimitsAreNumbers DEF Inv, WithinLimit
<1>7. ToRestart' = ToRestart /\ One(ToRestart) \in {0, 1}
  BY <1>1 DEF ToRestart, One
<1>8. FollowsHealer'
  <2>1. ASSUME NEW a \in YoungerAges
        PROVE  Counts(own)[a] + One(ToRestart) <= Counts(counted')[a + 1] + Counts(lost')[a + 1]
    <3>1. Counts(own)[a] + One(ToRestart) <= Counts(counted)[a + 1] + Counts(lost)[a + 1]
      BY DEF Inv, FollowsHealer
    <3> QED
      BY <1>5, <3>1
  <2>2. Counts(counted')[0] + Counts(lost')[0] = Counts(counted)[0] + Counts(lost)[0]
    BY AgesAreNumbers DEF CountsKept
  <2> QED
    BY <1>1, <1>7, <2>1, <2>2 DEF Inv, FollowsHealer
<1>9. OneLeft'
  <2> SUFFICES ASSUME pc \in Chain \/ ToRestart, NEW a \in YoungerAges
               PROVE  Counts(own)[a] + 1 <= MaxRestarts + Counts(lost')[a + 1]
    BY <1>1, <1>7 DEF OneLeft
  <2>1. Counts(own)[a] + 1 <= MaxRestarts + Counts(lost)[a + 1]
    BY DEF Inv, OneLeft
  <2> QED
    BY <1>5, <2>1, LimitsAreNumbers
<1>10. NotYetActive' /\ InSafeMode'
  BY <1>1, <1>2 DEF Inv, NotYetActive, InSafeMode, Total
<1> QED
  BY <1>3, <1>4, <1>6, <1>8, <1>9, <1>10 DEF Inv

\* Goto keeps the locals of a heal or forgets them.
LEMMA GotoMeans ==
    ASSUME NEW point, Goto(point), Types
    PROVE  /\ pc' = point /\ ticked' = ticked
           /\ pulled' \in BOOLEAN /\ active' \in BOOLEAN /\ attempt' \in 0 .. MaxRetries
           /\ (pulled' => pulled) /\ (active' => active)
           /\ point \in {"chain", "restart", "act"} =>
                 pulled' = pulled /\ active' = active /\ attempt' = attempt
           /\ point \notin {"chain", "restart", "act"} => active' = FALSE
<1>1. 0 \in 0 .. MaxRetries
  BY LimitsAreNumbers
<1>2. CASE point \in {"chain", "restart", "act"}
  BY <1>2 DEF Goto, Types
<1>3. CASE point \notin {"chain", "restart", "act"}
  BY <1>1, <1>3 DEF Goto, Types
<1> QED
  BY <1>2, <1>3

\* What a heal leads to.
LEMMA AfterHealIs == AfterHeal \in {"act", "sleep"} /\ (~pulled => AfterHeal = "sleep")
BY DEF AfterHeal

LEMMA NoNewsKeepsInv == ASSUME Inv, NoNews \/ LoopError PROVE Inv'
<1>1. pc = "loop" /\ UNCHANGED <<running, repo, logs, faults>>
  BY DEF NoNews, LoopError
<1>2. PICK point \in {"periodic", "sleep"} : Goto(point)
  BY DEF NoNews, LoopError
<1>3. /\ pc' \in {"periodic", "sleep"} /\ ticked' = ticked
      /\ pulled' \in BOOLEAN /\ active' \in BOOLEAN /\ attempt' \in 0 .. MaxRetries
  BY <1>2, GotoMeans DEF Inv
<1>4. CountsKept /\ own' = own /\ healer' = healer
  BY <1>1, LogsKept
<1>5. Types'
  BY <1>1, <1>3 DEF Inv, Types, Points, repo, logs
<1> QED
  BY <1>1, <1>3, <1>4, <1>5, QuietStep DEF Inv, InSafeMode, Chain, ToRestart

LEMMA CheckKeepsInv == ASSUME Inv, Pull \/ Periodic PROVE Inv'
<1>1. /\ pc \in {"loop", "periodic"}
      /\ pc' \in {"guard", "periodic", "sleep"} /\ (pc = "periodic" => ~pulled')
      /\ attempt' = 0 /\ active' = FALSE
      /\ broken' \in BOOLEAN /\ importable' \in BOOLEAN /\ news' \in BOOLEAN
      /\ UNCHANGED <<ticked, running, logs, faults>>
  BY DEF Pull, Periodic, Check, Rewritten, Inv, Types, repo
<1>2. pulled' \in BOOLEAN
  BY DEF Pull, Periodic, Check
<1>3. CountsKept /\ own' = own /\ healer' = healer
  BY <1>1, LogsKept
<1>4. Types'
  <2>1. 0 \in 0 .. MaxRetries
    BY LimitsAreNumbers
  <2> QED
    BY <1>1, <1>2, <2>1 DEF Inv, Types, Points, logs
<1> QED
  BY <1>1, <1>3, <1>4, QuietStep DEF Inv, InSafeMode, Chain, ToRestart

LEMMA AwakeKeepsInv == ASSUME Inv, Awake PROVE Inv'
<1>1. /\ pc = "sleep" /\ pc' = (IF running THEN "loop" ELSE "down") /\ ticked' = FALSE
      /\ UNCHANGED <<pulled, attempt, active, running, broken, importable, news, logs, faults>>
  BY DEF Awake, repo
<1>2. CountsKept /\ own' = own /\ healer' = healer
  BY <1>1, LogsKept
<1>3. Types'
  BY <1>1 DEF Inv, Types, Points, logs
<1> QED
  BY <1>1, <1>2, <1>3, QuietStep DEF Inv, InSafeMode, Chain, ToRestart

\* The guard begins the chain or not: what counts is below the limit, whether the
\* guard has read it or overlooks it.
LEMMA GuardStep ==
    ASSUME Inv, pc = "guard", NEW point \in {AfterHeal, "chain"}, Goto(point),
           CountsKept, own' = own, healer' = healer, UNCHANGED <<running, repo>>,
           faults' \in 0 .. MaxFaults,
           point = "chain" => Total(counted') < MaxRestarts
    PROVE  Inv'
<1>1. /\ pc' = point /\ ticked' = ticked
      /\ pulled' \in BOOLEAN /\ active' \in BOOLEAN /\ attempt' \in 0 .. MaxRetries
      /\ (pulled' => pulled) /\ (active' => active)
  BY GotoMeans DEF Inv
<1>2. point \in {"act", "sleep", "chain"} /\ (~pulled => point # "act") /\ ~active
  BY AfterHealIs DEF Inv, NotYetActive
<1>3. Types'
  BY <1>1, <1>2 DEF Inv, Types, Points, repo, CountsKept
<1> QED
  BY <1>1, <1>2, <1>3, QuietStep DEF Inv, InSafeMode, Chain, ToRestart

LEMMA GuardKeepsInv == ASSUME Inv, Guard PROVE Inv'
<1>1. CountsKept /\ own' = own /\ healer' = healer /\ counted' = counted
  BY LogsKept DEF Guard, logs
<1>2. Total(counted) <= Total(records) /\ Total(counted) \in Nat /\ Total(records) \in Nat
  BY LogCounts, AgesAreNumbers DEF Inv, Readable, Total
<1>3. faults' \in 0 .. MaxFaults
  BY DEF Guard, Inv, Types
<1>4. CASE Recent(records) >= MaxRestarts
  <2>1. Goto(AfterHeal) /\ AfterHeal # "chain"
    BY <1>4, AfterHealIs DEF Guard
  <2> QED
    BY <1>1, <1>3, <2>1, GuardStep DEF Guard
<1>5. CASE ~(Recent(records) >= MaxRestarts)
  <2>1. Goto("chain") /\ Total(counted') < MaxRestarts
    BY <1>1, <1>2, <1>5, LimitsAreNumbers DEF Guard, Recent
  <2> QED
    BY <1>1, <1>3, <2>1, GuardStep DEF Guard
<1> QED
  BY <1>4, <1>5

LEMMA GuardBlindKeepsInv == ASSUME Inv, GuardBlind PROVE Inv'
<1>1. CountsKept /\ own' = own /\ healer' = healer
  BY OverlookedKeeps DEF GuardBlind, Inv, Types
<1>2. Total(counted') < MaxRestarts
  BY NoneCounts, AgesAreNumbers, LimitsAreNumbers DEF GuardBlind, Overlooked, Total
<1>3. faults' \in 0 .. MaxFaults
  BY LimitsAreNumbers DEF GuardBlind, Inv, Types
<1> QED
  BY <1>1, <1>2, <1>3, GuardStep DEF GuardBlind

LEMMA CheckFailsKeepsInv == ASSUME Inv, CheckFails PROVE Inv'
<1>1. CountsKept /\ own' = own /\ healer' = healer
  BY LogsKept DEF CheckFails
<1>2. faults' \in 0 .. MaxFaults
  BY LimitsAreNumbers DEF CheckFails, Inv, Types
<1>3. AfterHeal # "chain"
  BY AfterHealIs
<1> QED
  BY <1>1, <1>2, <1>3, GuardStep DEF CheckFails

\* An attempt that fails is the last one or leads to the next.
LEMMA AttemptEndsIn ==
    ASSUME AttemptEnds, Types
    PROVE  /\ pc' \in {"chain", AfterHeal} /\ attempt' \in 0 .. MaxRetries
           /\ pc' = "chain" => attempt' = attempt + 1
           /\ pulled' \in BOOLEAN /\ active' \in BOOLEAN
           /\ (pulled' => pulled) /\ (active' => active)
           /\ ticked' = ticked
<1>1. attempt \in 0 .. MaxRetries /\ attempt \in Nat /\ AfterHeal # "chain"
  BY LimitsAreNumbers, AfterHealIs DEF Types
<1>2. CASE attempt < MaxRetries
  BY <1>1, <1>2, LimitsAreNumbers DEF AttemptEnds, Types
<1>3. CASE ~(attempt < MaxRetries)
  BY <1>1, <1>3, GotoMeans DEF AttemptEnds
<1> QED
  BY <1>2, <1>3

LEMMA ChainPullKeepsInv == ASSUME Inv, ChainPull PROVE Inv'
<1>1. /\ pc = "chain" /\ UNCHANGED <<running, logs, faults>> /\ ~active
      /\ attempt \in Nat /\ Types
  BY LimitsAreNumbers DEF ChainPull, Inv, NotYetActive, Types
<1>2. CountsKept /\ own' = own /\ healer' = healer
  BY <1>1, LogsKept
<1>3. broken' \in BOOLEAN /\ importable' \in BOOLEAN /\ news' \in BOOLEAN
  BY <1>1 DEF ChainPull, Rewritten, repo, Types
<1>4. CASE Goto("restart")
  <2>1. /\ pc' = "restart"
        /\ UNCHANGED <<pulled, attempt, active, ticked>>
    BY <1>1, <1>4, GotoMeans
  <2>2. Types'
    BY <1>1, <1>3, <2>1 DEF Types, Points, logs
  <2>3. attempt' >= attempt
    BY <1>1, <2>1
  <2> QED
    BY <1>1, <1>2, <2>1, <2>2, <2>3, QuietStep DEF Inv, InSafeMode, Chain, ToRestart
<1>5. CASE AttemptEnds
  <2>1. /\ pc' \in {"chain", AfterHeal} /\ attempt' \in 0 .. MaxRetries
        /\ pc' = "chain" => attempt' = attempt + 1
        /\ pulled' \in BOOLEAN /\ active' \in BOOLEAN
        /\ (pulled' => pulled) /\ (active' => active)
        /\ ticked' = ticked
    BY <1>1, <1>5, AttemptEndsIn
  <2>2. pc' \in {"chain", "act", "sleep"} /\ (~pulled => pc' # "act")
    BY <2>1, AfterHealIs
  <2>3. Types'
    BY <1>1, <1>3, <2>1, <2>2 DEF Types, Points, logs
  <2>4. pc' = "chain" => attempt' >= attempt
    BY <1>1, <2>1
  <2> QED
    BY <1>1, <1>2, <2>1, <2>2, <2>3, <2>4, QuietStep DEF Inv, InSafeMode, Chain, ToRestart
<1> QED
  BY <1>4, <1>5 DEF ChainPull

LEMMA ChainRestartKeepsInv == ASSUME Inv, ChainRestart PROVE Inv'
<1>1. /\ pc = "restart" /\ pc' = "record" /\ healer' = OneMore(healer) /\ active' \in BOOLEAN
      /\ UNCHANGED <<pulled, attempt, ticked, running, broken, importable, news,
                     records, own, counted, lost, faults>>
  BY DEF ChainRestart, repo
<1>2. /\ OneMore(healer) \in Log
      /\ \A a \in Ages : Counts(healer')[a] = Counts(healer)[a] + 1
  BY <1>1, OneMoreCounts DEF Inv, Types
<1>3. Types'
  BY <1>1, <1>2 DEF Inv, Types, Points
<1>4. EachRecorded'
  <2> SUFFICES ASSUME NEW a \in Ages
               PROVE  Counts(healer')[a] <= Counts(counted)[a] + Counts(lost)[a] + 1
    BY <1>1 DEF EachRecorded, One
  <2>1. Counts(healer)[a] <= Counts(counted)[a] + Counts(lost)[a] + 0
    BY <1>1 DEF Inv, EachRecorded, One
  <2> QED
    BY <1>2, <2>1, LogCounts DEF Inv
<1>5. Readable' /\ WithinLimit' /\ NotYetActive' /\ InSafeMode'
  BY <1>1 DEF Inv, Readable, WithinLimit, NotYetActive, InSafeMode, Total, Chain
<1>6. ~ToRestart /\ ~ToRestart'
  BY <1>1 DEF ToRestart
<1>7. FollowsHealer' /\ OneLeft'
  BY <1>1, <1>6 DEF Inv, FollowsHealer, OneLeft, Chain, One
<1> QED
  BY <1>3, <1>4, <1>5, <1>7 DEF Inv

\* Where the chain is after a restart that has been recorded or lost.
LEMMA RecordEndsIn ==
    ASSUME RecordEnds, Inv
    PROVE  /\ pc' \in {"chain", "act", "sleep"} /\ (~pulled => pc' # "act")
           /\ attempt' \in 0 .. MaxRetries
           /\ pc' = "chain" => attempt' = attempt + 1 /\ ~active'
           /\ pulled' \in BOOLEAN /\ active' \in BOOLEAN
           /\ (pulled' => pulled)
           /\ ticked' = ticked
<1>1. Types /\ AfterHeal # "chain"
  BY AfterHealIs DEF Inv
<1>2. CASE active
  <2>1. Goto(AfterHeal)
    BY <1>2 DEF RecordEnds
  <2> QED
    BY <1>1, <2>1, GotoMeans, AfterHealIs
<1>3. CASE ~active
  <2>1. AttemptEnds
    BY <1>3 DEF RecordEnds
  <2> QED
    BY <1>1, <1>3, <2>1, AttemptEndsIn, AfterHealIs
<1> QED
  BY <1>2, <1>3

\* The restart counts now, or is overlooked, and so may be those before it.
OneCountsMore ==
    /\ records' \in Log /\ counted' \in Log /\ lost' \in Log
    /\ \A a \in Ages :
          /\ Counts(counted')[a] + Counts(lost')[a] = Counts(counted)[a] + Counts(lost)[a] + 1
          /\ Counts(lost')[a] >= Counts(lost)[a]
          /\ Counts(counted')[a] <= Counts(counted)[a] + 1
          /\ Counts(counted')[a] <= Counts(records')[a]
          /\ Counts(counted')[a] \in Nat /\ Counts(lost')[a] \in Nat

LEMMA RecordStep ==
    ASSUME Inv, pc = "record", RecordEnds, OneCountsMore,
           UNCHANGED <<running, repo, own, healer>>, faults' \in 0 .. MaxFaults
    PROVE  Inv'
<1>1. /\ pc' \in {"chain", "act", "sleep"} /\ (~pulled => pc' # "act")
      /\ attempt' \in 0 .. MaxRetries
      /\ pc' = "chain" => attempt' = attempt + 1 /\ ~active'
      /\ pulled' \in BOOLEAN /\ active' \in BOOLEAN
      /\ (pulled' => pulled)
      /\ ticked' = ticked
  BY RecordEndsIn
<1>2. Types /\ broken' = broken /\ importable' = importable /\ news' = news
  BY DEF Inv, repo
<1>3. \A a \in Ages : Counts(counted)[a] \in Nat /\ Counts(lost)[a] \in Nat
                      /\ Counts(own)[a] \in Nat
  BY <1>2, LogCounts
<1>4. Types'
  BY <1>1, <1>2 DEF Types, Points, OneCountsMore
<1>5. EachRecorded' /\ Readable'
  <2>1. ASSUME NEW a \in Ages
        PROVE  Counts(healer)[a] <= Counts(counted')[a] + Counts(lost')[a] + 0
    <3>1. Counts(healer)[a] <= Counts(counted)[a] + Counts(lost)[a] + 1
      BY DEF Inv, EachRecorded, One
    <3> QED
      BY <1>3, <3>1 DEF OneCountsMore
  <2>2. One(pc' = "record") = 0
    BY <1>1 DEF One
  <2> QED
    BY <2>1, <2>2 DEF EachRecorded, Readable, OneCountsMore
<1>6. WithinLimit'
  <2>1. Total(counted) + 1 <= MaxRestarts + attempt /\ attempt \in 0 .. MaxRetries
    BY <1>2 DEF Inv, WithinLimit, Types, Chain
  <2>2. /\ Total(counted') \in Nat /\ Total(counted') <= Total(counted) + 1
        /\ Total(counted) \in Nat
    BY <1>3, AgesAreNumbers DEF OneCountsMore, Total
  <2>3. pc' \in Chain => attempt' = attempt + 1
    BY <1>1 DEF Chain
  <2> QED
    BY <2>1, <2>2, <2>3, LimitsAreNumbers DEF WithinLimit
<1>7. NotYetActive'
  BY <1>1 DEF NotYetActive
<1>8. FollowsHealer'
  <2>1. \A a \in YoungerAges :
           Counts(own)[a] + 0 <= Counts(counted)[a + 1] + Counts(lost)[a + 1]
    BY DEF Inv, FollowsHealer, One, ToRestart
  <2>2. ASSUME NEW a \in YoungerAges, NEW d \in {0, 1}
        PROVE  Counts(own)[a] + d <= Counts(counted')[a + 1] + Counts(lost')[a + 1]
    <3>1. a \in Ages /\ a + 1 \in Ages
      BY YoungerAgesHaveNext
    <3>2. Counts(counted')[a + 1] + Counts(lost')[a + 1]
             = Counts(counted)[a + 1] + Counts(lost)[a + 1] + 1
      BY <3>1 DEF OneCountsMore
    <3> QED
      BY <1>3, <2>1, <3>1, <3>2
  <2>3. Counts(counted')[0] + Counts(lost')[0] >= 1
    <3>1. /\ Counts(counted')[0] + Counts(lost')[0] = Counts(counted)[0] + Counts(lost)[0] + 1
          /\ Counts(counted)[0] \in Nat /\ Counts(lost)[0] \in Nat
      BY <1>3, AgesAreNumbers DEF OneCountsMore
    <3> QED
      BY <3>1
  <2> QED
    BY <2>2, <2>3 DEF FollowsHealer, One
<1>9. OneLeft'
  <2> SUFFICES ASSUME NEW a \in YoungerAges
               PROVE  Counts(own)[a] + 1 <= MaxRestarts + Counts(lost')[a + 1]
    BY DEF OneLeft
  <2>1. Counts(own)[a] + 1 <= MaxRestarts + Counts(lost)[a + 1]
    BY DEF Inv, OneLeft, Chain
  <2>2. a \in Ages /\ a + 1 \in Ages
    BY YoungerAgesHaveNext
  <2>3. Counts(lost')[a + 1] >= Counts(lost)[a + 1] /\ Counts(lost')[a + 1] \in Nat
    BY <2>2 DEF OneCountsMore
  <2> QED
    BY <1>3, <2>1, <2>2, <2>3, LimitsAreNumbers
<1>10. InSafeMode'
  <2>1. Total(own) > MaxRestarts => ~running /\ ~pulled
    BY DEF Inv, InSafeMode, Chain
  <2> QED
    BY <1>1, <2>1 DEF InSafeMode, Total, Chain
<1> QED
  BY <1>4, <1>5, <1>6, <1>7, <1>8, <1>9, <1>10 DEF Inv

\* The record is entered, is not saved, or is saved alone.
LEMMA RecordsKeepInv == ASSUME Inv, Record \/ RecordLost \/ RecordAlone PROVE Inv'
<1>1. faults' \in 0 .. MaxFaults
  BY LimitsAreNumbers DEF Record, RecordLost, RecordAlone, Inv, Types
<1>2. pc = "record" /\ RecordEnds /\ UNCHANGED <<running, repo, own, healer>>
  BY DEF Record, RecordLost, RecordAlone
<1>3. Types /\ records \in Log /\ counted \in Log /\ lost \in Log
  BY DEF Inv, Types
<1>4. \A a \in Ages : /\ Counts(counted)[a] \in Nat /\ Counts(lost)[a] \in Nat
                      /\ Counts(records)[a] \in Nat
                      /\ Counts(counted)[a] <= Counts(records)[a]
  BY <1>3, LogCounts DEF Inv, Readable
<1>5. CASE Record
  <2>1. /\ records' = OneMore(records) /\ counted' = OneMore(counted) /\ lost' = lost
    BY <1>5 DEF Record
  <2>2. /\ records' \in Log /\ counted' \in Log
        /\ \A a \in Ages : /\ Counts(records')[a] = Counts(records)[a] + 1
                           /\ Counts(counted')[a] = Counts(counted)[a] + 1
    BY <1>3, <2>1, OneMoreCounts
  <2>3. OneCountsMore
    BY <1>3, <1>4, <2>1, <2>2 DEF OneCountsMore
  <2> QED
    BY <1>1, <1>2, <2>3, RecordStep
<1>6. CASE RecordLost
  <2>1. records' = records /\ counted' = counted /\ lost' = OneMore(lost)
    BY <1>6 DEF RecordLost
  <2>2. lost' \in Log /\ \A a \in Ages : Counts(lost')[a] = Counts(lost)[a] + 1
    BY <1>3, <2>1, OneMoreCounts
  <2>3. OneCountsMore
    BY <1>3, <1>4, <2>1, <2>2 DEF OneCountsMore
  <2> QED
    BY <1>1, <1>2, <2>3, RecordStep
<1>7. CASE RecordAlone
  <2>1. /\ records' = OneMore(None) /\ counted' = OneMore(None)
        /\ lost' = Merge(lost, counted)
    BY <1>7 DEF RecordAlone
  <2>2. /\ records' \in Log /\ counted' \in Log
        /\ \A a \in Ages : Counts(records')[a] = 1 /\ Counts(counted')[a] = 1
    BY <2>1, OneMoreCounts, NoneCounts
  <2>3. /\ lost' \in Log
        /\ \A a \in Ages : Counts(lost')[a] = Counts(lost)[a] + Counts(counted)[a]
    BY <1>3, <2>1, MergeCounts
  <2>4. OneCountsMore
    BY <1>4, <2>2, <2>3 DEF OneCountsMore
  <2> QED
    BY <1>1, <1>2, <2>4, RecordStep
<1> QED
  BY <1>5, <1>6, <1>7

\* The daemon restarts the service: the healer's restart in the same pass counts,
\* or is overlooked, so that the daemon's own limit is not passed.
LEMMA RestartWorkerKeepsInv == ASSUME Inv, ToRestart, RestartWorker PROVE Inv'
<1>0. PICK point \in {"periodic", "sleep"} :
         /\ Goto(point)
         /\ Total(own') > MaxRestarts => running' = FALSE /\ point = "periodic"
  BY DEF RestartWorker
<1>1. /\ own' = OneMore(Pruned(own)) /\ pc = "act"
      /\ running' \in {running, FALSE}
      /\ UNCHANGED <<broken, importable, news, records, healer, counted, lost, faults>>
  BY DEF RestartWorker, repo, ToRestart
<1>2. own \in Log /\ Types /\ running \in BOOLEAN
  BY DEF Inv, Types
<1>3. /\ own' \in Log
      /\ \A a \in YoungerAges : Counts(own')[a] = Counts(own)[a] + 1
  BY <1>1, <1>2, PrunedCounts, OneMoreCounts, YoungerAgesHaveNext
<1>4. /\ pc' \in {"periodic", "sleep"} /\ ticked' = ticked
      /\ pulled' \in BOOLEAN /\ active' \in BOOLEAN /\ attempt' \in 0 .. MaxRetries
      /\ Total(own') > MaxRestarts => running' = FALSE /\ pc' = "periodic"
  BY <1>0, <1>2, GotoMeans
<1>5. Types'
  BY <1>1, <1>2, <1>3, <1>4 DEF Types, Points
<1>6. Readable' /\ EachRecorded' /\ WithinLimit' /\ NotYetActive'
  BY <1>1, <1>4 DEF Inv, Readable, EachRecorded, WithinLimit, NotYetActive, Total, One, Chain
<1>7. ~ToRestart' /\ pc' \notin Chain
  BY <1>4 DEF ToRestart, Chain
<1>8. FollowsHealer'
  <2> SUFFICES ASSUME NEW a \in YoungerAges
               PROVE  Counts(own')[a] + 0 <= Counts(counted)[a + 1] + Counts(lost)[a + 1]
    BY <1>1, <1>7 DEF FollowsHealer, One
  <2>1. Counts(own)[a] + 1 <= Counts(counted)[a + 1] + Counts(lost)[a + 1]
    BY DEF Inv, FollowsHealer, One
  <2> QED
    BY <1>2, <1>3, <2>1, LogCounts, YoungerAgesHaveNext
<1>9. OneLeft'
  BY <1>7 DEF OneLeft
<1>10. InSafeMode'
  BY <1>4 DEF InSafeMode
<1> QED
  BY <1>5, <1>6, <1>8, <1>9, <1>10 DEF Inv

LEMMA ActKeepsInv == ASSUME Inv, Act PROVE Inv'
<1>1. CASE active
  BY <1>1, RestartWorkerKeepsInv DEF Act, ToRestart
<1>2. CASE ~active
  <2>1. /\ pc = "act" /\ Goto("periodic") /\ UNCHANGED <<running, repo, logs, faults>>
    BY <1>2 DEF Act
  <2>2. /\ pc' = "periodic" /\ ticked' = ticked
        /\ pulled' \in BOOLEAN /\ active' \in BOOLEAN /\ attempt' \in 0 .. MaxRetries
    BY <2>1, GotoMeans DEF Inv
  <2>3. CountsKept /\ own' = own /\ healer' = healer
    BY <2>1, LogsKept
  <2>4. Types'
    BY <2>1, <2>2 DEF Inv, Types, Points, repo, logs
  <2> QED
    BY <2>1, <2>2, <2>3, <2>4, QuietStep DEF Inv, InSafeMode, Chain, ToRestart
<1> QED
  BY <1>1, <1>2

\* A new process of the guardian has forgotten its own restarts, and begins with an
\* empty history.
LEMMA StartKeepsInv == ASSUME Inv, Start PROVE Inv'
<1>1. /\ pc = "down" /\ pc' = "loop" /\ running' = TRUE /\ own' = None /\ ticked' = FALSE
      /\ records' = None /\ Overlooked
      /\ UNCHANGED <<pulled, attempt, active, broken, importable, news, healer, faults>>
  BY DEF Start, repo
<1>2. own' \in Log /\ records' \in Log /\ \A a \in Ages : Counts(own')[a] = 0
  BY <1>1, NoneCounts
<1>3. CountsKept /\ Types
  BY <1>1, <1>2, OverlookedKeeps DEF Inv
<1>4. Types'
  BY <1>1, <1>2, <1>3 DEF Types, Points, CountsKept
<1>5. \A a \in Ages :
         /\ Counts(counted')[a] + Counts(lost')[a] = Counts(counted)[a] + Counts(lost)[a]
         /\ Counts(counted')[a] <= Counts(records')[a]
         /\ Counts(counted')[a] \in Nat /\ Counts(lost')[a] \in Nat
  BY <1>3 DEF CountsKept
<1>6. Readable' /\ EachRecorded'
  <2>1. ASSUME NEW a \in Ages
        PROVE  Counts(healer)[a] <= Counts(counted')[a] + Counts(lost')[a] + 0
    <3>1. Counts(healer)[a] <= Counts(counted)[a] + Counts(lost)[a] + 0
      BY <1>1 DEF Inv, EachRecorded, One
    <3> QED
      BY <1>5, <3>1
  <2> QED
    BY <1>1, <1>5, <2>1 DEF Readable, EachRecorded, One
<1>7. WithinLimit'
  <2>1. Total(counted') = 0
    BY <1>1, NoneCounts, AgesAreNumbers DEF Overlooked, Total
  <2> QED
    BY <1>1, <2>1, LimitsAreNumbers DEF WithinLimit, Chain
<1>8. NotYetActive' /\ OneLeft'
  BY <1>1 DEF NotYetActive, OneLeft, Chain, ToRestart
<1>9. FollowsHealer'
  <2>1. \A a \in YoungerAges :
           Counts(own')[a] + 0 <= Counts(counted')[a + 1] + Counts(lost')[a + 1]
    BY <1>2, <1>5, YoungerAgesHaveNext
  <2> QED
    BY <1>1, <2>1 DEF FollowsHealer, One, ToRestart
<1>10. InSafeMode'
  <2>1. Total(own') = 0
    BY <1>2, AgesAreNumbers DEF Total
  <2> QED
    BY <2>1, LimitsAreNumbers DEF InSafeMode
<1> QED
  BY <1>4, <1>6, <1>7, <1>8, <1>9, <1>10 DEF Inv

\* A guardian that dies between a restart and its record has lost that record.
LEMMA DieKeepsInv == ASSUME Inv, Die PROVE Inv'
<1>1. /\ Goto("down") /\ running' = FALSE /\ faults < MaxFaults /\ faults' = faults + 1
      /\ lost' = IF pc = "record" THEN OneMore(lost) ELSE lost
      /\ UNCHANGED <<broken, importable, news, records, own, healer, counted>>
  BY DEF Die, repo
<1>2. Types /\ lost \in Log
  BY DEF Inv, Types
<1>3. /\ pc' = "down" /\ ticked' = ticked
      /\ pulled' \in BOOLEAN /\ active' \in BOOLEAN /\ attempt' \in 0 .. MaxRetries
  BY <1>1, <1>2, GotoMeans
<1>4. /\ lost' \in Log
      /\ \A a \in Ages : Counts(lost')[a] = Counts(lost)[a] + One(pc = "record")
  <2>1. CASE pc = "record"
    BY <1>1, <1>2, <2>1, OneMoreCounts DEF One
  <2>2. CASE pc # "record"
    BY <1>1, <1>2, <2>2, LogCounts DEF One
  <2> QED
    BY <2>1, <2>2
<1>5. Types'
  <2>1. faults' \in 0 .. MaxFaults
    BY <1>1, <1>2, LimitsAreNumbers DEF Types
  <2> QED
    BY <1>1, <1>2, <1>3, <1>4, <2>1 DEF Types, Points
<1>6. One(pc = "record") \in {0, 1} /\ One(ToRestart) \in {0, 1}
  BY DEF One
<1>7. EachRecorded'
  <2> SUFFICES ASSUME NEW a \in Ages
               PROVE  Counts(healer)[a] <= Counts(counted)[a] + Counts(lost')[a] + 0
    BY <1>1, <1>3 DEF EachRecorded, One
  <2>1. Counts(healer)[a] <= Counts(counted)[a] + Counts(lost)[a] + One(pc = "record")
    BY DEF Inv, EachRecorded
  <2> QED
    BY <1>2, <1>4, <1>6, <2>1, LogCounts
<1>8. Readable' /\ WithinLimit' /\ NotYetActive' /\ OneLeft'
  BY <1>1, <1>3
     DEF Inv, Readable, WithinLimit, NotYetActive, OneLeft, Total, Chain, ToRestart
<1>9. FollowsHealer'
  <2> SUFFICES ASSUME NEW a \in YoungerAges
               PROVE  Counts(own)[a] + 0 <= Counts(counted)[a + 1] + Counts(lost')[a + 1]
    BY <1>1, <1>3 DEF FollowsHealer, One, ToRestart
  <2>1. Counts(own)[a] + One(ToRestart) <= Counts(counted)[a + 1] + Counts(lost)[a + 1]
    BY DEF Inv, FollowsHealer
  <2>2. a \in Ages /\ a + 1 \in Ages
    BY YoungerAgesHaveNext
  <2> QED
    BY <1>2, <1>4, <1>6, <2>1, <2>2, LogCounts
<1>10. InSafeMode'
  BY <1>1, <1>3 DEF InSafeMode
<1> QED
  BY <1>5, <1>7, <1>8, <1>9, <1>10 DEF Inv

LEMMA TickKeepsInv == ASSUME Inv, Tick PROVE Inv'
<1>1. /\ pc' = pc /\ ticked' \in BOOLEAN
      /\ pc \in {"sleep", "down"} \/ (~ticked /\ ticked')
      /\ UNCHANGED <<pulled, attempt, active, running, broken, importable, news, faults>>
      /\ records' = Older(records) /\ own' = Older(own)
      /\ healer' = Older(healer) /\ counted' = Older(counted) /\ lost' = Older(lost)
  BY DEF Tick, repo
<1>2. /\ Types /\ records \in Log /\ own \in Log /\ healer \in Log /\ lost \in Log
      /\ counted \in Log
  BY DEF Inv, Types
<1>3. /\ records' \in Log /\ own' \in Log /\ healer' \in Log /\ lost' \in Log
      /\ counted' \in Log
      /\ \A a \in Ages :
            /\ Counts(records')[a] = IF a = 0 THEN 0 ELSE Counts(records)[a - 1]
            /\ Counts(counted')[a] = IF a = 0 THEN 0 ELSE Counts(counted)[a - 1]
            /\ Counts(own')[a] = IF a = 0 THEN 0 ELSE Counts(own)[a - 1]
            /\ Counts(healer')[a] = IF a = 0 THEN 0 ELSE Counts(healer)[a - 1]
            /\ Counts(lost')[a] = IF a = 0 THEN 0 ELSE Counts(lost)[a - 1]
  BY <1>1, <1>2, OlderCounts
<1>4. Types'
  BY <1>1, <1>3 DEF Inv, Types
<1>5. ToRestart' = ToRestart /\ One(pc = "record") \in {0, 1} /\ One(ToRestart) \in {0, 1}
  BY <1>1 DEF ToRestart, One
<1>6. EachRecorded'
  <2> SUFFICES ASSUME NEW a \in Ages
               PROVE  Counts(healer')[a] <= Counts(counted')[a] + Counts(lost')[a]
                                              + One(pc = "record")
    BY <1>1 DEF EachRecorded
  <2>1. CASE a = 0
    BY <1>3, <1>5, <2>1
  <2>2. CASE a # 0
    <3>1. a - 1 \in Ages
      BY <2>2, AgesAreNumbers
    <3>2. Counts(healer)[a - 1] <= Counts(counted)[a - 1] + Counts(lost)[a - 1]
                                     + One(pc = "record")
      BY <3>1 DEF Inv, EachRecorded
    <3> QED
      BY <1>3, <2>2, <3>2
  <2> QED
    BY <2>1, <2>2
<1>7. /\ Total(counted') <= Total(counted) /\ Total(own') <= Total(own)
      /\ Total(counted') \in Nat /\ Total(own') \in Nat
  BY <1>2, <1>3, LogCounts, AgesAreNumbers DEF Total
<1>8. WithinLimit'
  <2>1. Total(counted) \in Nat /\ attempt \in Nat
    BY <1>2, LogCounts, LimitsAreNumbers DEF Types
  <2> QED
    BY <1>1, <1>7, <2>1, LimitsAreNumbers DEF Inv, WithinLimit
<1>9. NotYetActive'
  BY <1>1 DEF Inv, NotYetActive
<1>10. FollowsHealer'
  <2>1. ToRestart => ~ticked /\ ticked' /\ Counts(counted)[0] + Counts(lost)[0] >= 1
    BY <1>1 DEF Inv, FollowsHealer, ToRestart
  <2>2. ASSUME NEW a \in YoungerAges
        PROVE  Counts(own')[a] + One(ToRestart) <= Counts(counted')[a + 1] + Counts(lost')[a + 1]
    <3>1. /\ a \in Ages /\ a + 1 \in Ages /\ a + 1 # 0 /\ (a + 1) - 1 = a
          /\ a # 0 => a - 1 \in YoungerAges /\ (a - 1) + 1 = a
      BY YoungerAgesHaveNext
    <3>2. /\ Counts(counted')[a + 1] = Counts(counted)[a]
          /\ Counts(lost')[a + 1] = Counts(lost)[a]
      BY <1>3, <3>1
    <3>3. CASE a = 0
      <4>1. Counts(own')[a] = 0
        BY <1>3, <3>1, <3>3
      <4>2. CASE ToRestart
        BY <2>1, <3>2, <3>3, <4>1, <4>2 DEF One
      <4>3. CASE ~ToRestart
        BY <1>2, <3>1, <3>2, <4>1, <4>3, LogCounts DEF One
      <4> QED
        BY <4>2, <4>3
    <3>4. CASE a # 0
      <4>1. Counts(own)[a - 1] + One(ToRestart)
              <= Counts(counted)[(a - 1) + 1] + Counts(lost)[(a - 1) + 1]
        BY <3>1, <3>4 DEF Inv, FollowsHealer
      <4>2. Counts(own')[a] = Counts(own)[a - 1]
        BY <1>3, <3>1, <3>4
      <4> QED
        BY <3>1, <3>2, <3>4, <4>1, <4>2
    <3> QED
      BY <3>3, <3>4
  <2> QED
    BY <1>5, <2>1, <2>2 DEF FollowsHealer
<1>11. OneLeft'
  <2>1. SUFFICES ASSUME pc \in Chain \/ ToRestart
                 PROVE  \A a \in YoungerAges :
                           Counts(own')[a] + 1 <= MaxRestarts + Counts(lost')[a + 1]
    BY <1>1, <1>5 DEF OneLeft
  <2>2. \A a \in YoungerAges : Counts(own)[a] + 1 <= MaxRestarts + Counts(lost)[a + 1]
    BY <2>1 DEF Inv, OneLeft
  <2>3. ASSUME NEW a \in YoungerAges
        PROVE  Counts(own')[a] + 1 <= MaxRestarts + Counts(lost')[a + 1]
    <3>1. /\ a \in Ages /\ a + 1 \in Ages /\ a + 1 # 0 /\ (a + 1) - 1 = a
          /\ a # 0 => a - 1 \in YoungerAges /\ (a - 1) + 1 = a
      BY YoungerAgesHaveNext
    <3>2. Counts(lost')[a + 1] = Counts(lost)[a] /\ Counts(lost)[a] \in Nat
      BY <1>2, <1>3, <3>1, LogCounts
    <3>3. CASE a = 0
      BY <1>3, <2>2, <3>1, <3>2, <3>3, LimitsAreNumbers
    <3>4. CASE a # 0
      <4>1. Counts(own)[a - 1] + 1 <= MaxRestarts + Counts(lost)[(a - 1) + 1]
        BY <2>2, <3>1, <3>4
      <4>2. Counts(own')[a] = Counts(own)[a - 1]
        BY <1>3, <3>1, <3>4
      <4> QED
        BY <3>1, <3>2, <3>4, <4>1, <4>2
    <3> QED
      BY <3>3, <3>4
  <2> QED
    BY <2>3
<1>12. InSafeMode'
  <2>1. Total(own') > MaxRestarts => Total(own) > MaxRestarts
    BY <1>2, <1>7, LogCounts, LimitsAreNumbers
  <2> QED
    BY <1>1, <2>1 DEF Inv, InSafeMode
<1>13. Readable'
  <2> SUFFICES ASSUME NEW a \in Ages PROVE Counts(counted')[a] <= Counts(records')[a]
    BY DEF Readable
  <2> QED
    BY <1>3, AgesAreNumbers DEF Inv, Readable
<1> QED
  BY <1>4, <1>6, <1>8, <1>9, <1>10, <1>11, <1>12, <1>13 DEF Inv

LEMMA WorldKeepsInv == ASSUME Inv, Commit \/ Edit \/ Signal \/ RecordsGone PROVE Inv'
<1>1. broken \in BOOLEAN /\ importable \in BOOLEAN /\ news \in BOOLEAN /\ Types
  BY DEF Inv, Types
<1>2. faults' \in 0 .. MaxFaults
  BY LimitsAreNumbers DEF Commit, Edit, Signal, RecordsGone, Inv, Types
<1>3. CASE Commit \/ Edit \/ Signal
  <2>1. CountsKept /\ own' = own /\ healer' = healer
    BY <1>3, LogsKept DEF Commit, Edit, Signal
  <2>2. UNCHANGED place /\ running' \in {running, FALSE}
    BY <1>3 DEF Commit, Edit, Signal
  <2>3. broken' \in BOOLEAN /\ importable' \in BOOLEAN /\ news' \in BOOLEAN
    BY <1>1, <1>3 DEF Commit, Edit, Signal, Rewritten, repo
  <2> QED
    BY <1>2, <2>1, <2>2, <2>3, WorldStep
<1>4. CASE RecordsGone
  <2>1. records' \in Log
    BY <1>4, NoneCounts DEF RecordsGone
  <2>2. CountsKept /\ own' = own /\ healer' = healer
    BY <1>1, <1>4, <2>1, OverlookedKeeps DEF RecordsGone
  <2>3. /\ UNCHANGED place /\ running' \in {running, FALSE}
        /\ broken' \in BOOLEAN /\ importable' \in BOOLEAN /\ news' \in BOOLEAN
    BY <1>1, <1>4 DEF RecordsGone, repo
  <2> QED
    BY <1>2, <2>2, <2>3, WorldStep
<1> QED
  BY <1>3, <1>4

LEMMA NextInv == ASSUME Inv, [Next]_vars PROVE Inv'
<1>1. CASE UNCHANGED vars
  <2>1. /\ UNCHANGED <<place, logs>> /\ running' = running
        /\ broken' = broken /\ importable' = importable /\ news' = news
        /\ faults' = faults
    BY <1>1 DEF vars, repo
  <2>2. /\ broken \in BOOLEAN /\ importable \in BOOLEAN /\ news \in BOOLEAN
        /\ faults \in 0 .. MaxFaults
    BY DEF Inv, Types
  <2>3. CountsKept /\ own' = own /\ healer' = healer
    BY <2>1, LogsKept
  <2> QED
    BY <2>1, <2>2, <2>3, WorldStep
<1>2. CASE Pass
  BY <1>2, NoNewsKeepsInv, CheckKeepsInv, ActKeepsInv, AwakeKeepsInv, GuardKeepsInv,
     ChainPullKeepsInv, ChainRestartKeepsInv, RecordsKeepInv DEF Pass
<1>3. CASE Start \/ Commit \/ Edit \/ Signal \/ Die \/ Tick
  BY <1>3, StartKeepsInv, WorldKeepsInv, DieKeepsInv, TickKeepsInv
<1>4. CASE GuardBlind \/ CheckFails \/ RecordLost \/ RecordAlone \/ RecordsGone
  BY <1>4, GuardBlindKeepsInv, CheckFailsKeepsInv, RecordsKeepInv, WorldKeepsInv
<1> QED
  BY <1>1, <1>2, <1>3, <1>4 DEF Next

LEMMA Invariance == Spec => []Inv
  BY InitInv, NextInv, PTL DEF Spec

-----------------------------------------------------------------------------
(***************************************************************************)
(* The theorems.                                                            *)
(***************************************************************************)

\* The types of the state, and that the chain makes at most MaxRetries attempts
\* after its first.
THEOREM TypeCorrect == Spec => []TypeOK
<1>1. Inv => TypeOK
  <2> SUFFICES ASSUME Types PROVE TypeOK
    BY DEF Inv
  <2>1. /\ pc \in Points /\ attempt \in 0 .. MaxRetries /\ faults \in 0 .. MaxFaults
        /\ {pulled, active, running, broken, importable, news, ticked} \subseteq BOOLEAN
    BY DEF Types
  <2>2. {records, own, healer, counted, lost} \subseteq [Ages -> Nat]
    BY DEF Types, Log
  <2> QED
    BY <2>1, <2>2, Zenon DEF TypeOK
<1> QED
  BY <1>1, Invariance, PTL

\* The restarts within a window: at most the limit of the guard, the retries of one
\* chain and the restarts the guard overlooked, whatever dies, fails to be read or
\* fails to be saved.
THEOREM RestartStormsAreBounded == Spec => []StormIsBounded
<1>1. Inv => StormIsBounded
  <2> SUFFICES ASSUME Inv PROVE StormIsBounded
    OBVIOUS
  <2>1. Window \in Ages /\ Counts(healer)[Window] \in Nat /\ Total(counted) \in Nat
        /\ Total(lost) \in Nat
    BY LogCounts, AgesAreNumbers DEF Inv
  <2>2. Total(healer) <= Total(counted) + Total(lost) + One(pc = "record")
    BY <2>1 DEF Inv, EachRecorded, Total
  <2>3. CASE pc = "record"
    <3>1. Total(counted) + 1 <= MaxRestarts + attempt /\ attempt \in 0 .. MaxRetries
      BY <2>3 DEF Inv, WithinLimit, Types, Chain
    <3> QED
      BY <2>1, <2>2, <2>3, <3>1, LimitsAreNumbers DEF StormIsBounded, One, Total
  <2>4. CASE pc # "record"
    <3>1. Total(counted) <= MaxRestarts + MaxRetries
      BY DEF Inv, WithinLimit
    <3> QED
      BY <2>1, <2>2, <2>4, <3>1, LimitsAreNumbers DEF StormIsBounded, One, Total
  <2> QED
    BY <2>3, <2>4
<1> QED
  BY <1>1, Invariance, PTL

\* The daemon enters safe mode only if the healer's guard overlooked a restart.
THEOREM SafeModeNeedsAnOverlookedRestart == Spec => SafeModeHasCause
<1>1. ASSUME Inv, Act, Total(own') > MaxRestarts PROVE Total(lost) > 0
  <2>1. Types /\ own \in Log /\ pc = "act"
    BY <1>1 DEF Inv, Types, Act
  <2>2. CASE ~active
    <3>1. own' = own
      BY <1>1, <2>2 DEF Act, logs
    <3>2. FALSE
      BY <1>1, <2>1, <3>1 DEF Inv, InSafeMode, Chain
    <3> QED
      BY <3>2
  <2>3. CASE active
    <3>1. own' = OneMore(Pruned(own))
      BY <1>1, <2>3 DEF Act, RestartWorker
    <3>2. Total(own') = Counts(own)[Window - 1] + 1
      BY <2>1, <3>1, PrunedCounts, OneMoreCounts, AgesAreNumbers DEF Total
    <3>3. Counts(own)[Window - 1] + 1 <= MaxRestarts + Counts(lost)[(Window - 1) + 1]
      BY <1>1, <2>1, <2>3, YoungerAgesHaveNext DEF Inv, OneLeft, ToRestart
    <3>4. (Window - 1) + 1 = Window /\ Window - 1 \in Ages
      BY AgesAreNumbers
    <3>5. Counts(own)[Window - 1] + 1 <= MaxRestarts + Total(lost)
      BY <3>3, <3>4 DEF Total
    <3> QED
      BY <1>1, <2>1, <3>2, <3>4, <3>5, LogCounts, LimitsAreNumbers
  <2> QED
    BY <2>2, <2>3
<1>2. Inv => (Act /\ Total(own') > MaxRestarts => Total(lost) > 0)
  BY <1>1
<1> QED
  BY <1>2, Invariance, PTL DEF SafeModeHasCause
=============================================================================
