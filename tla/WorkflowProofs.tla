--------------------------- MODULE WorkflowProofs ---------------------------
(* Proofs of the four safety invariants of the workflow engine, for any      *)
(* workflow and any number of runs of it.                                    *)
EXTENDS Workflow, WellFoundedInduction, TLAPS

(***************************************************************************)
(* The inductive invariant.  What is said of a run is said of the locals k *)
(* of its call of execute(), the nodes it began (B) and those that passed  *)
(* in it (P), the status st of the nodes and whether it has lost a child:  *)
(* so that the same formula speaks of the run before and after a step.     *)
(***************************************************************************)
RunLocals == [place : {"new", "wave", "turn", "done"},
              wave : Seq(Nodes), next : Seq(Nodes), busy : Nodes \cup {None},
              kids : SUBSET Nodes, open : SUBSET Nodes,
              success : BOOLEAN, error : BOOLEAN]

Follows(P, n) == \E p \in P : n \in ToSet(NextNodes[p])

\* The node in hand is the one the loop is at, and what is still to do of a
\* PARALLEL node are children of that node.
Tidy(k) ==
    /\ k.place \in {"new", "done"} => k.busy = None
    /\ k.busy = None => k.kids = {}
    /\ k.open \subseteq k.kids
    /\ k.busy # None =>
          /\ k.kids \subseteq ToSet(Children[k.busy])
          /\ Kind[k.busy] \in {"http", "parallel"}
          /\ k.place = "wave" => k.wave # <<>> /\ k.busy = Head(k.wave)
          /\ k.place = "turn" => k.next # <<>> /\ k.busy = Head(k.next)
    /\ k.error => k.place = "done" /\ ~k.success

\* Every node a run has before it follows one that passed in the run.
Sourced(k, B, P) ==
    /\ \A n \in ToSet(k.wave) : Follows(P, n) \/ (k.place # "turn" /\ n = StartNode)
    /\ \A n \in ToSet(k.next) : Follows(P, n)
    /\ k.busy # None => k.busy \in B
    /\ \A n \in B : \/ n = StartNode
                    \/ Follows(P, n)
                    \/ \E p \in B : n \in ToSet(Children[p])
    /\ k.success => \E n \in Nodes : IsEnd(n) /\ Follows(P, n)

\* The status of a child that is over is the one this run has given it.
Settled(k, P, st, lost) ==
    k.busy # None =>
       \A c \in ToSet(Children[k.busy]) \ k.kids :
          /\ st[c] = "PASSED" => c \in P
          /\ ~lost => st[c] = "PASSED"

\* The nodes on the way to an END node, if there is a way.
Way == CHOOSE ns \in SUBSET Nodes : OnTheWay(ns)

\* A run that has lost nothing has a node on the way before it.
Hopeful(k, lost) ==
    LeadsToEnd /\ ~lost /\ ~k.success /\ ~k.error /\ k.place # "new" =>
       /\ k.place # "done"
       /\ \E n \in ToSet(k.wave) \cup ToSet(k.next) : n \in Way
       /\ k.place = "wave" => \A n \in ToSet(k.wave) : ~IsEnd(n)

RunOK(k, B, P, st, lost, over) ==
    /\ Tidy(k)
    /\ over \/ (Sourced(k, B, P) /\ Settled(k, P, st, lost) /\ Hopeful(k, lost))

\* A node that says RUNNING is in the hands of a run.
Holds(k, n) == k.place \notin {"new", "done"} /\ (k.busy = n \/ n \in k.open)

Types ==
    /\ status \in [Nodes -> {"PENDING", "RUNNING", "PASSED", "FAILED"}]
    /\ run \in [Runs -> RunLocals]
    /\ begun \in [Runs -> SUBSET Nodes] /\ passed \in [Runs -> SUBSET Nodes]
    /\ lostChild \subseteq Runs
    /\ overlapped \in BOOLEAN /\ cancelled \in BOOLEAN

EachRun ==
    \A r \in Runs : RunOK(run[r], begun[r], passed[r], status, r \in lostChild, overlapped)

\* Until two runs have overlapped there is one under way at most.
OneAtATime == overlapped \/ \A q, r \in Runs : UnderWay(q) /\ UnderWay(r) => q = r

RunningIsHeld ==
    cancelled \/ \A n \in Nodes : status[n] = "RUNNING" => \E r \in Runs : Holds(run[r], n)

Inv == Types /\ EachRun /\ OneAtATime /\ RunningIsHeld

-----------------------------------------------------------------------------
(***************************************************************************)
(* Induction over data.  The induction theorems of the library take a       *)
(* predicate; this one takes the set of the numbers for which it holds.     *)
(***************************************************************************)

\* A set of naturals with 0 and with the successors of its elements is all of them.
LEMMA SetInduction ==
    ASSUME NEW S, S \subseteq Nat, 0 \in S, \A n \in S : n + 1 \in S
    PROVE  S = Nat
<1> DEFINE Out == Nat \ S
<1>1. SUFFICES ASSUME Out # {} PROVE FALSE
  OBVIOUS
<1>2. Out \subseteq Nat
  OBVIOUS
<1>3. \E x \in Out : \A y \in Out : ~(<<y, x>> \in OpToRel(<, Nat))
  <2> HIDE DEF Out
  <2> QED
    BY NatLessThanWellFounded, <1>1, <1>2, WFMin, Zenon
<1>4. \E x \in Out : \A y \in Out : ~(y < x)
  BY <1>3, Zenon DEF OpToRel
<1>5. PICK x \in Out : \A y \in Out : ~(y < x)
  BY <1>4, Zenon
<1>6. x \in Nat /\ x # 0
  BY <1>5
<1>7. x - 1 \in S
  BY <1>5, <1>6
<1> QED
  BY <1>5, <1>6, <1>7

(***************************************************************************)
(* Sequences                                                                *)
(***************************************************************************)

LEMMA HeadAndTail ==
    ASSUME NEW S, NEW s \in Seq(S), s # <<>>
    PROVE  /\ Head(s) \in S /\ Tail(s) \in Seq(S)
           /\ Head(s) \in ToSet(s) /\ ToSet(Tail(s)) \subseteq ToSet(s)
           /\ \A x \in ToSet(s) : x = Head(s) \/ x \in ToSet(Tail(s))
<1>1. /\ Len(s) \in Nat \ {0} /\ Head(s) = s[1] /\ Head(s) \in S
      /\ Tail(s) \in Seq(S) /\ Len(Tail(s)) = Len(s) - 1
      /\ \A i \in 1 .. (Len(s) - 1) : Tail(s)[i] = s[i + 1]
  OBVIOUS
<1>2. Head(s) \in ToSet(s)
  BY <1>1 DEF ToSet
<1>3. ToSet(Tail(s)) \subseteq ToSet(s)
  BY <1>1 DEF ToSet
<1>4. ASSUME NEW x \in ToSet(s), x # Head(s) PROVE x \in ToSet(Tail(s))
  <2>1. PICK i \in 1 .. Len(s) : x = s[i]
    BY <1>4 DEF ToSet
  <2>2. i # 1
    BY <1>1, <1>4, <2>1
  <2>3. i - 1 \in 1 .. (Len(s) - 1) /\ (i - 1) + 1 = i
    BY <1>1, <2>1, <2>2
  <2>4. Tail(s)[i - 1] = x /\ i - 1 \in DOMAIN Tail(s)
    BY <1>1, <2>1, <2>3
  <2> QED
    BY <2>4, Zenon DEF ToSet
<1> QED
  BY <1>1, <1>2, <1>3, <1>4

LEMMA Concatenation ==
    ASSUME NEW S, NEW s \in Seq(S), NEW t \in Seq(S)
    PROVE  s \o t \in Seq(S) /\ ToSet(s \o t) = ToSet(s) \cup ToSet(t)
<1>1. s \o t \in Seq(S) /\ Len(s \o t) = Len(s) + Len(t)
  OBVIOUS
<1>2. ASSUME NEW x \in ToSet(s) PROVE x \in ToSet(s \o t)
  BY <1>1, <1>2 DEF ToSet
<1>3. ASSUME NEW x \in ToSet(t) PROVE x \in ToSet(s \o t)
  <2>1. PICK i \in 1 .. Len(t) : x = t[i]
    BY <1>3 DEF ToSet
  <2>2. Len(s) + i \in 1 .. Len(s \o t) /\ (s \o t)[Len(s) + i] = x
    BY <1>1, <2>1
  <2> QED
    BY <1>1, <2>2 DEF ToSet
<1>4. ASSUME NEW x \in ToSet(s \o t) PROVE x \in ToSet(s) \cup ToSet(t)
  <2>1. PICK i \in 1 .. (Len(s) + Len(t)) : x = (s \o t)[i]
    BY <1>1, <1>4 DEF ToSet
  <2>2. CASE i <= Len(s)
    BY <2>1, <2>2 DEF ToSet
  <2>3. CASE i > Len(s)
    <3>1. i - Len(s) \in 1 .. Len(t) /\ x = t[i - Len(s)]
      BY <2>1, <2>3
    <3> QED
      BY <3>1 DEF ToSet
  <2> QED
    BY <2>1, <2>2, <2>3
<1> QED
  BY <1>1, <1>2, <1>3, <1>4

LEMMA OneElement ==
    ASSUME NEW S, NEW e \in S
    PROVE  <<e>> \in Seq(S) /\ <<e>> # <<>> /\ Head(<<e>>) = e /\ ToSet(<<e>>) = {e}
  BY DEF ToSet

LEMMA Appended ==
    ASSUME NEW S, NEW s \in Seq(S), NEW e \in S
    PROVE  Append(s, e) \in Seq(S) /\ ToSet(Append(s, e)) = ToSet(s) \cup {e}
<1>1. Append(s, e) = s \o <<e>>
  OBVIOUS
<1>2. <<e>> \in Seq(S) /\ ToSet(<<e>>) = {e}
  BY OneElement
<1>3. s \o <<e>> \in Seq(S) /\ ToSet(s \o <<e>>) = ToSet(s) \cup ToSet(<<e>>)
  BY <1>2, Concatenation
<1> QED
  BY <1>1, <1>2, <1>3

LEMMA NoElement == ToSet(<<>>) = {}
  BY DEF ToSet

LEMMA ElementsOfSeq ==
    ASSUME NEW S, NEW s \in Seq(S)
    PROVE  ToSet(s) \subseteq S
  BY DEF ToSet

\* FlattenSeq is the recursive function of the first n sequences joined.
IsJoin(f, seqs, n) ==
    f = [i \in 1 .. n |-> IF i = 1 THEN seqs[i] ELSE f[i - 1] \o seqs[i]]

LEMMA JoinExists ==
    ASSUME NEW seqs, NEW n \in Nat
    PROVE  \E f : IsJoin(f, seqs, n)
<1> DEFINE S == {m \in Nat : \E f : IsJoin(f, seqs, m)}
<1>1. 0 \in S
  <2>1. IsJoin([i \in 1 .. 0 |-> 0], seqs, 0)
    BY DEF IsJoin
  <2> QED
    BY <2>1
<1>2. ASSUME NEW m \in S PROVE m + 1 \in S
  <2>1. PICK f : IsJoin(f, seqs, m)
    BY <1>2
  <2>2. PICK g : g = [i \in 1 .. (m + 1) |->
                        IF i = m + 1 THEN IF i = 1 THEN seqs[i] ELSE f[i - 1] \o seqs[i]
                                     ELSE f[i]]
    OBVIOUS
  <2>3. \A i \in 1 .. m : f[i] = IF i = 1 THEN seqs[i] ELSE f[i - 1] \o seqs[i]
    BY <2>1 DEF IsJoin
  <2>4. \A i \in 1 .. m : g[i] = f[i]
    BY <2>2
  <2>5. \A i \in 1 .. (m + 1) : g[i] = IF i = 1 THEN seqs[i] ELSE g[i - 1] \o seqs[i]
    BY <2>2, <2>3, <2>4
  <2>6. IsJoin(g, seqs, m + 1)
    BY <2>2, <2>5 DEF IsJoin
  <2> QED
    BY <2>6
<1>3. S = Nat
  <2> HIDE DEF S
  <2>1. S \subseteq Nat
    BY DEF S
  <2> QED
    BY <1>1, <1>2, <2>1, SetInduction, Zenon
<1> QED
  BY <1>3

\* The elements of a flattened sequence are the elements of its elements.
LEMMA Flattened ==
    ASSUME NEW S, NEW seqs \in Seq(Seq(S))
    PROVE  /\ FlattenSeq(seqs) \in Seq(S)
           /\ \A x : x \in ToSet(FlattenSeq(seqs)) <=>
                        \E i \in 1 .. Len(seqs) : x \in ToSet(seqs[i])
<1>1. PICK N \in Nat : N = Len(seqs) /\ \A i \in 1 .. N : seqs[i] \in Seq(S)
  OBVIOUS
<1>2. CASE N = 0
  <2>1. FlattenSeq(seqs) = seqs
    BY <1>1, <1>2, Zenon DEF FlattenSeq
  <2>2. <<>> \in Seq(S)
    OBVIOUS
  <2>3. seqs = <<>>
    <3>1. Len(seqs) = 0
      BY <1>1, <1>2
    <3> QED
      BY <3>1
  <2> QED
    BY <1>2, <2>1, <2>2, <2>3, NoElement
<1>3. CASE N # 0
  <2> DEFINE f == CHOOSE g : g = [i \in 1 .. N |-> IF i = 1 THEN seqs[i]
                                                   ELSE g[i - 1] \o seqs[i]]
             Joined(n) == /\ f[n] \in Seq(S)
                          /\ \A x : x \in ToSet(f[n]) <=>
                                       \E i \in 1 .. n : x \in ToSet(seqs[i])
             Good == {n \in Nat : n + 1 <= N => Joined(n + 1)}
  <2>1. FlattenSeq(seqs) = f[N]
    BY <1>1, <1>3, Zenon DEF FlattenSeq
  <2>2. \E g : IsJoin(g, seqs, N)
    BY <1>1, JoinExists
  <2>3. f = [i \in 1 .. N |-> IF i = 1 THEN seqs[i] ELSE f[i - 1] \o seqs[i]]
    BY <2>2, Zenon DEF IsJoin
  <2> HIDE DEF f
  <2>4. Joined(1)
    <3>1. f[1] = seqs[1] /\ seqs[1] \in Seq(S)
      BY <1>1, <1>3, <2>3
    <3> QED
      BY <3>1
  <2>5. ASSUME NEW n \in Nat, n + 2 <= N, Joined(n + 1) PROVE Joined(n + 2)
    <3>1. f[n + 2] = f[n + 1] \o seqs[n + 2] /\ seqs[n + 2] \in Seq(S)
      <4>1. n + 2 \in 1 .. N /\ n + 2 # 1 /\ (n + 2) - 1 = n + 1
        BY <2>5
      <4> QED
        BY <1>1, <2>3, <4>1
    <3>2. f[n + 2] \in Seq(S) /\ ToSet(f[n + 2]) = ToSet(f[n + 1]) \cup ToSet(seqs[n + 2])
      BY <2>5, <3>1, Concatenation
    <3>3. \A x : x \in ToSet(f[n + 2]) <=> \E i \in 1 .. (n + 2) : x \in ToSet(seqs[i])
      <4>1. \A i : i \in 1 .. (n + 2) <=> i \in 1 .. (n + 1) \/ i = n + 2
        OBVIOUS
      <4> QED
        BY <2>5, <3>2, <4>1
    <3> QED
      BY <3>2, <3>3
  <2>6. 0 \in Good
    BY <2>4
  <2>7. ASSUME NEW n \in Good PROVE n + 1 \in Good
    <3> HIDE DEF Joined
    <3>1. n \in Nat /\ n + 1 \in Nat /\ (n + 1) + 1 = n + 2
      OBVIOUS
    <3>2. n + 2 <= N => Joined(n + 2)
      BY <1>1, <2>5, <2>7, <3>1
    <3> QED
      BY <3>1, <3>2
  <2>8. Good = Nat
    <3> HIDE DEF Good
    <3>1. Good \subseteq Nat
      BY DEF Good
    <3> QED
      BY <2>6, <2>7, <3>1, SetInduction, Zenon
  <2>9. Joined(N)
    <3> HIDE DEF Joined
    <3>1. N - 1 \in Good /\ (N - 1) + 1 = N
      <4> HIDE DEF Good
      <4> QED
        BY <1>1, <1>3, <2>8
    <3> QED
      BY <3>1
  <2> QED
    BY <1>1, <2>1, <2>9
<1> QED
  BY <1>2, <1>3

\* Arrivals are the successors of the children that say they have passed.
LEMMA WhoArrives ==
    ASSUME NEW n \in Nodes
    PROVE  /\ Arrivals(n) \in Seq(Nodes)
           /\ \A x : x \in ToSet(Arrivals(n)) <=>
                 \E c \in ToSet(Children[n]) : HasPassed(c) /\ x \in ToSet(NextNodes[c])
<1> DEFINE part(i) == IF HasPassed(Children[n][i]) THEN NextNodes[Children[n][i]] ELSE <<>>
           parts == [i \in DOMAIN Children[n] |-> part(i)]
<1>1. Children[n] \in Seq(Nodes) /\ NextNodes \in [Nodes -> Seq(Nodes)]
  BY WorkflowAssumption
<1>2. \A i \in 1 .. Len(Children[n]) : part(i) \in Seq(Nodes)
  BY <1>1
<1>3. parts \in Seq(Seq(Nodes)) /\ Len(parts) = Len(Children[n])
      /\ \A i \in 1 .. Len(parts) : parts[i] = part(i)
  <2>1. PICK m \in Nat : m = Len(Children[n]) /\ DOMAIN Children[n] = 1 .. m
    BY <1>1
  <2> HIDE DEF part
  <2>2. parts \in [1 .. m -> Seq(Nodes)]
    BY <1>2, <2>1
  <2> QED
    BY <2>1, <2>2
<1>4. Arrivals(n) = FlattenSeq(parts)
  BY DEF Arrivals
<1>5. \A x : x \in ToSet(Arrivals(n)) <=> \E i \in 1 .. Len(parts) : x \in ToSet(parts[i])
  <2> HIDE DEF parts
  <2> QED
    BY <1>3, <1>4, Flattened
<1>6. ASSUME NEW i \in 1 .. Len(parts), NEW x
      PROVE  x \in ToSet(parts[i]) <=>
                HasPassed(Children[n][i]) /\ x \in ToSet(NextNodes[Children[n][i]])
  <2>1. parts[i] = part(i)
    BY <1>3
  <2> QED
    BY <2>1, NoElement
<1>7. Arrivals(n) \in Seq(Nodes)
  <2> HIDE DEF parts
  <2> QED
    BY <1>3, <1>4, Flattened
<1>8. \A c : c \in ToSet(Children[n]) <=> \E i \in 1 .. Len(parts) : c = Children[n][i]
  BY <1>1, <1>3 DEF ToSet
<1>9. ASSUME NEW x
      PROVE  (\E i \in 1 .. Len(parts) : x \in ToSet(parts[i])) <=>
                \E c \in ToSet(Children[n]) : HasPassed(c) /\ x \in ToSet(NextNodes[c])
  <2> DEFINE at(i) == HasPassed(Children[n][i]) /\ x \in ToSet(NextNodes[Children[n][i]])
  <2>1. \A i \in 1 .. Len(parts) : x \in ToSet(parts[i]) <=> at(i)
    BY <1>6
  <2>2. (\E i \in 1 .. Len(parts) : at(i)) <=>
            \E c \in ToSet(Children[n]) : HasPassed(c) /\ x \in ToSet(NextNodes[c])
    BY <1>8, Zenon
  <2> HIDE DEF parts, at
  <2> QED
    BY <2>1, <2>2
<1> HIDE DEF parts
<1> QED
  BY <1>5, <1>7, <1>9

-----------------------------------------------------------------------------
(***************************************************************************)
(* One run moves                                                            *)
(***************************************************************************)

\* What is there to check when run r moves on to the locals k, whatever it did:
\* that they are in order, that it was alone if it was to be, and that it lets go
\* of no node that says RUNNING.  The other runs hear of it only by the status of
\* the nodes, which matters to none of them unless two have overlapped.
LEMMA OneMoves ==
    ASSUME Inv, NEW r \in Runs, NEW k \in RunLocals, NEW B \in SUBSET Nodes,
           NEW P \in SUBSET Nodes,
           run' = [run EXCEPT ![r] = k],
           begun' = [begun EXCEPT ![r] = B],
           passed' = [passed EXCEPT ![r] = P],
           status' \in [Nodes -> {"PENDING", "RUNNING", "PASSED", "FAILED"}],
           lostChild' \in {lostChild, lostChild \cup {r}},
           overlapped' \in BOOLEAN, overlapped => overlapped',
           cancelled' \in BOOLEAN, cancelled => cancelled',
           UnderWay(r) \/ overlapped' \/ (status' = status /\ \A q \in Runs \ {r} : ~UnderWay(q)),
           RunOK(k, B, P, status', r \in lostChild', overlapped'),
           cancelled' \/ \A n \in Nodes : status'[n] = "RUNNING" =>
              Holds(k, n) \/ (status[n] = "RUNNING" /\ ~Holds(run[r], n))
    PROVE  Inv'
<1>1. Types /\ EachRun /\ OneAtATime /\ RunningIsHeld
  BY DEF Inv
<1>2. /\ run'[r] = k /\ begun'[r] = B /\ passed'[r] = P
      /\ \A q \in Runs \ {r} : run'[q] = run[q] /\ begun'[q] = begun[q] /\ passed'[q] = passed[q]
                               /\ (q \in lostChild' <=> q \in lostChild)
  BY <1>1 DEF Types
<1>3. Types'
  <2>1. run' \in [Runs -> RunLocals] /\ begun' \in [Runs -> SUBSET Nodes]
        /\ passed' \in [Runs -> SUBSET Nodes] /\ lostChild' \subseteq Runs
    BY <1>1 DEF Types
  <2>2. RunLocals' = RunLocals
    BY DEF RunLocals
  <2> QED
    BY <2>1, <2>2 DEF Types
<1>4. OneAtATime'
  <2>1. SUFFICES ASSUME ~overlapped', NEW p \in Runs, NEW q \in Runs,
                        run'[p].place \notin {"new", "done"}, run'[q].place \notin {"new", "done"}
                 PROVE  p = q
    BY DEF OneAtATime, UnderWay
  <2>2. UnderWay(r) \/ \A u \in Runs \ {r} : ~UnderWay(u)
    BY <2>1
  <2>3. \A u, v \in Runs : UnderWay(u) /\ UnderWay(v) => u = v
    BY <1>1, <2>1 DEF OneAtATime
  <2>4. \A u \in Runs \ {r} : run'[u].place \notin {"new", "done"} => UnderWay(u)
    BY <1>2 DEF UnderWay
  <2> QED
    BY <2>1, <2>2, <2>3, <2>4
<1>5. EachRun'
  <2>1. SUFFICES ASSUME NEW q \in Runs
                 PROVE  RunOK(run'[q], begun'[q], passed'[q], status', q \in lostChild', overlapped')
    BY DEF EachRun
  <2>2. CASE q = r
    BY <1>2, <2>2
  <2>3. CASE q # r
    <3>1. RunOK(run[q], begun[q], passed[q], status, q \in lostChild, overlapped)
      BY <1>1 DEF EachRun
    <3>2. CASE overlapped'
      BY <1>2, <2>3, <3>1, <3>2 DEF RunOK
    <3>3. CASE ~overlapped' /\ status' = status
      BY <1>2, <2>3, <3>1, <3>3 DEF RunOK
    <3>4. CASE ~overlapped' /\ UnderWay(r)
      <4>1. ~UnderWay(q)
        BY <1>1, <2>3, <3>4 DEF OneAtATime
      <4>2. run[q].busy = None
        <5>1. run[q].place \in {"new", "done"}
          BY <4>1 DEF UnderWay
        <5> QED
          BY <3>1, <5>1 DEF RunOK, Tidy
      <4>3. Settled(run[q], passed[q], status', q \in lostChild)
        BY <4>2 DEF Settled
      <4>4. ~overlapped
        BY <3>4
      <4> QED
        BY <1>2, <2>3, <3>1, <4>3, <4>4 DEF RunOK
    <3> QED
      BY <3>2, <3>3, <3>4
  <2> QED
    BY <2>2, <2>3
<1>6. RunningIsHeld'
  <2>1. SUFFICES ASSUME ~cancelled', NEW n \in Nodes, status'[n] = "RUNNING"
                 PROVE  \E q \in Runs : Holds(run'[q], n)
    BY DEF RunningIsHeld
  <2>2. CASE Holds(k, n)
    BY <1>2, <2>2
  <2>3. CASE status[n] = "RUNNING" /\ ~Holds(run[r], n)
    <3>1. PICK q \in Runs : Holds(run[q], n)
      BY <1>1, <2>1, <2>3 DEF RunningIsHeld
    <3>2. q # r
      BY <2>3, <3>1
    <3>3. run'[q] = run[q]
      BY <1>2, <3>2
    <3> QED
      BY <3>1, <3>3
  <2> QED
    BY <2>1, <2>2, <2>3
<1> QED
  BY <1>3, <1>4, <1>5, <1>6 DEF Inv

\* What the invariant says of the run that moves.
LEMMA InvOf ==
    ASSUME Inv, NEW r \in Runs
    PROVE  /\ run[r] \in RunLocals /\ begun[r] \in SUBSET Nodes /\ passed[r] \in SUBSET Nodes
           /\ run = [run EXCEPT ![r] = run[r]]
           /\ begun = [begun EXCEPT ![r] = begun[r]]
           /\ passed = [passed EXCEPT ![r] = passed[r]]
           /\ status \in [Nodes -> {"PENDING", "RUNNING", "PASSED", "FAILED"}]
           /\ overlapped \in BOOLEAN /\ cancelled \in BOOLEAN
           /\ Tidy(run[r])
           /\ ~overlapped => /\ Sourced(run[r], begun[r], passed[r])
                             /\ Settled(run[r], passed[r], status, r \in lostChild)
                             /\ Hopeful(run[r], r \in lostChild)
  BY DEF Inv, Types, EachRun, RunOK

LEMMA WayIsOpen == LeadsToEnd => Way \in SUBSET Nodes /\ OnTheWay(Way)
  BY DEF LeadsToEnd, Way

\* What follows a node that passed follows whatever passes later.
LEMMA FollowsMore ==
    ASSUME NEW P, NEW Q, P \subseteq Q
    PROVE  \A n : Follows(P, n) => Follows(Q, n)
  BY DEF Follows

-----------------------------------------------------------------------------
(***************************************************************************)
(* The steps of a run                                                       *)
(***************************************************************************)

LEMMA BeginKeepsInv ==
    ASSUME Inv, NEW r \in Runs, Begin(r)
    PROVE  Inv'
<1>1. PICK k : k = [run[r] EXCEPT !.place = "wave", !.wave = <<StartNode>>]
  OBVIOUS
<1>2. StartNode \in Nodes
  BY WorkflowAssumption
<1>3. /\ k \in RunLocals /\ k.place = "wave" /\ k.wave = <<StartNode>> /\ k.next = run[r].next
      /\ k.busy = run[r].busy /\ k.kids = run[r].kids /\ k.open = run[r].open
      /\ k.success = run[r].success /\ k.error = run[r].error /\ run[r].place = "new"
  BY <1>1, <1>2, InvOf, OneElement DEF RunLocals, Begin
<1>4. run' = [run EXCEPT ![r] = k]
  BY <1>1, InvOf DEF Begin, RunLocals
<1>5. run[r].busy = None
  BY <1>3, InvOf DEF Tidy
<1>6. Tidy(k)
  BY <1>3, <1>5, InvOf DEF Tidy
<1>7. ToSet(k.wave) = {StartNode}
  BY <1>2, <1>3, OneElement
<1>8. ASSUME ~overlapped
      PROVE  /\ Sourced(k, begun[r], passed[r]) /\ Settled(k, passed[r], status, r \in lostChild)
             /\ Hopeful(k, r \in lostChild)
  <2>1. Sourced(k, begun[r], passed[r])
    BY <1>3, <1>5, <1>7, <1>8, InvOf DEF Sourced
  <2>2. Settled(k, passed[r], status, r \in lostChild)
    BY <1>3, <1>5 DEF Settled
  <2>3. LeadsToEnd => StartNode \in Way /\ ~IsEnd(StartNode)
    BY WayIsOpen DEF OnTheWay
  <2>4. Hopeful(k, r \in lostChild)
    BY <1>3, <1>7, <2>3 DEF Hopeful
  <2> QED
    BY <2>1, <2>2, <2>4
<1>9. /\ UNCHANGED <<status, begun, passed, lostChild, cancelled>>
      /\ overlapped' = (overlapped \/ \E q \in Runs \ {r} : UnderWay(q))
  BY DEF Begin
<1>10. RunOK(k, begun[r], passed[r], status', r \in lostChild', overlapped')
  BY <1>6, <1>8, <1>9 DEF RunOK
<1>11. \A n \in Nodes : ~Holds(run[r], n)
  BY <1>3 DEF Holds
<1> QED
  BY <1>3, <1>4, <1>9, <1>10, <1>11, InvOf, OneMoves

\* A node of the wave passes and its successors are noted.
LEMMA GoOnKeepsInv ==
    ASSUME Inv, NEW r \in Runs, NEW n \in Nodes, NEW B \in {begun[r], begun[r] \cup {n}},
           run[r].place = "wave", run[r].wave # <<>>, n = Head(run[r].wave),
           run[r].kids = {}, run[r].busy \in {None, n},
           Pass(r, n), GoOn(r, n), begun' = [begun EXCEPT ![r] = B],
           UNCHANGED <<lostChild, overlapped, cancelled>>
    PROVE  Inv'
<1>1. PICK k : k = [run[r] EXCEPT !.wave = Tail(@), !.next = @ \o NextNodes[n], !.busy = None]
  OBVIOUS
<1>2. PICK P : P = passed[r] \cup {n}
  OBVIOUS
<1>3. NextNodes[n] \in Seq(Nodes) /\ None \notin Nodes
  BY WorkflowAssumption
<1>4. /\ Tail(run[r].wave) \in Seq(Nodes) /\ n \in ToSet(run[r].wave)
      /\ ToSet(Tail(run[r].wave)) \subseteq ToSet(run[r].wave)
      /\ \A m \in ToSet(run[r].wave) : m = n \/ m \in ToSet(Tail(run[r].wave))
  BY InvOf, HeadAndTail DEF RunLocals
<1>5. /\ run[r].next \o NextNodes[n] \in Seq(Nodes)
      /\ ToSet(run[r].next \o NextNodes[n]) = ToSet(run[r].next) \cup ToSet(NextNodes[n])
  BY <1>3, InvOf, Concatenation DEF RunLocals
<1>6. /\ k \in RunLocals /\ k.place = "wave" /\ k.wave = Tail(run[r].wave)
      /\ k.next = run[r].next \o NextNodes[n] /\ k.busy = None /\ k.kids = {}
      /\ k.open = run[r].open /\ k.success = run[r].success /\ k.error = run[r].error
  BY <1>1, <1>4, <1>5, InvOf DEF RunLocals
<1>7. run' = [run EXCEPT ![r] = k]
  BY <1>1, InvOf DEF GoOn, RunLocals
<1>8. passed' = [passed EXCEPT ![r] = P] /\ status' = [status EXCEPT ![n] = "PASSED"]
  BY <1>2 DEF Pass, Set
<1>9. Tidy(k)
  BY <1>6, InvOf DEF Tidy
<1>10. ASSUME ~overlapped
       PROVE  Sourced(k, B, P) /\ Settled(k, P, status', r \in lostChild)
              /\ Hopeful(k, r \in lostChild)
  <2>1. Sourced(run[r], begun[r], passed[r]) /\ Hopeful(run[r], r \in lostChild)
    BY <1>10, InvOf
  <2>2. \A m : Follows(passed[r], m) => Follows(P, m)
    BY <1>2, FollowsMore
  <2>3. \A m \in ToSet(NextNodes[n]) : Follows(P, m)
    BY <1>2 DEF Follows
  <2>4. \A m \in ToSet(k.wave) : Follows(P, m) \/ (k.place # "turn" /\ m = StartNode)
    BY <1>4, <1>6, <2>1, <2>2 DEF Sourced
  <2>5. \A m \in ToSet(k.next) : Follows(P, m)
    BY <1>5, <1>6, <2>1, <2>2, <2>3 DEF Sourced
  <2>6. \A m \in B : m = StartNode \/ Follows(P, m) \/ \E p \in B : m \in ToSet(Children[p])
    <3>1. n = StartNode \/ Follows(P, n)
      BY <1>4, <2>1, <2>2 DEF Sourced
    <3> QED
      BY <2>1, <2>2, <3>1 DEF Sourced
  <2>7. k.success => \E m \in Nodes : IsEnd(m) /\ Follows(P, m)
    BY <1>6, <2>1, <2>2 DEF Sourced
  <2>8. Settled(k, P, status', r \in lostChild)
    BY <1>6 DEF Settled
  <2>9. Hopeful(k, r \in lostChild)
    <3>1. SUFFICES ASSUME LeadsToEnd, r \notin lostChild, ~k.success, ~k.error
                   PROVE  /\ \E m \in ToSet(k.wave) \cup ToSet(k.next) : m \in Way
                          /\ \A m \in ToSet(k.wave) : ~IsEnd(m)
      BY <1>6 DEF Hopeful
    <3>2. /\ \E m \in ToSet(run[r].wave) \cup ToSet(run[r].next) : m \in Way
          /\ \A m \in ToSet(run[r].wave) : ~IsEnd(m)
      BY <1>6, <2>1, <3>1 DEF Hopeful
    <3>3. n \in Way => \E m \in ToSet(NextNodes[n]) : m \in Way
      BY <1>4, <3>1, <3>2, WayIsOpen DEF OnTheWay
    <3> QED
      BY <1>4, <1>5, <1>6, <3>2, <3>3
  <2> QED
    BY <1>6, <2>4, <2>5, <2>6, <2>7, <2>8, <2>9 DEF Sourced
<1>11. RunOK(k, B, P, status', r \in lostChild', overlapped')
  BY <1>9, <1>10 DEF RunOK
<1>12. status' \in [Nodes -> {"PENDING", "RUNNING", "PASSED", "FAILED"}]
       /\ \A m \in Nodes : status'[m] = "RUNNING" => m # n /\ status[m] = "RUNNING"
  BY <1>8, InvOf
<1>13. \A m \in Nodes : m # n => ~Holds(run[r], m)
  BY <1>3, InvOf DEF Holds, Tidy
<1>14. B \in SUBSET Nodes /\ P \in SUBSET Nodes /\ UnderWay(r)
  BY <1>2, InvOf DEF UnderWay
<1> QED
  BY <1>6, <1>7, <1>8, <1>11, <1>12, <1>13, <1>14, InvOf, OneMoves

\* An exception ends the run.
LEMMA BreakKeepsInv ==
    ASSUME Inv, NEW r \in Runs, NEW n \in Nodes, NEW B \in {begun[r], begun[r] \cup {n}},
           run[r].place = "wave", run[r].wave # <<>>, n = Head(run[r].wave),
           run[r].kids = {}, run[r].busy \in {None, n},
           Break(r, n), begun' = [begun EXCEPT ![r] = B],
           UNCHANGED <<lostChild, overlapped, cancelled>>
    PROVE  Inv'
<1>1. PICK k : k = [run[r] EXCEPT !.place = "done", !.busy = None, !.error = TRUE,
                                  !.success = FALSE]
  OBVIOUS
<1>2. None \notin Nodes
  BY WorkflowAssumption
<1>3. /\ k \in RunLocals /\ k.place = "done" /\ k.wave = run[r].wave /\ k.next = run[r].next
      /\ k.busy = None /\ k.kids = {} /\ k.open = run[r].open /\ k.success = FALSE
      /\ k.error = TRUE
  BY <1>1, InvOf DEF RunLocals
<1>4. run' = [run EXCEPT ![r] = k]
  BY <1>1, InvOf DEF Break, SuccessAfterError, RunLocals
<1>5. passed' = [passed EXCEPT ![r] = passed[r]] /\ status' = [status EXCEPT ![n] = "FAILED"]
  BY InvOf DEF Break, SetFailed, Set
<1>6. Tidy(k)
  BY <1>3, InvOf DEF Tidy
<1>7. ASSUME ~overlapped
      PROVE  /\ Sourced(k, B, passed[r]) /\ Settled(k, passed[r], status', r \in lostChild)
             /\ Hopeful(k, r \in lostChild)
  <2>1. Sourced(run[r], begun[r], passed[r])
    BY <1>7, InvOf
  <2>2. n \in ToSet(run[r].wave)
    BY InvOf, HeadAndTail DEF RunLocals
  <2>3. Sourced(k, B, passed[r])
    BY <1>3, <2>1, <2>2 DEF Sourced
  <2> QED
    BY <1>3, <2>3 DEF Settled, Hopeful
<1>8. RunOK(k, B, passed[r], status', r \in lostChild', overlapped')
  BY <1>6, <1>7 DEF RunOK
<1>9. status' \in [Nodes -> {"PENDING", "RUNNING", "PASSED", "FAILED"}]
      /\ \A m \in Nodes : status'[m] = "RUNNING" => m # n /\ status[m] = "RUNNING"
  BY <1>5, InvOf
<1>10. \A m \in Nodes : m # n => ~Holds(run[r], m)
  BY <1>2, InvOf DEF Holds, Tidy
<1>11. B \in SUBSET Nodes /\ UnderWay(r)
  BY InvOf DEF UnderWay
<1> QED
  BY <1>3, <1>4, <1>5, <1>8, <1>9, <1>10, <1>11, InvOf, OneMoves

LEMMA SendRequestKeepsInv ==
    ASSUME Inv, NEW r \in Runs, NEW n \in Nodes, SendRequest(r, n)
    PROVE  Inv'
<1>1. PICK k : k = [run[r] EXCEPT !.busy = n]
  OBVIOUS
<1>2. PICK B : B = begun[r] \cup {n}
  OBVIOUS
<1>3. /\ run[r].place = "wave" /\ run[r].busy = None /\ run[r].wave # <<>>
      /\ n = Head(run[r].wave) /\ Kind[n] = "http"
  BY DEF SendRequest, AtNode
<1>4. /\ k \in RunLocals /\ k.place = "wave" /\ k.wave = run[r].wave /\ k.next = run[r].next
      /\ k.busy = n /\ k.kids = run[r].kids /\ k.open = run[r].open
      /\ k.success = run[r].success /\ k.error = run[r].error
  BY <1>1, <1>3, InvOf DEF RunLocals
<1>5. run' = [run EXCEPT ![r] = k]
  BY <1>1, InvOf DEF SendRequest, RunLocals
<1>6. /\ begun' = [begun EXCEPT ![r] = B] /\ passed' = [passed EXCEPT ![r] = passed[r]]
      /\ status' = [status EXCEPT ![n] = "RUNNING"]
      /\ UNCHANGED <<lostChild, overlapped, cancelled>>
  BY <1>2, InvOf DEF SendRequest, Note, Set
<1>7. run[r].kids = {} /\ run[r].open = {}
  BY <1>3, InvOf DEF Tidy
<1>8. ToSet(Children[n]) = {}
  BY <1>3, WorkflowAssumption
<1>9. Tidy(k)
  BY <1>3, <1>4, <1>7, InvOf DEF Tidy
<1>10. ASSUME ~overlapped
       PROVE  /\ Sourced(k, B, passed[r]) /\ Settled(k, passed[r], status', r \in lostChild)
              /\ Hopeful(k, r \in lostChild)
  <2>1. Sourced(run[r], begun[r], passed[r]) /\ Hopeful(run[r], r \in lostChild)
    BY <1>10, InvOf
  <2>2. n \in ToSet(run[r].wave)
    BY <1>3, InvOf, HeadAndTail DEF RunLocals
  <2>3. Sourced(k, B, passed[r])
    BY <1>2, <1>3, <1>4, <2>1, <2>2 DEF Sourced
  <2>4. Settled(k, passed[r], status', r \in lostChild)
    BY <1>4, <1>8 DEF Settled
  <2>5. Hopeful(k, r \in lostChild)
    BY <1>3, <1>4, <2>1 DEF Hopeful
  <2> QED
    BY <2>3, <2>4, <2>5
<1>11. RunOK(k, B, passed[r], status', r \in lostChild', overlapped')
  BY <1>6, <1>9, <1>10 DEF RunOK
<1>12. status' \in [Nodes -> {"PENDING", "RUNNING", "PASSED", "FAILED"}]
       /\ \A m \in Nodes : m # n => status'[m] = status[m]
  BY <1>6, InvOf
<1>13. Holds(k, n) /\ \A m \in Nodes : ~Holds(run[r], m)
  BY <1>3, <1>4, <1>7, WorkflowAssumption DEF Holds
<1>14. B \in SUBSET Nodes /\ UnderWay(r)
  BY <1>2, <1>3, InvOf DEF UnderWay
<1>15. /\ status' \in [Nodes -> {"PENDING", "RUNNING", "PASSED", "FAILED"}]
       /\ \A m \in Nodes : status'[m] = "RUNNING" =>
             Holds(k, m) \/ (status[m] = "RUNNING" /\ ~Holds(run[r], m))
  BY <1>12, <1>13
<1>16. /\ lostChild' \in {lostChild, lostChild \cup {r}}
       /\ overlapped' \in BOOLEAN /\ (overlapped => overlapped')
       /\ cancelled' \in BOOLEAN /\ (cancelled => cancelled')
       /\ passed[r] \in SUBSET Nodes
  BY <1>6, InvOf
<1>17. begun' = [begun EXCEPT ![r] = B] /\ passed' = [passed EXCEPT ![r] = passed[r]]
  BY <1>6
<1>18. k \in RunLocals
  BY <1>4
<1> QED
  BY <1>5, <1>11, <1>14, <1>15, <1>16, <1>17, <1>18, OneMoves

LEMMA ForkKeepsInv ==
    ASSUME Inv, NEW r \in Runs, NEW n \in Nodes, Fork(r, n)
    PROVE  Inv'
<1>1. PICK k : k = [run[r] EXCEPT !.busy = n, !.kids = ToSet(Children[n])]
  OBVIOUS
<1>2. PICK B : B = begun[r] \cup {n}
  OBVIOUS
<1>3. /\ run[r].busy = None /\ Kind[n] = "parallel"
      /\ \/ run[r].place = "wave" /\ run[r].wave # <<>> /\ n = Head(run[r].wave)
         \/ run[r].place = "turn" /\ run[r].next # <<>> /\ n = Head(run[r].next)
  BY DEF Fork
<1>4. ToSet(Children[n]) \subseteq Nodes
  BY WorkflowAssumption, ElementsOfSeq
<1>5. /\ k \in RunLocals /\ k.place = run[r].place /\ k.wave = run[r].wave
      /\ k.next = run[r].next /\ k.busy = n /\ k.kids = ToSet(Children[n])
      /\ k.open = run[r].open /\ k.success = run[r].success /\ k.error = run[r].error
  BY <1>1, <1>4, InvOf DEF RunLocals
<1>6. run' = [run EXCEPT ![r] = k]
  BY <1>1, InvOf DEF Fork, RunLocals
<1>7. /\ begun' = [begun EXCEPT ![r] = B] /\ passed' = [passed EXCEPT ![r] = passed[r]]
      /\ status' = [status EXCEPT ![n] = "RUNNING"]
      /\ UNCHANGED <<lostChild, overlapped, cancelled>>
  BY <1>2, InvOf DEF Fork, Note, Set
<1>8. run[r].kids = {} /\ run[r].open = {}
  BY <1>3, InvOf DEF Tidy
<1>9. Tidy(k)
  BY <1>3, <1>5, <1>8, InvOf, WorkflowAssumption DEF Tidy
<1>10. ASSUME ~overlapped
       PROVE  /\ Sourced(k, B, passed[r]) /\ Settled(k, passed[r], status', r \in lostChild)
              /\ Hopeful(k, r \in lostChild)
  <2>1. Sourced(run[r], begun[r], passed[r]) /\ Hopeful(run[r], r \in lostChild)
    BY <1>10, InvOf
  <2>2. n = StartNode \/ Follows(passed[r], n)
    <3>1. n \in ToSet(run[r].wave) \/ n \in ToSet(run[r].next)
      BY <1>3, InvOf, HeadAndTail DEF RunLocals
    <3> QED
      BY <2>1, <3>1 DEF Sourced
  <2>3. Sourced(k, B, passed[r])
    BY <1>2, <1>5, <2>1, <2>2 DEF Sourced
  <2>4. Settled(k, passed[r], status', r \in lostChild)
    BY <1>5 DEF Settled
  <2>5. Hopeful(k, r \in lostChild)
    BY <1>5, <2>1 DEF Hopeful
  <2> QED
    BY <2>3, <2>4, <2>5
<1>11. RunOK(k, B, passed[r], status', r \in lostChild', overlapped')
  BY <1>7, <1>9, <1>10 DEF RunOK
<1>12. status' \in [Nodes -> {"PENDING", "RUNNING", "PASSED", "FAILED"}]
       /\ \A m \in Nodes : m # n => status'[m] = status[m]
  BY <1>7, InvOf
<1>13. Holds(k, n) /\ \A m \in Nodes : ~Holds(run[r], m)
  BY <1>3, <1>5, <1>8, WorkflowAssumption DEF Holds
<1>14. B \in SUBSET Nodes /\ UnderWay(r)
  BY <1>2, <1>3, InvOf DEF UnderWay
<1>15. /\ status' \in [Nodes -> {"PENDING", "RUNNING", "PASSED", "FAILED"}]
       /\ \A m \in Nodes : status'[m] = "RUNNING" =>
             Holds(k, m) \/ (status[m] = "RUNNING" /\ ~Holds(run[r], m))
  BY <1>12, <1>13
<1>16. /\ lostChild' \in {lostChild, lostChild \cup {r}}
       /\ overlapped' \in BOOLEAN /\ (overlapped => overlapped')
       /\ cancelled' \in BOOLEAN /\ (cancelled => cancelled')
       /\ passed[r] \in SUBSET Nodes
  BY <1>7, InvOf
<1>17. begun' = [begun EXCEPT ![r] = B] /\ passed' = [passed EXCEPT ![r] = passed[r]]
  BY <1>7
<1>18. k \in RunLocals
  BY <1>5
<1> QED
  BY <1>6, <1>11, <1>14, <1>15, <1>16, <1>17, <1>18, OneMoves

\* A child is over, passed or failed.
LEMMA EndChildKeepsInv ==
    ASSUME Inv, NEW r \in Runs, NEW c \in Nodes, NEW B \in {begun[r], begun[r] \cup {c}},
           c \in run[r].kids, EndChild(r, c), begun' = [begun EXCEPT ![r] = B],
           UNCHANGED <<overlapped, cancelled>>
    PROVE  Inv'
<1>1. PICK k : k = [run[r] EXCEPT !.kids = @ \ {c}, !.open = @ \ {c}]
  OBVIOUS
<1>2. PICK P : P = IF status'[c] = "PASSED" THEN passed[r] \cup {c} ELSE passed[r]
  OBVIOUS
<1>3. /\ k \in RunLocals /\ k.place = run[r].place /\ k.wave = run[r].wave
      /\ k.next = run[r].next /\ k.busy = run[r].busy /\ k.kids = run[r].kids \ {c}
      /\ k.open = run[r].open \ {c} /\ k.success = run[r].success /\ k.error = run[r].error
  BY <1>1, InvOf DEF RunLocals
<1>4. run' = [run EXCEPT ![r] = k]
  BY <1>1, InvOf DEF EndChild, ChildFailed, ChildOver, RunLocals
<1>5. \/ /\ status' = [status EXCEPT ![c] = "PASSED"] /\ lostChild' = lostChild
         /\ passed' = [passed EXCEPT ![r] = passed[r] \cup {c}]
      \/ /\ status' = [status EXCEPT ![c] = "FAILED"] /\ lostChild' = lostChild \cup {r}
         /\ passed' = [passed EXCEPT ![r] = passed[r]]
  BY InvOf DEF EndChild, Pass, SetFailed, Set
<1>6. passed' = [passed EXCEPT ![r] = P]
  BY <1>2, <1>5, InvOf
<1>7. run[r].busy # None /\ c \in ToSet(Children[run[r].busy])
      /\ run[r].place \notin {"new", "done"}
  BY InvOf DEF Tidy
<1>8. Tidy(k)
  BY <1>3, <1>7, InvOf DEF Tidy
<1>9. status' \in [Nodes -> {"PENDING", "RUNNING", "PASSED", "FAILED"}]
      /\ (\A m \in Nodes : m # c => status'[m] = status[m]) /\ status'[c] # "RUNNING"
  BY <1>5, InvOf
<1>10. ASSUME ~overlapped
       PROVE  /\ Sourced(k, B, P) /\ Settled(k, P, status', r \in lostChild')
              /\ Hopeful(k, r \in lostChild')
  <2>1. /\ Sourced(run[r], begun[r], passed[r]) /\ Hopeful(run[r], r \in lostChild)
        /\ Settled(run[r], passed[r], status, r \in lostChild)
    BY <1>10, InvOf
  <2>2. passed[r] \subseteq P /\ \A m : Follows(passed[r], m) => Follows(P, m)
    BY <1>2, FollowsMore
  <2>3. Sourced(k, B, P)
    <3>1. \A m \in B : m = StartNode \/ Follows(P, m) \/ \E p \in B : m \in ToSet(Children[p])
      <4>1. run[r].busy \in B
        BY <1>7, <2>1 DEF Sourced
      <4> QED
        BY <1>7, <2>1, <2>2, <4>1 DEF Sourced
    <3>2. /\ \A m \in ToSet(k.wave) : Follows(P, m) \/ (k.place # "turn" /\ m = StartNode)
          /\ \A m \in ToSet(k.next) : Follows(P, m)
          /\ k.busy # None => k.busy \in B
          /\ k.success => \E m \in Nodes : IsEnd(m) /\ Follows(P, m)
      BY <1>3, <2>1, <2>2 DEF Sourced
    <3> QED
      BY <3>1, <3>2 DEF Sourced
  <2>4. Settled(k, P, status', r \in lostChild')
    <3>1. ASSUME NEW m \in ToSet(Children[k.busy]) \ k.kids
          PROVE  (status'[m] = "PASSED" => m \in P) /\ (r \notin lostChild' => status'[m] = "PASSED")
      <4>1. CASE m = c
        BY <1>2, <1>5, <4>1, InvOf
      <4>2. CASE m # c
        <5>1. m \in Nodes
          BY <1>3, <1>7, InvOf, WorkflowAssumption, ElementsOfSeq DEF RunLocals
        <5>2. m \in ToSet(Children[run[r].busy]) \ run[r].kids
          BY <1>3, <3>1, <4>2
        <5>3. (status[m] = "PASSED" => m \in passed[r]) /\ (r \notin lostChild => status[m] = "PASSED")
          BY <1>7, <2>1, <5>2 DEF Settled
        <5>4. status'[m] = status[m] /\ (r \notin lostChild' => r \notin lostChild)
          BY <1>5, <1>9, <4>2, <5>1
        <5> QED
          BY <2>2, <5>3, <5>4
      <4> QED
        BY <4>1, <4>2
    <3> QED
      BY <3>1 DEF Settled
  <2>5. Hopeful(k, r \in lostChild')
    BY <1>3, <1>5, <2>1 DEF Hopeful
  <2> QED
    BY <2>3, <2>4, <2>5
<1>11. RunOK(k, B, P, status', r \in lostChild', overlapped')
  BY <1>8, <1>10 DEF RunOK
<1>12. \A m \in Nodes : status'[m] = "RUNNING" =>
          Holds(k, m) \/ (status[m] = "RUNNING" /\ ~Holds(run[r], m))
  BY <1>3, <1>9 DEF Holds
<1>13. B \in SUBSET Nodes /\ P \in SUBSET Nodes /\ UnderWay(r)
  BY <1>2, <1>7, InvOf DEF UnderWay
<1>14. lostChild' \in {lostChild, lostChild \cup {r}}
  BY <1>5
<1> QED
  BY <1>3, <1>4, <1>6, <1>9, <1>11, <1>12, <1>13, <1>14, InvOf, OneMoves

LEMMA ChildRequestKeepsInv ==
    ASSUME Inv, NEW r \in Runs, NEW c \in Nodes, ChildRequest(r, c)
    PROVE  Inv'
<1>1. PICK k : k = [run[r] EXCEPT !.open = @ \cup {c}]
  OBVIOUS
<1>2. PICK B : B = begun[r] \cup {c}
  OBVIOUS
<1>3. c \in run[r].kids
  BY DEF ChildRequest
<1>4. /\ k \in RunLocals /\ k.place = run[r].place /\ k.wave = run[r].wave
      /\ k.next = run[r].next /\ k.busy = run[r].busy /\ k.kids = run[r].kids
      /\ k.open = run[r].open \cup {c} /\ k.success = run[r].success /\ k.error = run[r].error
  BY <1>1, InvOf DEF RunLocals
<1>5. run' = [run EXCEPT ![r] = k]
  BY <1>1, InvOf DEF ChildRequest, RunLocals
<1>6. /\ begun' = [begun EXCEPT ![r] = B] /\ passed' = [passed EXCEPT ![r] = passed[r]]
      /\ status' = [status EXCEPT ![c] = "RUNNING"]
      /\ UNCHANGED <<lostChild, overlapped, cancelled>>
  BY <1>2, InvOf DEF ChildRequest, Note, Set
<1>7. run[r].busy # None /\ c \in ToSet(Children[run[r].busy])
      /\ run[r].place \notin {"new", "done"}
  BY <1>3, InvOf DEF Tidy
<1>8. Tidy(k)
  BY <1>3, <1>4, <1>7, InvOf DEF Tidy
<1>9. status' \in [Nodes -> {"PENDING", "RUNNING", "PASSED", "FAILED"}]
      /\ (\A m \in Nodes : m # c => status'[m] = status[m])
  BY <1>6, InvOf
<1>10. ASSUME ~overlapped
       PROVE  /\ Sourced(k, B, passed[r]) /\ Settled(k, passed[r], status', r \in lostChild)
              /\ Hopeful(k, r \in lostChild)
  <2>1. /\ Sourced(run[r], begun[r], passed[r]) /\ Hopeful(run[r], r \in lostChild)
        /\ Settled(run[r], passed[r], status, r \in lostChild)
    BY <1>10, InvOf
  <2>2. run[r].busy \in B
    BY <1>2, <1>7, <2>1 DEF Sourced
  <2>3. Sourced(k, B, passed[r])
    BY <1>2, <1>4, <1>7, <2>1, <2>2 DEF Sourced
  <2>4. \A m \in ToSet(Children[run[r].busy]) \ run[r].kids : status'[m] = status[m]
    BY <1>3, <1>7, <1>9, InvOf, WorkflowAssumption, ElementsOfSeq DEF RunLocals
  <2>5. Settled(k, passed[r], status', r \in lostChild)
    BY <1>4, <2>1, <2>4 DEF Settled
  <2>6. Hopeful(k, r \in lostChild)
    BY <1>4, <2>1 DEF Hopeful
  <2> QED
    BY <2>3, <2>5, <2>6
<1>11. RunOK(k, B, passed[r], status', r \in lostChild', overlapped')
  BY <1>6, <1>8, <1>10 DEF RunOK
<1>12. \A m \in Nodes : status'[m] = "RUNNING" =>
          Holds(k, m) \/ (status[m] = "RUNNING" /\ ~Holds(run[r], m))
  BY <1>4, <1>7, <1>9 DEF Holds
<1>13. B \in SUBSET Nodes /\ UnderWay(r)
  BY <1>2, <1>7, InvOf DEF UnderWay
<1>14. /\ lostChild' \in {lostChild, lostChild \cup {r}}
       /\ overlapped' \in BOOLEAN /\ (overlapped => overlapped')
       /\ cancelled' \in BOOLEAN /\ (cancelled => cancelled')
       /\ passed[r] \in SUBSET Nodes
  BY <1>6, InvOf
<1> QED
  BY <1>4, <1>5, <1>6, <1>9, <1>11, <1>12, <1>13, <1>14, OneMoves

\* A PARALLEL node met between two waves is over.
LEMMA JoinKeepsInv ==
    ASSUME Inv, NEW r \in Runs, NEW n \in Nodes, Join(r, n), run[r].place # "wave"
    PROVE  Inv'
<1>1. PICK k : k = [run[r] EXCEPT !.next = Tail(@), !.busy = None, !.wave = @ \o Arrivals(n)]
  OBVIOUS
<1>2. PICK P : P = passed[r] \cup {n}
  OBVIOUS
<1>3. None \notin Nodes /\ run[r].busy = n /\ Kind[n] = "parallel" /\ run[r].kids = {}
  BY WorkflowAssumption DEF Join
<1>4. run[r].place = "turn" /\ run[r].next # <<>> /\ n = Head(run[r].next)
  BY <1>3, InvOf DEF Tidy, RunLocals
<1>5. /\ Tail(run[r].next) \in Seq(Nodes) /\ n \in ToSet(run[r].next)
      /\ ToSet(Tail(run[r].next)) \subseteq ToSet(run[r].next)
      /\ \A m \in ToSet(run[r].next) : m = n \/ m \in ToSet(Tail(run[r].next))
  BY <1>4, InvOf, HeadAndTail DEF RunLocals
<1>6. /\ run[r].wave \o Arrivals(n) \in Seq(Nodes)
      /\ ToSet(run[r].wave \o Arrivals(n)) = ToSet(run[r].wave) \cup ToSet(Arrivals(n))
  BY WhoArrives, InvOf, Concatenation DEF RunLocals
<1>7. /\ k \in RunLocals /\ k.place = "turn" /\ k.wave = run[r].wave \o Arrivals(n)
      /\ k.next = Tail(run[r].next) /\ k.busy = None /\ k.kids = {}
      /\ k.open = run[r].open /\ k.success = run[r].success /\ k.error = run[r].error
  BY <1>1, <1>3, <1>4, <1>5, <1>6, InvOf DEF RunLocals
<1>8. run' = [run EXCEPT ![r] = k]
  <2>1. run' = [run EXCEPT ![r].next = Tail(@), ![r].busy = None, ![r].wave = @ \o Arrivals(n)]
    BY DEF Join
  <2>2. Arrivals(n) \in Seq(Nodes)
    BY WhoArrives
  <2> QED
    BY <1>1, <2>1, InvOf DEF RunLocals
<1>9. /\ passed' = [passed EXCEPT ![r] = P] /\ begun' = [begun EXCEPT ![r] = begun[r]]
      /\ status' = [status EXCEPT ![n] = "PASSED"]
      /\ UNCHANGED <<lostChild, overlapped, cancelled>>
  BY <1>2, InvOf DEF Join, Pass, Set
<1>10. Tidy(k)
  BY <1>3, <1>4, <1>7, InvOf DEF Tidy
<1>11. ASSUME ~overlapped
       PROVE  Sourced(k, begun[r], P) /\ Settled(k, P, status', r \in lostChild)
              /\ Hopeful(k, r \in lostChild)
  <2>1. /\ Sourced(run[r], begun[r], passed[r]) /\ Hopeful(run[r], r \in lostChild)
        /\ Settled(run[r], passed[r], status, r \in lostChild)
    BY <1>11, InvOf
  <2>2. \A m : Follows(passed[r], m) => Follows(P, m)
    BY <1>2, FollowsMore
  <2>3. \A c \in ToSet(Children[n]) : HasPassed(c) => c \in passed[r]
    BY <1>3, <2>1 DEF Settled, HasPassed
  <2>4. \A m \in ToSet(Arrivals(n)) : Follows(P, m)
    BY <2>2, <2>3, WhoArrives DEF Follows
  <2>5. \A m \in ToSet(k.wave) : Follows(P, m)
    BY <1>4, <1>6, <1>7, <2>1, <2>2, <2>4 DEF Sourced
  <2>6. \A m \in ToSet(k.next) : Follows(P, m)
    BY <1>5, <1>7, <2>1, <2>2 DEF Sourced
  <2>7. \A m \in begun[r] : m = StartNode \/ Follows(P, m)
                            \/ \E p \in begun[r] : m \in ToSet(Children[p])
    BY <2>1, <2>2 DEF Sourced
  <2>8. k.success => \E m \in Nodes : IsEnd(m) /\ Follows(P, m)
    BY <1>7, <2>1, <2>2 DEF Sourced
  <2>9. Settled(k, P, status', r \in lostChild)
    BY <1>7 DEF Settled
  <2>10. Hopeful(k, r \in lostChild)
    <3>1. SUFFICES ASSUME LeadsToEnd, r \notin lostChild, ~k.success, ~k.error
                   PROVE  \E m \in ToSet(k.wave) \cup ToSet(k.next) : m \in Way
      BY <1>7 DEF Hopeful
    <3>2. PICK m \in ToSet(run[r].wave) \cup ToSet(run[r].next) : m \in Way
      BY <1>4, <1>7, <2>1, <3>1 DEF Hopeful
    <3>3. CASE m = n
      <4>1. ~IsEnd(n)
        BY <1>3 DEF IsEnd
      <4>2. PICK c \in ToSet(Children[n]) : ToSet(NextNodes[c]) \cap Way # {}
        BY <1>3, <3>1, <3>2, <3>3, <4>1, WayIsOpen DEF OnTheWay
      <4>3. HasPassed(c)
        BY <1>3, <2>1, <3>1 DEF Settled, HasPassed
      <4> QED
        BY <1>6, <1>7, <4>2, <4>3, WhoArrives
    <3>4. CASE m # n
      BY <1>5, <1>6, <1>7, <3>2, <3>4
    <3> QED
      BY <3>3, <3>4
  <2> QED
    BY <1>7, <2>5, <2>6, <2>7, <2>8, <2>9, <2>10 DEF Sourced
<1>12. RunOK(k, begun[r], P, status', r \in lostChild', overlapped')
  BY <1>9, <1>10, <1>11 DEF RunOK
<1>13. \A m \in Nodes : m # n => ~Holds(run[r], m)
  BY <1>3, InvOf DEF Holds, Tidy
<1>14. /\ status' \in [Nodes -> {"PENDING", "RUNNING", "PASSED", "FAILED"}]
       /\ \A m \in Nodes : status'[m] = "RUNNING" =>
             Holds(k, m) \/ (status[m] = "RUNNING" /\ ~Holds(run[r], m))
  BY <1>9, <1>13, InvOf
<1>15. begun[r] \in SUBSET Nodes /\ P \in SUBSET Nodes /\ UnderWay(r)
  BY <1>2, <1>4, InvOf DEF UnderWay
<1>16. /\ lostChild' \in {lostChild, lostChild \cup {r}}
       /\ overlapped' \in BOOLEAN /\ (overlapped => overlapped')
       /\ cancelled' \in BOOLEAN /\ (cancelled => cancelled')
  BY <1>9, InvOf
<1>17. passed' = [passed EXCEPT ![r] = P] /\ begun' = [begun EXCEPT ![r] = begun[r]]
  BY <1>9
<1>18. k \in RunLocals
  BY <1>7
<1> QED
  BY <1>8, <1>12, <1>14, <1>15, <1>16, <1>17, <1>18, OneMoves

\* Steps between two waves, and cancellation: they leave the nodes alone.
LEMMA LocalStepKeepsInv ==
    ASSUME Inv, NEW r \in Runs, NEW k \in RunLocals,
           run' = [run EXCEPT ![r] = k],
           UNCHANGED <<status, begun, passed, lostChild, overlapped>>,
           cancelled' \in BOOLEAN, cancelled => cancelled',
           UnderWay(r), Tidy(k), cancelled' \/ (run[r].busy = None /\ k.busy = None),
           ~overlapped => /\ Sourced(k, begun[r], passed[r])
                          /\ Settled(k, passed[r], status, r \in lostChild)
                          /\ Hopeful(k, r \in lostChild)
    PROVE  Inv'
<1>1. RunOK(k, begun[r], passed[r], status', r \in lostChild', overlapped')
  BY DEF RunOK
<1>2. cancelled' \/ \A n \in Nodes : ~Holds(run[r], n)
  BY InvOf, WorkflowAssumption DEF Holds, Tidy
<1>3. begun' = [begun EXCEPT ![r] = begun[r]] /\ passed' = [passed EXCEPT ![r] = passed[r]]
      /\ begun[r] \in SUBSET Nodes /\ passed[r] \in SUBSET Nodes
      /\ status' \in [Nodes -> {"PENDING", "RUNNING", "PASSED", "FAILED"}]
      /\ overlapped' \in BOOLEAN /\ lostChild' \in {lostChild, lostChild \cup {r}}
  BY InvOf
<1>4. cancelled' \/ \A n \in Nodes : status'[n] = "RUNNING" =>
         Holds(k, n) \/ (status[n] = "RUNNING" /\ ~Holds(run[r], n))
  BY <1>2
<1> QED
  BY <1>1, <1>3, <1>4, OneMoves

LEMMA EndWaveKeepsInv ==
    ASSUME Inv, NEW r \in Runs, EndWave(r)
    PROVE  Inv'
<1>1. PICK k : k = [run[r] EXCEPT !.place = "turn"]
  OBVIOUS
<1>2. /\ run[r].place = "wave" /\ run[r].wave = <<>>
      /\ UNCHANGED <<status, begun, passed, lostChild, overlapped, cancelled>>
  BY DEF EndWave
<1>3. /\ k \in RunLocals /\ k.place = "turn" /\ k.wave = <<>> /\ k.next = run[r].next
      /\ k.busy = run[r].busy /\ k.kids = run[r].kids /\ k.open = run[r].open
      /\ k.success = run[r].success /\ k.error = run[r].error
  BY <1>1, <1>2, InvOf DEF RunLocals
<1>4. run' = [run EXCEPT ![r] = k]
  BY <1>1, InvOf DEF EndWave, RunLocals
<1>5. run[r].busy = None /\ UnderWay(r)
  BY <1>2, InvOf DEF Tidy, UnderWay
<1>6. Tidy(k)
  BY <1>2, <1>3, <1>5, InvOf DEF Tidy
<1>7. ASSUME ~overlapped
      PROVE  /\ Sourced(k, begun[r], passed[r]) /\ Settled(k, passed[r], status, r \in lostChild)
             /\ Hopeful(k, r \in lostChild)
  BY <1>2, <1>3, <1>5, <1>7, InvOf, NoElement DEF Sourced, Settled, Hopeful
<1>8. cancelled' \in BOOLEAN /\ (cancelled => cancelled')
  BY <1>2, InvOf
<1> QED
  BY <1>2, <1>3, <1>4, <1>5, <1>6, <1>7, <1>8, LocalStepKeepsInv

LEMMA MoveOnKeepsInv ==
    ASSUME Inv, NEW r \in Runs, MoveOn(r)
    PROVE  Inv'
<1>1. PICK k : k = [run[r] EXCEPT !.next = Tail(@), !.wave = Append(@, Head(run[r].next))]
  OBVIOUS
<1>2. /\ run[r].place = "turn" /\ run[r].busy = None /\ run[r].next # <<>>
      /\ UNCHANGED <<status, begun, passed, lostChild, overlapped, cancelled>>
  BY DEF MoveOn
<1>3. PICK n \in Nodes : n = Head(run[r].next)
  BY <1>2, InvOf, HeadAndTail DEF RunLocals
<1>4. /\ Tail(run[r].next) \in Seq(Nodes) /\ n \in ToSet(run[r].next)
      /\ ToSet(Tail(run[r].next)) \subseteq ToSet(run[r].next)
      /\ \A m \in ToSet(run[r].next) : m = n \/ m \in ToSet(Tail(run[r].next))
  BY <1>2, <1>3, InvOf, HeadAndTail DEF RunLocals
<1>5. /\ Append(run[r].wave, n) \in Seq(Nodes)
      /\ ToSet(Append(run[r].wave, n)) = ToSet(run[r].wave) \cup {n}
  BY InvOf, Appended DEF RunLocals
<1>6. /\ k \in RunLocals /\ k.place = "turn" /\ k.wave = Append(run[r].wave, n)
      /\ k.next = Tail(run[r].next) /\ k.busy = None /\ k.kids = run[r].kids
      /\ k.open = run[r].open /\ k.success = run[r].success /\ k.error = run[r].error
  BY <1>1, <1>2, <1>3, <1>4, <1>5, InvOf DEF RunLocals
<1>7. run' = [run EXCEPT ![r] = k]
  BY <1>1, InvOf DEF MoveOn, RunLocals
<1>8. Tidy(k) /\ UnderWay(r)
  BY <1>2, <1>6, InvOf DEF Tidy, UnderWay
<1>9. ASSUME ~overlapped
      PROVE  /\ Sourced(k, begun[r], passed[r]) /\ Settled(k, passed[r], status, r \in lostChild)
             /\ Hopeful(k, r \in lostChild)
  <2>1. Sourced(run[r], begun[r], passed[r]) /\ Hopeful(run[r], r \in lostChild)
    BY <1>9, InvOf
  <2>2. Sourced(k, begun[r], passed[r])
    BY <1>2, <1>4, <1>5, <1>6, <2>1 DEF Sourced
  <2>3. Settled(k, passed[r], status, r \in lostChild)
    BY <1>6 DEF Settled
  <2>4. Hopeful(k, r \in lostChild)
    BY <1>2, <1>4, <1>5, <1>6, <2>1 DEF Hopeful
  <2> QED
    BY <2>2, <2>3, <2>4
<1>10. cancelled' \in BOOLEAN /\ (cancelled => cancelled')
  BY <1>2, InvOf
<1> QED
  BY <1>2, <1>6, <1>7, <1>8, <1>9, <1>10, LocalStepKeepsInv

LEMMA NextWaveKeepsInv ==
    ASSUME Inv, NEW r \in Runs, NextWave(r)
    PROVE  Inv'
<1>1. PICK k : k = [run[r] EXCEPT !.place = IF run[r].wave = <<>> THEN "done" ELSE "wave",
                                  !.success = @ \/ \E n \in ToSet(run[r].wave) : IsEnd(n)]
  OBVIOUS
<1>2. /\ run[r].place = "turn" /\ run[r].busy = None /\ run[r].next = <<>>
      /\ UNCHANGED <<status, begun, passed, lostChild, overlapped, cancelled>>
  BY DEF NextWave
<1>3. /\ k \in RunLocals /\ k.place = IF run[r].wave = <<>> THEN "done" ELSE "wave"
      /\ k.wave = run[r].wave /\ k.next = <<>> /\ k.busy = None /\ k.kids = run[r].kids
      /\ k.open = run[r].open /\ k.error = run[r].error
      /\ k.success = (run[r].success \/ \E n \in ToSet(run[r].wave) : IsEnd(n))
  <2>1. (run[r].success \/ \E n \in ToSet(run[r].wave) : IsEnd(n)) \in BOOLEAN
    OBVIOUS
  <2> QED
    BY <1>1, <1>2, <2>1, InvOf DEF RunLocals
<1>4. run' = [run EXCEPT ![r] = k]
  BY <1>1, InvOf DEF NextWave, RunLocals
<1>5. Tidy(k) /\ UnderWay(r)
  BY <1>2, <1>3, InvOf DEF Tidy, UnderWay
<1>6. ASSUME ~overlapped
      PROVE  /\ Sourced(k, begun[r], passed[r]) /\ Settled(k, passed[r], status, r \in lostChild)
             /\ Hopeful(k, r \in lostChild)
  <2>1. Sourced(run[r], begun[r], passed[r]) /\ Hopeful(run[r], r \in lostChild)
    BY <1>6, InvOf
  <2>2. \A n \in ToSet(run[r].wave) : n \in Nodes /\ Follows(passed[r], n)
    BY <1>2, <2>1, InvOf, ElementsOfSeq DEF Sourced, RunLocals
  <2>3. Sourced(k, begun[r], passed[r])
    BY <1>2, <1>3, <2>1, <2>2 DEF Sourced
  <2>4. Settled(k, passed[r], status, r \in lostChild)
    BY <1>3 DEF Settled
  <2>5. Hopeful(k, r \in lostChild)
    BY <1>2, <1>3, <2>1, NoElement DEF Hopeful
  <2> QED
    BY <2>3, <2>4, <2>5
<1>7. cancelled' \in BOOLEAN /\ (cancelled => cancelled')
  BY <1>2, InvOf
<1> QED
  BY <1>2, <1>3, <1>4, <1>5, <1>6, <1>7, LocalStepKeepsInv

LEMMA CancelKeepsInv ==
    ASSUME Inv, NEW r \in Runs, Cancel(r)
    PROVE  Inv'
<1>1. PICK k : k = [run[r] EXCEPT !.place = "done", !.busy = None, !.kids = {}, !.open = {},
                                  !.success = FALSE, !.error = TRUE]
  OBVIOUS
<1>2. /\ run[r].busy # None /\ cancelled' = TRUE
      /\ UNCHANGED <<status, begun, passed, lostChild, overlapped>>
  BY DEF Cancel
<1>3. /\ k \in RunLocals /\ k.place = "done" /\ k.wave = run[r].wave /\ k.next = run[r].next
      /\ k.busy = None /\ k.kids = {} /\ k.open = {} /\ k.success = FALSE /\ k.error = TRUE
  BY <1>1, InvOf DEF RunLocals
<1>4. run' = [run EXCEPT ![r] = k]
  BY <1>1, InvOf DEF Cancel, RunLocals
<1>5. Tidy(k) /\ UnderWay(r)
  BY <1>2, <1>3, InvOf DEF Tidy, UnderWay
<1>6. ASSUME ~overlapped
      PROVE  /\ Sourced(k, begun[r], passed[r]) /\ Settled(k, passed[r], status, r \in lostChild)
             /\ Hopeful(k, r \in lostChild)
  BY <1>3, <1>6, InvOf DEF Sourced, Settled, Hopeful
<1> QED
  BY <1>2, <1>3, <1>4, <1>5, <1>6, LocalStepKeepsInv

-----------------------------------------------------------------------------
(***************************************************************************)
(* The invariant of the specification                                       *)
(***************************************************************************)

LEMMA NodeStepKeepsInv ==
    ASSUME Inv, NEW r \in Runs, NEW n \in Nodes, NodeStep(r, n)
    PROVE  Inv'
<1> DEFINE B == begun[r] \cup {n}
<1>1. run[r].busy = None => run[r].kids = {}
  BY InvOf DEF Tidy
<1>2. run[r].busy = n => n # None /\ (run[r].place = "wave" => run[r].wave # <<>> /\ n = Head(run[r].wave))
  BY InvOf, WorkflowAssumption DEF Tidy
<1>3. CASE Skip(r, n)
  <2>1. /\ AtNode(r, n) /\ Pass(r, n) /\ GoOn(r, n) /\ begun' = [begun EXCEPT ![r] = B]
        /\ UNCHANGED <<lostChild, overlapped, cancelled>>
    BY <1>3, InvOf DEF Skip, Note
  <2> QED
    BY <1>1, <2>1, GoOnKeepsInv DEF AtNode
<1>4. CASE Execute(r, n)
  <2>1. /\ AtNode(r, n) /\ begun' = [begun EXCEPT ![r] = B]
        /\ (Pass(r, n) /\ GoOn(r, n)) \/ Break(r, n)
        /\ UNCHANGED <<lostChild, overlapped, cancelled>>
    BY <1>4, InvOf DEF Execute, Note
  <2>2. CASE Pass(r, n) /\ GoOn(r, n)
    BY <1>1, <2>1, <2>2, GoOnKeepsInv DEF AtNode
  <2>3. CASE Break(r, n)
    BY <1>1, <2>1, <2>3, BreakKeepsInv DEF AtNode
  <2> QED
    BY <2>1, <2>2, <2>3
<1>5. CASE Respond(r, n)
  <2>1. /\ run[r].place = "wave" /\ run[r].busy = n /\ Kind[n] = "http"
        /\ (Pass(r, n) /\ GoOn(r, n)) \/ Break(r, n)
        /\ begun' = [begun EXCEPT ![r] = begun[r]]
        /\ UNCHANGED <<lostChild, overlapped, cancelled>>
    BY <1>5, InvOf DEF Respond
  <2>2. run[r].kids = {}
    BY <1>2, <2>1, InvOf, WorkflowAssumption DEF Tidy
  <2>3. CASE Pass(r, n) /\ GoOn(r, n)
    BY <1>2, <2>1, <2>2, <2>3, GoOnKeepsInv
  <2>4. CASE Break(r, n)
    BY <1>2, <2>1, <2>2, <2>4, BreakKeepsInv
  <2> QED
    BY <2>1, <2>3, <2>4
<1>6. CASE Fork(r, n)
  BY <1>6, ForkKeepsInv
<1>7. CASE Join(r, n)
  <2>1. CASE run[r].place # "wave"
    BY <1>7, <2>1, JoinKeepsInv
  <2>2. CASE run[r].place = "wave"
    <3>1. /\ run[r].busy = n /\ run[r].kids = {} /\ Pass(r, n) /\ GoOn(r, n)
          /\ begun' = [begun EXCEPT ![r] = begun[r]]
          /\ UNCHANGED <<lostChild, overlapped, cancelled>>
      BY <1>7, <2>2, InvOf DEF Join
    <3> QED
      BY <1>2, <2>2, <3>1, GoOnKeepsInv
  <2> QED
    BY <2>1, <2>2
<1>8. CASE ChildExecute(r, n)
  <2>1. /\ n \in run[r].kids /\ EndChild(r, n) /\ begun' = [begun EXCEPT ![r] = B]
        /\ UNCHANGED <<overlapped, cancelled>>
    BY <1>8, InvOf DEF ChildExecute, Note
  <2> QED
    BY <2>1, EndChildKeepsInv
<1>9. CASE ChildRequest(r, n)
  BY <1>9, ChildRequestKeepsInv
<1>10. CASE ChildRespond(r, n)
  <2>1. /\ n \in run[r].open /\ EndChild(r, n) /\ begun' = [begun EXCEPT ![r] = begun[r]]
        /\ UNCHANGED <<overlapped, cancelled>>
    BY <1>10, InvOf DEF ChildRespond
  <2>2. n \in run[r].kids
    BY <2>1, InvOf DEF Tidy
  <2> QED
    BY <2>1, <2>2, EndChildKeepsInv
<1>11. CASE SendRequest(r, n)
  BY <1>11, SendRequestKeepsInv
<1> QED
  BY <1>3, <1>4, <1>5, <1>6, <1>7, <1>8, <1>9, <1>10, <1>11 DEF NodeStep

LEMMA InitInv == ASSUME Init PROVE Inv
<1>1. NewRun \in RunLocals
  BY DEF NewRun, RunLocals
<1>2. Types
  BY <1>1 DEF Init, Types
<1>3. \A r \in Runs : run[r] = NewRun /\ begun[r] = {} /\ passed[r] = {}
  BY DEF Init
<1>4. EachRun
  <2>1. Tidy(NewRun)
    BY DEF NewRun, Tidy
  <2>2. Sourced(NewRun, {}, {})
    BY NoElement DEF NewRun, Sourced
  <2>3. \A r \in Runs : Settled(NewRun, {}, status, r \in lostChild)
    BY DEF NewRun, Settled
  <2>4. \A r \in Runs : Hopeful(NewRun, r \in lostChild)
    BY DEF NewRun, Hopeful
  <2> QED
    BY <1>3, <2>1, <2>2, <2>3, <2>4 DEF EachRun, RunOK
<1>5. OneAtATime
  BY <1>3 DEF OneAtATime, UnderWay, NewRun
<1>6. RunningIsHeld
  BY DEF Init, RunningIsHeld
<1> QED
  BY <1>2, <1>4, <1>5, <1>6 DEF Inv

LEMMA NextInv == ASSUME Inv, [Next]_vars PROVE Inv'
<1>1. CASE UNCHANGED vars
  BY <1>1 DEF vars, Inv, Types, EachRun, OneAtATime, RunningIsHeld, UnderWay
<1>2. CASE Next
  <2>1. PICK r \in Runs : Begin(r) \/ Step(r) \/ Cancel(r)
    BY <1>2 DEF Next
  <2>2. CASE Step(r)
    BY <2>2, NodeStepKeepsInv, EndWaveKeepsInv, MoveOnKeepsInv, NextWaveKeepsInv DEF Step
  <2> QED
    BY <2>1, <2>2, BeginKeepsInv, CancelKeepsInv
<1> QED
  BY <1>1, <1>2

LEMMA Invariance == Spec => []Inv
  BY InitInv, NextInv, PTL DEF Spec

-----------------------------------------------------------------------------
(***************************************************************************)
(* The theorems                                                             *)
(***************************************************************************)

\* The types of the state; only the node in hand has children still to be done.
THEOREM TypeCorrect == Spec => []TypeOK
<1>1. Inv => TypeOK
  BY InvOf DEF Inv, Types, RunLocals, TypeOK, Tidy
<1> QED
  BY <1>1, Invariance, PTL

\* A run executes a node only after a predecessor has passed in the same run, or as
\* a child of a PARALLEL node it executes, unless runs of the object have overlapped.
THEOREM NodesFollowNodesThatPassed == Spec => []OnlyAfterPass
<1>1. Inv => OnlyAfterPass
  BY InvOf DEF OnlyAfterPass, Sourced, Follows
<1> QED
  BY <1>1, Invariance, PTL

\* A result never says both success and error, it says success only with an END
\* node reached, and where the workflow leads to one a result with neither has lost
\* a child.
THEOREM ResultsAreHonest == Spec => []HonestResult
<1>1. Inv => HonestResult
  <2>1. SUFFICES ASSUME Inv, NEW r \in Runs, run[r].place = "done"
                 PROVE  /\ ~(run[r].success /\ run[r].error)
                        /\ run[r].success =>
                              \/ overlapped
                              \/ \E p \in passed[r] : \E n \in ToSet(NextNodes[p]) : IsEnd(n)
                        /\ LeadsToEnd /\ ~run[r].success /\ ~run[r].error
                              => r \in lostChild \/ overlapped
    BY DEF HonestResult
  <2>2. ~(run[r].success /\ run[r].error)
    BY <2>1, InvOf DEF Tidy
  <2>3. run[r].success /\ ~overlapped =>
           \E p \in passed[r] : \E n \in ToSet(NextNodes[p]) : IsEnd(n)
    BY <2>1, InvOf DEF Sourced, Follows
  <2>4. LeadsToEnd /\ ~run[r].success /\ ~run[r].error => r \in lostChild \/ overlapped
    BY <2>1, InvOf DEF Hopeful
  <2> QED
    BY <2>2, <2>3, <2>4
<1> QED
  BY <1>1, Invariance, PTL

\* When a run is over no child of it is executing, and until a run is cancelled a
\* node that says RUNNING is being executed by a run that is under way.
THEOREM NothingIsLeftRunning == Spec => []NoneLeftRunning
<1>1. Inv => NoneLeftRunning
  <2>1. SUFFICES ASSUME Inv PROVE NoneLeftRunning
    OBVIOUS
  <2>2. \A r \in Runs : ~UnderWay(r) => run[r].open = {}
    BY <2>1, InvOf DEF Tidy, UnderWay
  <2>3. RunningIsHeld
    BY <2>1 DEF Inv
  <2> QED
    BY <2>2, <2>3 DEF NoneLeftRunning, RunningIsHeld, Holds, UnderWay
<1> QED
  BY <1>1, Invariance, PTL
=============================================================================
