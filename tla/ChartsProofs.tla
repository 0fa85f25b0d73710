----------------------------- MODULE ChartsProofs -----------------------------
(***************************************************************************)
(* Proofs about charts and Compositions: retries wait as they should, an   *)
(* archive that is accepted is read as tar would extract it, versions keep *)
(* the schema of a chart of theirs, and defaults are those the recursion   *)
(* of the code arrives at and keep what users wrote.                       *)
(***************************************************************************)
EXTENDS AppliedDefaults, SequenceTheorems, FiniteSetTheorems, WellFoundedInduction, TLAPS

(* Retries: the recursive function Shifted *)

Smaller == {p \in Nat \X Nat : p[1] < p[2]}

LEMMA SmallerWellFounded == IsWellFoundedOn(Smaller, Nat)
<1>1. Smaller = OpToRel(<, Nat)
  BY DEF Smaller, OpToRel
<1> QED  BY <1>1, NatLessThanWellFounded

\* Induction, for a set of numbers.
LEMMA NatSetInduction ==
  ASSUME NEW P \in SUBSET Nat, \A n \in Nat : (\A m \in 0 .. n - 1 : m \in P) => n \in P
  PROVE  P = Nat
<1>1. SUFFICES ASSUME Nat \ P # {}
               PROVE  FALSE
  OBVIOUS
<1>2. Nat \ P \subseteq Nat
  OBVIOUS
<1>3. PICK n \in Nat \ P : \A m \in Nat \ P : <<m, n>> \notin Smaller
  BY <1>1, <1>2, SmallerWellFounded, WFMin
<1>4. ASSUME NEW m \in 0 .. n - 1
      PROVE  m \in P
  <2>1. m \in Nat /\ n \in Nat /\ m < n
    OBVIOUS
  <2>2. <<m, n>> \in Nat \X Nat /\ <<m, n>>[1] = m /\ <<m, n>>[2] = n
    BY <2>1
  <2>3. <<m, n>> \in Smaller
    BY <2>1, <2>2 DEF Smaller
  <2> QED  BY <1>3, <2>1, <2>3
<1>5. n \in P
  BY <1>4
<1> QED  BY <1>5

\* An initial part of the function that Shifted is meant to be.
Doubles(g, n) ==
  g = [i \in 0 .. n |-> IF i = 0 THEN InitialDelay ELSE 2 * g[i - 1]]

LEMMA DoublesUnique ==
  ASSUME NEW n \in Nat, NEW g, Doubles(g, n), NEW m \in Nat, NEW h, Doubles(h, m)
  PROVE  \A i \in Nat : i <= n /\ i <= m => g[i] = h[i]
<1> DEFINE P == {i \in Nat : i <= n /\ i <= m => g[i] = h[i]}
<1>1. ASSUME NEW i \in Nat, \A j \in 0 .. i - 1 : j \in P
      PROVE  i \in P
  <2>1. CASE i = 0
    BY <2>1 DEF Doubles
  <2>2. CASE i # 0 /\ i <= n /\ i <= m
    <3>1. i - 1 \in P /\ i - 1 \in Nat /\ i \in 0 .. n /\ i \in 0 .. m
      BY <1>1, <2>2
    <3>2. g[i - 1] = h[i - 1]
      BY <2>2, <3>1
    <3>3. g[i] = 2 * g[i - 1]
      BY <2>2, <3>1 DEF Doubles
    <3>4. h[i] = 2 * h[i - 1]
      BY <2>2, <3>1 DEF Doubles
    <3> QED  BY <3>2, <3>3, <3>4
  <2> QED  BY <2>1, <2>2
<1>2. P = Nat
  <2> HIDE DEF P
  <2>1. P \in SUBSET Nat
    BY DEF P
  <2> QED  BY <1>1, <2>1, NatSetInduction
<1> QED  BY <1>2

LEMMA DoublesExist == \A n \in Nat : \E g : Doubles(g, n) /\ g \in [0 .. n -> Nat \ {0}]
<1> DEFINE P == {n \in Nat : \E g : Doubles(g, n) /\ g \in [0 .. n -> Nat \ {0}]}
<1>1. ASSUME NEW n \in Nat, \A m \in 0 .. n - 1 : m \in P
      PROVE  n \in P
  <2>1. InitialDelay \in Nat \ {0}
    BY RetryAssumption
  <2>2. CASE n = 0
    <3> DEFINE g == [i \in 0 .. 0 |-> InitialDelay]
    <3>1. Doubles(g, 0) /\ g \in [0 .. 0 -> Nat \ {0}]
      BY <2>1 DEF Doubles
    <3> QED  BY <2>2, <3>1
  <2>3. CASE n # 0
    <3>1. n - 1 \in P /\ n - 1 \in Nat
      <4> HIDE DEF P
      <4>1. n - 1 \in 0 .. n - 1
        BY <2>3
      <4> QED  BY <1>1, <4>1
    <3>2. PICK h : Doubles(h, n - 1) /\ h \in [0 .. n - 1 -> Nat \ {0}]
      BY <3>1
    <3> DEFINE g == [i \in 0 .. n |-> IF i = n THEN 2 * h[n - 1] ELSE h[i]]
    <3>3. g \in [0 .. n -> Nat \ {0}]
      BY <2>3, <3>2
    <3>4. ASSUME NEW i \in 0 .. n
          PROVE  g[i] = IF i = 0 THEN InitialDelay ELSE 2 * g[i - 1]
      <4>1. CASE i = n
        BY <2>3, <4>1
      <4>2. CASE i # n
        <5>1. i \in 0 .. n - 1 /\ g[i] = h[i] /\ (i # 0 => g[i - 1] = h[i - 1])
          BY <4>2
        <5>2. h[i] = IF i = 0 THEN InitialDelay ELSE 2 * h[i - 1]
          BY <3>2, <5>1 DEF Doubles
        <5> QED  BY <5>1, <5>2
      <4> QED  BY <4>1, <4>2
    <3>5. Doubles(g, n)
      BY <3>4 DEF Doubles
    <3> HIDE DEF g
    <3> QED  BY <3>3, <3>5
  <2> QED  BY <2>2, <2>3
<1>2. P = Nat
  <2> HIDE DEF P
  <2>1. P \in SUBSET Nat
    BY DEF P
  <2> QED  BY <1>1, <2>1, NatSetInduction
<1> QED  BY <1>2

\* Shifted is what its definition says.
LEMMA ShiftedDoubles ==
  /\ Shifted \in [Nat -> Nat \ {0}]
  /\ Shifted[0] = InitialDelay
  /\ \A n \in Nat : Shifted[n + 1] = 2 * Shifted[n]
<1> DEFINE Part(n) == CHOOSE g : Doubles(g, n) /\ g \in [0 .. n -> Nat \ {0}]
           whole == [n \in Nat |-> Part(n)[n]]
<1>1. \A n \in Nat : Doubles(Part(n), n) /\ Part(n) \in [0 .. n -> Nat \ {0}]
  BY DoublesExist
<1> HIDE DEF Part
<1>2. ASSUME NEW n \in Nat
      PROVE  /\ whole[n] \in Nat \ {0}
             /\ whole[n] = IF n = 0 THEN InitialDelay ELSE 2 * whole[n - 1]
  <2>1. Part(n)[n] \in Nat \ {0} /\ Doubles(Part(n), n)
    BY <1>1
  <2>2. Part(n)[n] = IF n = 0 THEN InitialDelay ELSE 2 * Part(n)[n - 1]
    BY <2>1 DEF Doubles
  <2>3. n # 0 => Part(n)[n - 1] = Part(n - 1)[n - 1]
    <3>1. ASSUME n # 0
          PROVE  n - 1 \in Nat /\ Doubles(Part(n - 1), n - 1)
      BY <1>1, <3>1
    <3> QED  BY <2>1, <3>1, DoublesUnique
  <2> QED  BY <2>1, <2>2, <2>3
<1>3. whole = [n \in Nat |-> IF n = 0 THEN InitialDelay ELSE 2 * whole[n - 1]]
  BY <1>2
<1>4. whole \in [Nat -> Nat \ {0}]
  BY <1>2
<1> HIDE DEF whole
<1>5. Shifted = [n \in Nat |-> IF n = 0 THEN InitialDelay ELSE 2 * Shifted[n - 1]]
  BY <1>3 DEF Shifted
<1>6. \A n \in Nat : Shifted[n] = IF n = 0 THEN InitialDelay ELSE 2 * Shifted[n - 1]
  BY <1>5
<1>7. \A n \in Nat : Shifted[n] \in Nat \ {0}
  <2> DEFINE P == {n \in Nat : Shifted[n] \in Nat \ {0}}
  <2>1. ASSUME NEW n \in Nat, \A m \in 0 .. n - 1 : m \in P
        PROVE  n \in P
    <3>1. CASE n = 0
      BY <1>6, <3>1, RetryAssumption
    <3>2. CASE n # 0
      <4>1. n - 1 \in P
        BY <2>1, <3>2
      <4> QED  BY <1>6, <3>2, <4>1
    <3> QED  BY <3>1, <3>2
  <2>2. P = Nat
    <3> HIDE DEF P
    <3>1. P \in SUBSET Nat
      BY DEF P
    <3> QED  BY <2>1, <3>1, NatSetInduction
  <2> QED  BY <2>2
<1> QED  BY <1>5, <1>6, <1>7

-----------------------------------------------------------------------------
(* Types, and what the stages mean *)

\* Every delay is twice the one before it, up to the maximum.
LEMMA DelayDoubles ==
  /\ Delay(1) = Capped(InitialDelay)
  /\ \A n \in Nat \ {0} : Delay(n + 1) = Capped(2 * Delay(n))
<1>1. \A n \in Nat : Shifted[n] \in Nat \ {0}
  BY ShiftedDoubles
<1>2. ASSUME NEW n \in Nat \ {0}
      PROVE  Delay(n + 1) = Capped(2 * Delay(n))
  <2>1. n - 1 \in Nat /\ (n - 1) + 1 = n /\ (n + 1) - 1 = n
    OBVIOUS
  <2>2. Shifted[n - 1] \in Nat \ {0} /\ Shifted[n] = 2 * Shifted[n - 1]
    BY <1>1, <2>1, ShiftedDoubles
  <2> QED  BY <2>1, <2>2, RetryAssumption DEF Delay, Capped
<1>3. 1 - 1 = 0
  OBVIOUS
<1> QED  BY <1>2, <1>3, ShiftedDoubles DEF Delay, Capped

LEMMA PathsAbove ==
  ASSUME NEW p \in Paths, NEW q \in Above(p)
  PROVE  q \in Paths /\ q # p /\ q[1] = p[1]
<1>1. PICK n \in 1 .. Len(p) - 1 : q = SubSeq(p, 1, n)
  BY DEF Above
<1>2. p \in Seq(STRING) /\ n \in Nat /\ Len(p) \in Nat
  BY DEF Paths
<1>3. q \in Seq(STRING) /\ Len(q) = n /\ q[1] = p[1]
  BY <1>1, <1>2
<1> QED  BY <1>1, <1>2, <1>3 DEF Paths

LEMMA FirstAbove ==
  ASSUME NEW p \in Paths
  PROVE  /\ <<p[1]>> \in Paths
         /\ Len(p) # 1 => <<p[1]>> \in Above(p)
         /\ Len(p) = 1 => p = <<p[1]>>
         /\ Len(p) \in Nat \ {0}
<1>1. p \in Seq(STRING) /\ Len(p) \in Nat \ {0} /\ p[1] \in STRING
  BY DEF Paths
<1>2. <<p[1]>> \in Paths
  BY <1>1 DEF Paths
<1>3. CASE Len(p) = 1
  BY <1>1, <1>2, <1>3
<1>4. CASE Len(p) # 1
  <2> DEFINE q == SubSeq(p, 1, 1)
             r == <<p[1]>>
  <2>1. q \in Seq(STRING) /\ Len(q) = 1 /\ q[1] = p[1]
    BY <1>1
  <2>2. r \in Seq(STRING) /\ Len(r) = 1 /\ r[1] = p[1]
    BY <1>1
  <2>3. q = r
    <3> HIDE DEF q, r
    <3> QED  BY <2>1, <2>2, SeqEqual
  <2>4. \A n \in 1 .. Len(p) - 1 : SubSeq(p, 1, n) \in Above(p)
    BY DEF Above
  <2>5. q \in Above(p)
    <3>1. \A k \in Nat \ {0, 1} : 1 \in 1 .. k - 1
      OBVIOUS
    <3>2. Len(p) \in Nat \ {0, 1}
      BY <1>1, <1>4
    <3> QED  BY <2>4, <3>1, <3>2, Zenon
  <2> HIDE DEF q, r
  <2>6. r \in Above(p) /\ Len(p) # 1
    BY <1>4, <2>3, <2>5
  <2> QED  BY <1>1, <1>2, <2>6 DEF r
<1> QED  BY <1>3, <1>4

LEMMA DirTypes == ASSUME NEW p \in Paths PROVE Dir(p) \in Entries
<1>1. NoData \in Data
  BY DEF Data
<1> QED  BY <1>1 DEF Dir, Entries

\* The tree, as a type.
TreeOK(t) == t.root \in Seq(Entries) /\ \A p \in DOMAIN t.at : t.at[p] \in Entries

LEMMA AppendedTypes ==
  ASSUME NEW t, TreeOK(t), NEW e \in Entries
  PROVE  TreeOK(Appended(t, e))
<1>1. e.path \in Paths /\ <<e.path[1]>> \in Paths
  BY FirstAbove DEF Entries
<1>2. \A p \in Above(e.path) : p \in Paths
  BY <1>1, PathsAbove
<1>3. \A p \in Above(e.path) : Dir(p) \in Entries
  BY <1>2, DirTypes
<1>4. Dir(<<e.path[1]>>) \in Entries
  BY <1>1, DirTypes
<1>5. Appended(t, e).root \in Seq(Entries)
  BY <1>4 DEF Appended, TreeOK
<1>6. ASSUME NEW p \in DOMAIN Appended(t, e).at
      PROVE  Appended(t, e).at[p] \in Entries
  BY <1>3 DEF Appended, TreeOK
<1> QED  BY <1>5, <1>6 DEF TreeOK

LEMMA ContentTypes ==
  ASSUME NEW t, TreeOK(t), NEW root, NEW name
  PROVE  Content(t, root, name) \subseteq Data
  BY DEF Content, TreeOK, Entries

LEMMA ReadArchives ==
  ASSUME NEW a \in Archives
  PROVE  a \in Seq(Entries) /\ Len(a) \in Nat
  BY ArchivesAssumption

\* How far retries are, and how many downloads there have been, at each stage.
Progress ==
  /\ stage = "idle" => calls = 0 /\ delay = 0
  /\ stage \in {"fetch", "wait"} =>
       calls < Attempts /\ delay = IF calls = 0 THEN 0 ELSE Delay(calls)
  /\ stage \in {"idle", "fetch", "wait"} => source = <<>>
  /\ stage \in {"unpack", "fetchAgain"} => Len(source) = 1
  /\ TreeOK(tree)

ChartInv == TypeOK /\ Progress

LEMMA ChartInvInit == Init => ChartInv
<1> SUFFICES ASSUME Init PROVE ChartInv
  OBVIOUS
<1>1. TreeOK(tree)
  BY DEF Init, NoTree, TreeOK
<1>2. TypeOK
  BY <1>1, RetryAssumption DEF Init, NoTree, TreeOK, TypeOK, Stages, Nothing, Read
<1> QED  BY <1>1, <1>2 DEF Init, ChartInv, Progress

LEMMA NoTreeOK == TreeOK(NoTree)
  BY DEF NoTree, TreeOK

LEMMA ChartInvStep == ChartInv /\ [Next]_vars => ChartInv'
<1> SUFFICES ASSUME ChartInv, [Next]_vars PROVE ChartInv'
  OBVIOUS
<1> USE RetryAssumption
<1>0. /\ op \in Handlers \cup {"none"} /\ stage \in Stages
      /\ calls \in 0 .. Attempts /\ delay \in {0} \cup {Delay(n) : n \in 1 .. Attempts}
      /\ tar \in Seq(Entries) /\ TreeOK(tree)
      /\ source \in Seq(Archives) /\ Len(source) <= 2 /\ chart \in Read
  BY DEF ChartInv, Progress, TypeOK
<1>1. ASSUME NEW a \in Archives, Fetch(a)
      PROVE  ChartInv'
  <2>1. /\ source = <<>> /\ calls < Attempts /\ tar' = a /\ tree' = NoTree
        /\ source' = <<a>> /\ stage' = "unpack" /\ calls' = calls + 1
        /\ UNCHANGED <<op, chart, delay>>
    BY <1>1 DEF Fetch, Downloaded, ChartInv, Progress
  <2>2. TreeOK(tree')
    BY <2>1, NoTreeOK
  <2>3. source' \in Seq(Archives) /\ Len(source') = 1
    BY <2>1
  <2>4. TypeOK'
    BY <1>0, <2>1, <2>2, <2>3, ReadArchives DEF TypeOK, TreeOK, Stages
  <2> QED  BY <2>1, <2>2, <2>3, <2>4 DEF ChartInv, Progress
<1>2. ASSUME NEW a \in Archives, FetchAgain(a)
      PROVE  ChartInv'
  <2>1. /\ Len(source) = 1 /\ tar' = a /\ tree' = NoTree
        /\ source' = Append(source, a) /\ stage' = "unpackAgain"
        /\ UNCHANGED <<op, chart, delay, calls>>
    BY <1>2 DEF FetchAgain, Downloaded, ChartInv, Progress
  <2>2. TreeOK(tree')
    BY <2>1, NoTreeOK
  <2>3. source' \in Seq(Archives) /\ Len(source') = 2
    <3>1. source \in Seq(Archives) /\ source' = Append(source, a)
      BY <1>0, <2>1
    <3>2. Append(source, a) \in Seq(Archives) /\ Len(Append(source, a)) = Len(source) + 1
      BY <3>1, AppendProperties
    <3> QED  BY <2>1, <3>1, <3>2
  <2>4. TypeOK'
    BY <1>0, <2>1, <2>2, <2>3, ReadArchives DEF TypeOK, TreeOK, Stages
  <2> QED  BY <2>1, <2>2, <2>3, <2>4 DEF ChartInv, Progress
<1>3. ASSUME Retry
      PROVE  ChartInv'
  <2>1. calls < Attempts /\ source = <<>> /\ calls' = calls + 1 /\ calls' \in 1 .. Attempts
    BY <1>0, <1>3 DEF Retry, ChartInv, Progress
  <2>2. delay' \in {0} \cup {Delay(n) : n \in 1 .. Attempts}
    BY <1>0, <1>3, <2>1 DEF Retry
  <2>3. UNCHANGED <<op, tar, tree, source, chart>> /\ stage' \in {"wait", "gaveUp"}
        /\ (stage' = "wait" => calls' # Attempts /\ delay' = Delay(calls'))
    BY <1>3 DEF Retry
  <2>4. TypeOK'
    BY <1>0, <2>1, <2>2, <2>3 DEF TypeOK, TreeOK, Stages
  <2> QED  BY <1>0, <2>1, <2>3, <2>4 DEF ChartInv, Progress
<1>4. CASE Wait
  BY <1>4 DEF Wait, ChartInv, Progress, TypeOK, TreeOK, Stages
<1>5. CASE Abort
  BY <1>0, <1>5, NoTreeOK DEF Abort, ChartInv, Progress, TypeOK, TreeOK, Stages, Nothing, Read
<1>6. CASE NextEntry
  <2>1. Head(tar) \in Entries /\ Tail(tar) \in Seq(Entries)
    BY <1>0, <1>6 DEF NextEntry
  <2>2. TreeOK(tree')
    BY <1>0, <1>6, <2>1, AppendedTypes DEF NextEntry
  <2>3. TypeOK'
    BY <1>0, <1>6, <2>1, <2>2 DEF NextEntry, TypeOK, TreeOK
  <2> QED  BY <1>6, <2>2, <2>3 DEF NextEntry, ChartInv, Progress
<1>7. CASE ReadChart
  <2>1. Version(tree, Root(tree)) \subseteq Data /\ Schema(tree, Root(tree)) \subseteq Data
    BY <1>0, ContentTypes DEF Version, Schema
  <2>2. chart' \in Read
    BY <1>7, <2>1 DEF ReadChart, Read
  <2>3. TreeOK(tree') /\ stage' \in {"failed", "done", "fetchAgain"}
    BY <1>7, NoTreeOK DEF ReadChart
  <2>4. UNCHANGED <<op, calls, delay, tar, source>> /\ Len(source) = 1
    BY <1>7 DEF ReadChart, ChartInv, Progress
  <2>5. TypeOK'
    BY <1>0, <2>2, <2>3, <2>4 DEF TypeOK, TreeOK, Stages
  <2> QED  BY <2>3, <2>4, <2>5 DEF ChartInv, Progress
<1>8. CASE ReadAgain
  <2>1. Version(tree, RootDir(tree)) \subseteq Data
    BY <1>0, ContentTypes DEF Version
  <2>2. chart' \in Read
    BY <1>0, <1>8, <2>1 DEF ReadAgain, Read
  <2>3. TreeOK(tree') /\ stage' \in {"failed", "done"}
    BY <1>8, NoTreeOK DEF ReadAgain
  <2>4. UNCHANGED <<op, calls, delay, tar, source>>
    BY <1>8 DEF ReadAgain
  <2>5. TypeOK'
    BY <1>0, <2>2, <2>3, <2>4 DEF TypeOK, TreeOK, Stages
  <2> QED  BY <2>3, <2>4, <2>5 DEF ChartInv, Progress
<1>9. CASE End
  BY <1>9, NoTreeOK DEF End, ChartInv, Progress, TypeOK, TreeOK, Stages, Nothing, Read
<1>10. ASSUME NEW h \in Handlers, Begin(h)
       PROVE  ChartInv'
  BY <1>10 DEF Begin, ChartInv, Progress, TypeOK, TreeOK, Stages
<1>11. CASE UNCHANGED vars
  BY <1>11 DEF vars, ChartInv, Progress, TypeOK, TreeOK
<1> QED  BY <1>1, <1>2, <1>3, <1>4, <1>5, <1>6, <1>7, <1>8, <1>9, <1>10, <1>11 DEF Next, Step

\* Composed with the webhooks, charts take the same steps.
LEMMA ChartSteps == (InitAll => Init) /\ ([NextAll]_all => [Next]_vars)
<1>1. InitAll => Init
  BY DEF InitAll
<1>2. Generate => Next
  BY DEF Generate, Next
<1>3. Apart => [Next]_vars
  BY DEF Apart
<1> QED  BY <1>1, <1>2, <1>3 DEF NextAll, all

LEMMA ChartInvHolds == SpecAll => []ChartInv
<1> QED  BY ChartSteps, ChartInvInit, ChartInvStep, PTL DEF SpecAll

\* Reading charts keeps to its types; at most two archives are downloaded, no
\* more attempts are made than there are, and the wait is that of an attempt.
THEOREM ChartTypes == SpecAll => []TypeOK
<1>1. ChartInv => TypeOK
  BY DEF ChartInv
<1> QED  BY <1>1, ChartInvHolds, PTL

LEMMA BackoffStep ==
  ASSUME ChartInv, Next
  PROVE  /\ stage' = "gaveUp" /\ stage # "gaveUp" => calls' = Attempts
         /\ stage = "fetch" /\ stage' = "wait" =>
              delay' = Capped(IF calls = 0 THEN InitialDelay ELSE 2 * delay)
<1>1. CASE Retry
  <2>1. calls \in Nat /\ calls' = calls + 1 /\ (calls # 0 => delay = Delay(calls))
    BY <1>1, RetryAssumption DEF Retry, ChartInv, Progress, TypeOK
  <2>2. /\ stage' = "wait" => delay' = Delay(calls + 1)
        /\ stage' = "gaveUp" => calls' = Attempts
    BY <1>1, <2>1 DEF Retry
  <2>3. CASE calls = 0
    BY <2>2, <2>3, DelayDoubles
  <2>4. CASE calls # 0
    BY <2>1, <2>2, <2>4, DelayDoubles
  <2> QED  BY <2>3, <2>4
<1>2. ASSUME NEW a \in Archives, Fetch(a) \/ FetchAgain(a)
      PROVE  stage' \notin {"gaveUp", "wait"}
  BY <1>2 DEF Fetch, FetchAgain, Downloaded
<1>3. Wait \/ NextEntry \/ ReadAgain \/ ReadChart \/ Abort \/ (\E h \in Handlers : Begin(h))
        => (stage' # stage => stage' \notin {"gaveUp", "wait"})
  BY DEF Wait, NextEntry, ReadAgain, ReadChart, Abort, Begin
<1>4. End => stage' \notin {"gaveUp", "wait"}
  BY DEF End
<1> QED  BY <1>1, <1>2, <1>3, <1>4 DEF Next, Step

\* The retry helper gives up only after every attempt; it waits for the initial
\* delay, then twice as long each time, and never longer than the maximum.
THEOREM BackoffHolds == SpecAll => Backoff
<1>1. ChartInv /\ [Next]_vars =>
        [/\ stage' = "gaveUp" /\ stage # "gaveUp" => calls' = Attempts
         /\ stage = "fetch" /\ stage' = "wait" =>
              delay' = Capped(IF calls = 0 THEN InitialDelay ELSE 2 * delay)]_vars
  BY BackoffStep
<1> QED  BY <1>1, ChartInvHolds, ChartSteps, PTL DEF SpecAll, Backoff

-----------------------------------------------------------------------------
(* Charts are read as tar would extract them *)

\* What tgzfs.New has made of the first n entries of an archive: what is at a
\* path is a directory it has made up or the last entry of that path, and
\* everything is below something that is listed at the top.
Unpacked(a, n, t) ==
  /\ \A i \in 1 .. n : a[i].path \in DOMAIN t.at
  /\ \A p \in DOMAIN t.at :
       /\ p \in Paths
       /\ \/ t.at[p] = Dir(p)
          \/ \E i \in 1 .. n : t.at[p] = a[i] /\ a[i].path = p
                               /\ \A k \in i + 1 .. n : a[k].path # p
       /\ \E j \in DOMAIN t.root : t.root[j].path = <<p[1]>>
  /\ \A j \in DOMAIN t.root :
       /\ t.root[j].path = <<t.root[j].path[1]>>
       /\ t.root[j].dir \/ \E i \in 1 .. n : t.root[j] = a[i]

Topped(t, p) == \E j \in DOMAIN t.root : t.root[j].path = <<p[1]>>

LEMMA EntryListed ==
  ASSUME NEW a, NEW n, NEW t, Unpacked(a, n, t), NEW i \in 1 .. n
  PROVE  a[i].path \in DOMAIN t.at
  BY DEF Unpacked

LEMMA TopListed ==
  ASSUME NEW a, NEW n, NEW t, Unpacked(a, n, t), NEW p \in DOMAIN t.at
  PROVE  Topped(t, p)
  BY DEF Unpacked, Topped

LEMMA UnpackedNone == ASSUME NEW a PROVE Unpacked(a, 0, NoTree)
  BY DEF Unpacked, NoTree

\* The top lists what it did, and it lists a new path's first part.
LEMMA AppendedRoot ==
  ASSUME NEW t, TreeOK(t), NEW e \in Entries
  PROVE  LET u == Appended(t, e) IN
         /\ Len(u.root) \in Nat /\ DOMAIN u.root = 1 .. Len(u.root)
         /\ \A j \in DOMAIN t.root : j \in DOMAIN u.root /\ u.root[j] = t.root[j]
         /\ \A j \in DOMAIN u.root \ DOMAIN t.root :
              u.root[j] = IF Len(e.path) = 1 THEN e ELSE Dir(<<e.path[1]>>)
         /\ Len(e.path) = 1 \/ <<e.path[1]>> \in Above(e.path) \ DOMAIN t.at =>
              \E j \in DOMAIN u.root \ DOMAIN t.root : TRUE
<1> DEFINE u == Appended(t, e)
           x == IF Len(e.path) = 1 THEN e ELSE Dir(<<e.path[1]>>)
           grows == Len(e.path) = 1 \/ <<e.path[1]>> \in Above(e.path) \ DOMAIN t.at
<1>1. t.root \in Seq(Entries) /\ x \in Entries
  BY FirstAbove, DirTypes DEF TreeOK, Entries
<1>2. u.root = IF grows THEN Append(t.root, x) ELSE t.root
  BY DEF Appended
<1> HIDE DEF u, x, grows
<1>3. /\ Len(Append(t.root, x)) = Len(t.root) + 1 /\ Append(t.root, x) \in Seq(Entries)
      /\ \A i \in 1 .. Len(t.root) : Append(t.root, x)[i] = t.root[i]
      /\ Append(t.root, x)[Len(t.root) + 1] = x
  BY <1>1, AppendProperties
<1>4. /\ DOMAIN t.root = 1 .. Len(t.root) /\ Len(t.root) \in Nat
      /\ DOMAIN Append(t.root, x) = 1 .. Len(t.root) + 1
  BY <1>1, <1>3
<1>5. CASE grows
  <2>1. u.root = Append(t.root, x)
    BY <1>2, <1>5
  <2>2. Len(t.root) + 1 \in DOMAIN u.root \ DOMAIN t.root
    BY <1>4, <2>1
  <2>3. \A j \in DOMAIN u.root \ DOMAIN t.root : j = Len(t.root) + 1
    BY <1>4, <2>1
  <2>4. \A j \in DOMAIN t.root : j \in DOMAIN u.root /\ u.root[j] = t.root[j]
    BY <1>3, <1>4, <2>1
  <2>5. Len(u.root) \in Nat /\ DOMAIN u.root = 1 .. Len(u.root)
    BY <1>3, <1>4, <2>1
  <2>6. \A j \in DOMAIN u.root \ DOMAIN t.root : u.root[j] = x
    BY <1>3, <2>1, <2>3
  <2> QED  BY <2>2, <2>4, <2>5, <2>6 DEF u, x
<1>6. CASE ~grows
  <2>1. u.root = t.root
    BY <1>2, <1>6
  <2> QED  BY <1>4, <1>6, <2>1 DEF u, grows
<1> QED  BY <1>5, <1>6

LEMMA UnpackedNext ==
  ASSUME NEW a \in Archives, NEW n \in Nat, n < Len(a),
         NEW t, TreeOK(t), Unpacked(a, n, t)
  PROVE  Unpacked(a, n + 1, Appended(t, a[n + 1]))
<1> DEFINE e == a[n + 1]
           u == Appended(t, e)
<1>0. a \in Seq(Entries) /\ Len(a) \in Nat /\ n + 1 \in 1 .. Len(a)
  BY ReadArchives
<1>1. e \in Entries /\ e.path \in Paths
  <2>1. e \in Entries
    BY <1>0, ElementOfSeq
  <2> HIDE DEF e
  <2> QED  BY <2>1 DEF Entries
<1>2. /\ DOMAIN u.at = DOMAIN t.at \cup Above(e.path) \cup {e.path}
      /\ \A p \in DOMAIN u.at : u.at[p] = IF p = e.path THEN e
                                          ELSE IF p \in DOMAIN t.at THEN t.at[p] ELSE Dir(p)
  BY DEF Appended
<1>3. /\ DOMAIN t.root \subseteq DOMAIN u.root /\ \A j \in DOMAIN t.root : u.root[j] = t.root[j]
      /\ \A j \in DOMAIN u.root \ DOMAIN t.root :
           u.root[j] = IF Len(e.path) = 1 THEN e ELSE Dir(<<e.path[1]>>)
      /\ Len(e.path) = 1 \/ <<e.path[1]>> \in Above(e.path) \ DOMAIN t.at =>
              \E j \in DOMAIN u.root \ DOMAIN t.root : TRUE
  BY <1>1, AppendedRoot
<1>4. e.path \in Paths /\ (Len(e.path) = 1 => e.path = <<e.path[1]>>)
      /\ (Len(e.path) # 1 => <<e.path[1]>> \in Above(e.path)) /\ <<e.path[1]>> \in Paths
  BY <1>1, FirstAbove
<1>5. \A p \in Above(e.path) : p \in Paths /\ p # e.path /\ p[1] = e.path[1]
  BY <1>1, PathsAbove
<1> HIDE DEF e, u
<1>6. \E j \in DOMAIN u.root : u.root[j].path = <<e.path[1]>>
  <2>1. CASE Len(e.path) = 1 \/ <<e.path[1]>> \in Above(e.path) \ DOMAIN t.at
    BY <1>3, <1>4, <2>1 DEF Dir
  <2>2. CASE Len(e.path) # 1 /\ <<e.path[1]>> \in DOMAIN t.at
    <3>1. <<e.path[1]>>[1] = e.path[1]
      OBVIOUS
    <3> QED  BY <1>3, <2>2, <3>1 DEF Unpacked
  <2> QED  BY <1>4, <2>1, <2>2
<1>7. ASSUME NEW p \in DOMAIN u.at
      PROVE  /\ p \in Paths
             /\ \/ u.at[p] = Dir(p)
                \/ \E i \in 1 .. n + 1 : u.at[p] = a[i] /\ a[i].path = p
                                         /\ \A k \in i + 1 .. n + 1 : a[k].path # p
             /\ \E j \in DOMAIN u.root : u.root[j].path = <<p[1]>>
  <2>1. CASE p = e.path
    <3>1. u.at[p] = a[n + 1] /\ a[n + 1].path = p
      BY <1>2, <2>1 DEF e
    <3>2. n + 1 \in 1 .. n + 1 /\ \A k \in n + 1 + 1 .. n + 1 : a[k].path # p
      OBVIOUS
    <3> QED  BY <1>4, <1>6, <2>1, <3>1, <3>2
  <2>2. CASE p # e.path /\ p \in DOMAIN t.at
    <3>1. u.at[p] = t.at[p]
      BY <1>2, <2>2
    <3>2. p \in Paths /\ \E j \in DOMAIN t.root : t.root[j].path = <<p[1]>>
      BY <2>2 DEF Unpacked
    <3>3. ASSUME t.at[p] # Dir(p)
          PROVE  \E i \in 1 .. n + 1 : u.at[p] = a[i] /\ a[i].path = p
                                       /\ \A k \in i + 1 .. n + 1 : a[k].path # p
      <4>1. PICK i \in 1 .. n : t.at[p] = a[i] /\ a[i].path = p
                                /\ \A k \in i + 1 .. n : a[k].path # p
        BY <2>2, <3>3 DEF Unpacked
      <4>2. \A k \in i + 1 .. n + 1 : k \in i + 1 .. n \/ k = n + 1
        OBVIOUS
      <4>3. \A k \in i + 1 .. n + 1 : a[k].path # p
        BY <2>2, <4>1, <4>2 DEF e
      <4>4. i \in 1 .. n + 1
        OBVIOUS
      <4> QED  BY <3>1, <4>1, <4>3, <4>4
    <3> QED  BY <1>3, <3>1, <3>2, <3>3
  <2>3. CASE p # e.path /\ p \notin DOMAIN t.at
    BY <1>2, <1>5, <1>6, <2>3
  <2> QED  BY <2>1, <2>2, <2>3
<1>8. ASSUME NEW j \in DOMAIN u.root
      PROVE  /\ u.root[j].path = <<u.root[j].path[1]>>
             /\ u.root[j].dir \/ \E i \in 1 .. n + 1 : u.root[j] = a[i]
  <2>1. CASE j \in DOMAIN t.root
    BY <1>3, <2>1 DEF Unpacked
  <2>2. CASE j \notin DOMAIN t.root /\ Len(e.path) = 1
    BY <1>3, <1>4, <2>2 DEF e
  <2>3. CASE j \notin DOMAIN t.root /\ Len(e.path) # 1
    BY <1>3, <2>3 DEF Dir
  <2> QED  BY <2>1, <2>2, <2>3
<1>9. \A i \in 1 .. n + 1 : a[i].path \in DOMAIN u.at
  <2>1. \A i \in 1 .. n + 1 : i \in 1 .. n \/ i = n + 1
    OBVIOUS
  <2> QED  BY <1>2, <2>1 DEF Unpacked, e
<1> QED  BY <1>7, <1>8, <1>9 DEF Unpacked, e, u

LEMMA PairOfOnes ==
  ASSUME NEW x, NEW y
  PROVE  <<x>> \o <<y>> = <<x, y>>
<1> DEFINE S == {x, y}
           q == <<x>> \o <<y>>
           r == <<x, y>>
<1>1. <<x>> \in Seq(S) /\ <<y>> \in Seq(S) /\ r \in Seq(S)
  OBVIOUS
<1>2. q \in Seq(S) /\ Len(q) = 2 /\ q[1] = x /\ q[2] = y
  BY <1>1
<1>3. Len(r) = 2 /\ r[1] = x /\ r[2] = y
  OBVIOUS
<1> HIDE DEF S, q, r
<1>4. \A i \in 1 .. 2 : i = 1 \/ i = 2
  OBVIOUS
<1>5. q = r
  BY <1>1, <1>2, <1>3, <1>4, SeqEqual
<1> QED  BY <1>5 DEF q, r

\* The root of an archive that is accepted: no other directory is at the top.
LEMMA RootIsOne ==
  ASSUME NEW t, TreeOK(t), NEW root, root = Root(t) \/ root = RootDir(t), root # {}
  PROVE  \E i \in DOMAIN t.root :
           /\ root = {t.root[i].path}
           /\ \A j \in DOMAIN t.root : t.root[j].path # t.root[i].path => ~t.root[j].dir
<1>1. DOMAIN t.root = 1 .. Len(t.root)
  BY DEF TreeOK
<1>2. CASE root = Root(t)
  <2>1. Len(t.root) = 1 /\ root = {t.root[1].path}
    BY <1>2 DEF Root
  <2>2. 1 \in DOMAIN t.root /\ \A j \in DOMAIN t.root : j = 1
    BY <1>1, <2>1
  <2> QED  BY <2>1, <2>2
<1>3. CASE root = RootDir(t)
  <2> DEFINE only == {j \in DOMAIN t.root : \A k \in DOMAIN t.root : t.root[k].dir <=> k = j}
  <2>1. root = {t.root[i].path : i \in only}
    BY <1>3 DEF RootDir
  <2>2. PICK i : i \in only
    BY <2>1
  <2>3. i \in DOMAIN t.root /\ \A k \in DOMAIN t.root : t.root[k].dir <=> k = i
    BY <2>2
  <2>4. \A j \in only : j = i
    BY <2>3
  <2> HIDE DEF only
  <2>5. root = {t.root[i].path}
    BY <2>1, <2>2, <2>4
  <2> QED  BY <2>3, <2>5
<1> QED  BY <1>2, <1>3

\* The file of that name in an archive, and only one.
Has(a, name, x) == x = ReadFrom(a, name) /\ \E d : x = {d}

\* A file that is read is the one tar would leave, of the only chart there is.
LEMMA ContentIsExtracted ==
  ASSUME NEW a \in Archives, NEW t, TreeOK(t), Unpacked(a, Len(a), t),
         NEW root, root = Root(t) \/ root = RootDir(t),
         NEW name, Content(t, root, name) # {}
  PROVE  Has(a, name, Content(t, root, name))
<1>0. /\ a \in Seq(Entries) /\ Len(a) \in Nat /\ DOMAIN a = 1 .. Len(a)
      /\ \A i \in 1 .. Len(a) : a[i] \in Entries /\ a[i].path \in Paths
      /\ \A i \in 1 .. Len(a) : a[i].dir => a[i].data = NoData
      /\ \A i, j \in 1 .. Len(a) : a[i].path \in Above(a[j].path) => a[i].dir
  <2>1. a \in Seq(Entries) /\ Len(a) \in Nat /\ DOMAIN a = 1 .. Len(a)
    BY ReadArchives
  <2>2. \A i \in 1 .. Len(a) : a[i] \in Entries
    BY <2>1, ElementOfSeq
  <2>3. \A i \in 1 .. Len(a) : a[i].path \in Paths
    BY <2>2 DEF Entries
  <2> QED  BY <2>1, <2>2, <2>3, ArchivesAssumption
<1>1. root # {}
  BY DEF Content
<1>2. PICK i \in DOMAIN t.root :
        /\ root = {t.root[i].path}
        /\ \A j \in DOMAIN t.root : t.root[j].path # t.root[i].path => ~t.root[j].dir
  BY <1>1, RootIsOne
<1> DEFINE r == t.root[i].path
           T == r[1]
           p == <<T, name>>
<1>3. r = <<T>> /\ root = {r} /\ T \in STRING
  <2>1. r \in Paths
    <3>1. t.root[i] \in Entries
      BY ElementOfSeq DEF TreeOK
    <3> QED  BY <3>1 DEF Entries
  <2> QED  BY <1>2, <2>1 DEF Unpacked, Paths
<1> HIDE DEF r, T
<1>4. r \o <<name>> = p
  <2>1. <<T>> \o <<name>> = <<T, name>>
    BY <1>3, PairOfOnes
  <2> QED  BY <1>3, <2>1
<1>5. Content(t, root, name) = {t.at[q].data : q \in {p} \cap DOMAIN t.at} \ {NoData}
  BY <1>3, <1>4 DEF Content
<1> HIDE DEF p
<1>6. p \in DOMAIN t.at /\ t.at[p].data # NoData /\ Content(t, root, name) = {t.at[p].data}
  BY <1>5
<1>7. PICK m \in 1 .. Len(a) : t.at[p] = a[m] /\ a[m].path = p
                               /\ \A k \in m + 1 .. Len(a) : a[k].path # p
  <2>1. t.at[p] # Dir(p)
    BY <1>6 DEF Dir
  <2> QED  BY <1>6, <2>1 DEF Unpacked
<1>8. ~a[m].dir
  BY <1>0, <1>6, <1>7
<1>9. Extracted(a, p) = {a[m].data}
  <2> DEFINE found == {j \in 1 .. Len(a) : a[j].path = p /\ ~a[j].dir}
             last == {j \in found : \A k \in found : k <= j}
  <2>1. m \in found
    BY <1>7, <1>8
  <2>2. \A k \in found : k \in Nat /\ k <= m
    BY <1>0, <1>7
  <2>3. Extracted(a, p) = {a[j].data : j \in last}
    BY DEF Extracted
  <2> HIDE DEF found
  <2>4. ASSUME NEW j \in last
        PROVE  j = m
    <3>1. j \in Nat /\ j <= m /\ m <= j
      BY <2>1, <2>2
    <3> QED  BY <3>1
  <2>5. m \in last
    BY <2>1, <2>2
  <2> HIDE DEF last
  <2>6. last = {m}
    BY <2>4, <2>5
  <2> QED  BY <2>3, <2>6
<1>10. T \in Tops(a)
  <2>1. a[m].path[1] = T
    BY <1>7 DEF p
  <2> QED  BY <2>1 DEF Tops
<1>11. ASSUME NEW U \in Tops(a), U # T
       PROVE  Extracted(a, <<U, name>>) = {}
  <2> SUFFICES ASSUME NEW k \in 1 .. Len(a), a[k].path = <<U, name>>
               PROVE  FALSE
    BY DEF Extracted
  <2>1. a[k].path \in Paths /\ a[k].path[1] = U /\ Len(a[k].path) = 2
    BY <1>0
  <2>2. <<U>> \in Above(a[k].path)
    BY <2>1, FirstAbove
  <2>3. a[k].path \in DOMAIN t.at
    BY EntryListed
  <2>4. PICK j \in DOMAIN t.root : t.root[j].path = <<U>>
    <3>1. Topped(t, a[k].path)
      BY <2>3, TopListed
    <3> QED  BY <2>1, <3>1 DEF Topped
  <2>5. ~t.root[j].dir
    BY <1>2, <1>3, <1>11, <2>4 DEF r
  <2>6. PICK l \in 1 .. Len(a) : t.root[j] = a[l]
    BY <2>5 DEF Unpacked
  <2>7. a[l].path \in Above(a[k].path) /\ ~a[l].dir
    BY <2>2, <2>4, <2>5, <2>6
  <2> QED  BY <1>0, <2>7
<1>12. ReadFrom(a, name) = Extracted(a, p)
  <2>1. \A x \in ReadFrom(a, name) : x \in Extracted(a, p)
    BY <1>11 DEF ReadFrom, p
  <2>2. \A x \in Extracted(a, p) : x \in ReadFrom(a, name)
    BY <1>10 DEF ReadFrom, p
  <2> QED  BY <2>1, <2>2
<1> QED  BY <1>6, <1>7, <1>9, <1>12 DEF Has

\* While an archive is unpacked, the tree is that of the entries that have been
\* read; what has been read of the chart is what its archive has.
Unpacking ==
  LET a == source[Len(source)]
  IN \E n \in 0 .. Len(a) : tar = SubSeq(a, n + 1, Len(a)) /\ Unpacked(a, n, tree)
Reading ==
  /\ stage \in {"unpack", "unpackAgain"} => Unpacking
  /\ stage = "unpackAgain" => Len(source) = 2
  /\ stage \in {"fetchAgain", "unpackAgain", "done"} =>
       /\ source # <<>>
       /\ Has(source[1], "values.schema.json", chart.schema)
       /\ op # "observe" => Has(source[1], "Chart.yaml", chart.version)
  /\ stage \in {"fetchAgain", "unpackAgain"} /\ op = "observe" => chart.version = {}
  /\ stage = "done" /\ op = "observe" => Has(source[2], "Chart.yaml", chart.version)

ReadingInv == ChartInv /\ Reading

LEMMA UnpackingStarts ==
  ASSUME NEW a \in Archives, Len(source') \in Nat, source'[Len(source')] = a,
         tar' = a, tree' = NoTree
  PROVE  Unpacking'
<1>1. a \in Seq(Entries) /\ Len(a) \in Nat
  BY ReadArchives
<1>2. SubSeq(a, 1, Len(a)) = a
  BY <1>1, SubSeqFull
<1>3. 0 \in 0 .. Len(a) /\ 0 + 1 = 1
  BY <1>1
<1> QED  BY <1>2, <1>3, UnpackedNone DEF Unpacking

LEMMA UnpackingGoesOn ==
  ASSUME source[Len(source)] \in Archives, TreeOK(tree), Unpacking, NextEntry
  PROVE  Unpacking'
<1> DEFINE a == source[Len(source)]
<1>1. PICK n \in 0 .. Len(a) : tar = SubSeq(a, n + 1, Len(a)) /\ Unpacked(a, n, tree)
  BY DEF Unpacking
<1>2. a \in Seq(Entries) /\ Len(a) \in Nat /\ a \in Archives
  BY ReadArchives
<1>3. tar # <<>> /\ tree' = Appended(tree, Head(tar)) /\ tar' = Tail(tar) /\ source' = source
  BY DEF NextEntry
<1> HIDE DEF a
<1>4. n < Len(a)
  <2> SUFFICES ASSUME n = Len(a)
               PROVE  FALSE
    BY <1>2
  <2>1. Len(a) < n + 1 /\ n + 1 \in Int /\ Len(a) \in Int
    BY <1>2
  <2> QED  BY <1>1, <1>3, <2>1, SubSeqEmpty
<1>5. n + 1 \in 1 .. Len(a) /\ Len(a) \in n + 1 .. Len(a)
  BY <1>2, <1>4
<1>6. Head(tar) = a[n + 1] /\ Tail(tar) = SubSeq(a, n + 1 + 1, Len(a))
  BY <1>1, <1>2, <1>5, HeadTailOfSubSeq
<1>7. Unpacked(a, n + 1, tree')
  BY <1>1, <1>2, <1>3, <1>4, <1>6, UnpackedNext
<1>8. n + 1 \in 0 .. Len(a)
  BY <1>5
<1> QED  BY <1>3, <1>6, <1>7, <1>8 DEF Unpacking, a

LEMMA UnpackingEnds ==
  ASSUME source[Len(source)] \in Archives, Unpacking, tar = <<>>
  PROVE  Unpacked(source[Len(source)], Len(source[Len(source)]), tree)
<1> DEFINE a == source[Len(source)]
<1>1. PICK n \in 0 .. Len(a) : tar = SubSeq(a, n + 1, Len(a)) /\ Unpacked(a, n, tree)
  BY DEF Unpacking
<1>2. a \in Seq(Entries) /\ Len(a) \in Nat
  BY ReadArchives
<1> HIDE DEF a
<1>3. n = Len(a)
  <2> SUFFICES ASSUME n < Len(a)
               PROVE  FALSE
    BY <1>2
  <2>1. \A i \in n + 1 .. Len(a) : a[i] \in Entries
    BY <1>2
  <2>2. Len(SubSeq(a, n + 1, Len(a))) = IF n + 1 <= Len(a) THEN Len(a) - (n + 1) + 1 ELSE 0
    BY <1>2, <2>1, SubSeqProperties
  <2>3. Len(SubSeq(a, n + 1, Len(a))) # 0
    BY <1>2, <2>2
  <2>4. Len(tar) = 0
    OBVIOUS
  <2> QED  BY <1>1, <2>3, <2>4
<1> QED  BY <1>1, <1>3 DEF a

LEMMA ReadingInit == Init => ReadingInv
  BY ChartInvInit DEF ReadingInv, Reading, Init

LEMMA ReadingStep == ReadingInv /\ [Next]_vars => ReadingInv'
<1> SUFFICES ASSUME ReadingInv, [Next]_vars PROVE Reading'
  BY ChartInvStep DEF ReadingInv
<1>0. ChartInv /\ Reading
  BY DEF ReadingInv
<1>1. /\ source \in Seq(Archives) /\ Len(source) \in Nat /\ chart \in Read /\ TreeOK(tree)
      /\ stage \in {"unpack", "fetchAgain"} => Len(source) = 1
      /\ stage = "unpackAgain" => Len(source) = 2
      /\ stage \in {"idle", "fetch", "wait"} => source = <<>>
      /\ \A i \in 1 .. Len(source) : source[i] \in Archives
  BY <1>0 DEF ChartInv, Progress, TypeOK, Reading
<1>2. ASSUME NEW a \in Archives, Fetch(a)
      PROVE  Reading'
  <2>1. /\ tar' = a /\ tree' = NoTree /\ source' = <<a>> /\ stage' = "unpack"
    BY <1>1, <1>2 DEF Fetch, Downloaded
  <2>2. Len(source') = 1 /\ source'[1] = a
    BY <2>1
  <2>3. Unpacking'
    BY <2>1, <2>2, UnpackingStarts
  <2> QED  BY <2>1, <2>3 DEF Reading
<1>3. ASSUME NEW a \in Archives, FetchAgain(a)
      PROVE  Reading'
  <2>1. /\ stage = "fetchAgain" /\ tar' = a /\ tree' = NoTree /\ source' = Append(source, a)
        /\ stage' = "unpackAgain" /\ UNCHANGED <<op, chart>>
    BY <1>3 DEF FetchAgain, Downloaded
  <2>2. Len(source') = 2 /\ source'[2] = a /\ source'[1] = source[1] /\ source' # <<>>
    <3>1. Len(source) = 1 /\ source \in Seq(Archives)
      BY <1>1, <2>1
    <3>2. Len(Append(source, a)) = Len(source) + 1
      BY <3>1, AppendProperties
    <3>3. Append(source, a)[Len(source) + 1] = a
      BY <3>1, AppendProperties
    <3>4. Append(source, a)[1] = source[1]
      BY <3>1
    <3>5. Len(source) + 1 = 2 /\ Len(<<>>) = 0
      BY <3>1
    <3> QED  BY <2>1, <3>2, <3>3, <3>4, <3>5
  <2>3. Unpacking'
    BY <2>1, <2>2, UnpackingStarts
  <2> QED  BY <1>0, <2>1, <2>2, <2>3 DEF Reading
<1>4. CASE NextEntry
  <2>1. stage \in {"unpack", "unpackAgain"} /\ UNCHANGED <<op, stage, source, chart>>
    BY <1>4 DEF NextEntry
  <2>2. Unpacking /\ source[Len(source)] \in Archives
    BY <1>0, <1>1, <2>1 DEF Reading
  <2>3. Unpacking'
    BY <1>1, <1>4, <2>2, UnpackingGoesOn
  <2> QED  BY <1>0, <2>1, <2>3 DEF Reading
<1>5. CASE ReadChart
  <2>1. stage = "unpack" /\ tar = <<>> /\ UNCHANGED <<op, source>> /\ Len(source) = 1
    BY <1>1, <1>5 DEF ReadChart
  <2>2. source[1] \in Archives /\ source # <<>>
    <3>1. 1 \in 1 .. Len(source) /\ Len(<<>>) = 0
      BY <2>1
    <3> QED  BY <1>1, <2>1, <3>1
  <2>3. Unpacked(source[1], Len(source[1]), tree)
    BY <1>0, <2>1, <2>2, UnpackingEnds DEF Reading
  <2>4. ASSUME NEW name, Content(tree, Root(tree), name) # {}
        PROVE  Has(source[1], name, Content(tree, Root(tree), name))
    <3>1. TreeOK(tree)
      BY <1>1
    <3> DEFINE root == Root(tree)
               a == source[1]
    <3>2. root = Root(tree) \/ root = RootDir(tree)
      OBVIOUS
    <3>3. a \in Archives /\ Unpacked(a, Len(a), tree)
      BY <2>2, <2>3
    <3> HIDE DEF root, a
    <3>4. Content(tree, root, name) # {}
      BY <2>4 DEF root
    <3>5. Has(a, name, Content(tree, root, name))
      BY <3>1, <3>2, <3>3, <3>4, ContentIsExtracted
    <3> QED  BY <3>5 DEF root, a
  <2>5. CASE stage' = "failed"
    BY <2>5 DEF Reading
  <2>6. CASE stage' # "failed"
    <3>1. /\ stage' \in {"done", "fetchAgain"} /\ (stage' = "done" => op = "create")
          /\ chart'.schema = Content(tree, Root(tree), "values.schema.json") /\ chart'.schema # {}
          /\ op # "observe" => chart'.version = Content(tree, Root(tree), "Chart.yaml")
                               /\ chart'.version # {}
          /\ op = "observe" => chart'.version = {}
      BY <1>5, <2>6 DEF ReadChart, Version, Schema
    <3>2. Has(source[1], "values.schema.json", chart'.schema)
      BY <2>4, <3>1
    <3>3. op # "observe" => Has(source[1], "Chart.yaml", chart'.version)
      BY <2>4, <3>1
    <3> QED  BY <2>1, <2>2, <3>1, <3>2, <3>3 DEF Reading
  <2> QED  BY <2>5, <2>6
<1>6. CASE ReadAgain
  <2>1. stage = "unpackAgain" /\ tar = <<>> /\ UNCHANGED <<op, source>> /\ Len(source) = 2
    BY <1>1, <1>6 DEF ReadAgain
  <2>2. source[2] \in Archives /\ source # <<>>
    <3>1. 2 \in 1 .. Len(source) /\ Len(<<>>) = 0
      BY <2>1
    <3>2. source[2] \in Archives
      BY <1>1, <3>1
    <3>3. source # <<>>
      BY <2>1, <3>1
    <3> QED  BY <3>2, <3>3
  <2>3. Unpacked(source[2], Len(source[2]), tree)
    BY <1>0, <2>1, <2>2, UnpackingEnds DEF Reading
  <2>4. CASE stage' = "failed"
    BY <2>4 DEF Reading
  <2>5. CASE stage' # "failed"
    <3>1. stage' = "done" /\ chart'.version # {} /\ chart'.schema = chart.schema
          /\ chart'.version = IF chart.version = {} THEN Content(tree, RootDir(tree), "Chart.yaml")
                              ELSE chart.version
      BY <1>1, <1>6, <2>5 DEF ReadAgain, Version, Read
    <3>2. op # "observe" => Has(source[1], "Chart.yaml", chart'.version)
      <4>1. op # "observe" => Has(source[1], "Chart.yaml", chart.version) /\ chart.version # {}
        BY <1>0, <2>1 DEF Reading, Has
      <4> QED  BY <3>1, <4>1
    <3>3. op = "observe" => Has(source[2], "Chart.yaml", chart'.version)
      <4>1. op = "observe" => chart'.version = Content(tree, RootDir(tree), "Chart.yaml")
        BY <1>0, <2>1, <3>1 DEF Reading
      <4> SUFFICES ASSUME op = "observe"
                   PROVE  Has(source[2], "Chart.yaml", chart'.version)
        OBVIOUS
      <4> DEFINE root == RootDir(tree)
      <4>2. root = Root(tree) \/ root = RootDir(tree)
        OBVIOUS
      <4> HIDE DEF root
      <4>3. chart'.version = Content(tree, root, "Chart.yaml") /\ chart'.version # {}
        BY <3>1, <4>1 DEF root
      <4>4. Has(source[2], "Chart.yaml", Content(tree, root, "Chart.yaml"))
        BY <1>1, <2>2, <2>3, <4>2, <4>3, ContentIsExtracted
      <4> QED  BY <4>3, <4>4
    <3> QED  BY <1>0, <2>1, <2>2, <3>1, <3>2, <3>3 DEF Reading
  <2> QED  BY <2>4, <2>5
<1>7. CASE Retry \/ Wait \/ Abort \/ End \/ \E h \in Handlers : Begin(h)
  <2>1. stage' \in {"idle", "fetch", "wait", "failed", "gaveUp"}
    BY <1>7 DEF Retry, Wait, Abort, End, Begin
  <2> QED  BY <2>1 DEF Reading
<1>8. CASE UNCHANGED vars
  BY <1>0, <1>8 DEF vars, Reading, Unpacking
<1> QED  BY <1>2, <1>3, <1>4, <1>5, <1>6, <1>7, <1>8 DEF Next, Step

LEMMA ReadingHolds == SpecAll => []ReadingInv
<1> QED  BY ChartSteps, ReadingInit, ReadingStep, PTL DEF SpecAll

\* A chart that is accepted is read as tar would extract it, from whichever
\* archives were published: in any order, with directories before or after what
\* is in them or left out, and with entries repeated.
THEOREM ChartsReadAsExtracted == SpecAll => []ReadAsExtracted
<1>1. ReadingInv => ReadAsExtracted
  BY DEF ReadingInv, Reading, ReadAsExtracted, Has
<1> QED  BY <1>1, ReadingHolds, PTL

-----------------------------------------------------------------------------
(* Versions and their schemas *)

LEMMA WritesKeepVersions == Objects!Write => crd' = crd
  BY DEF Objects!Write, Objects!Create, Objects!Touch, Objects!Set, Objects!Unset,
         Objects!Relabel, Objects!Sent

\* A step offers a version that it has read, with its schema, or none.
LEMMA VersionsOffered ==
  ASSUME ReadingInv, [NextAll]_all
  PROVE  \/ crd' = crd
         \/ \E v, s : /\ v \notin Objects!Served
                      /\ Has(source[1], "Chart.yaml", {v})
                      /\ Has(source[1], "values.schema.json", {s})
                      /\ source[1] \in Archives
                      /\ crd' = [w \in Objects!Served \cup {v} |-> IF w = v THEN s ELSE crd[w]]
<1>1. CASE Generate
  <2>1. stage = "done" /\ op # "observe"
    BY <1>1 DEF Generate
  <2>2. PICK v \in chart.version, s \in chart.schema : Objects!Offer(v, s)
    BY <1>1 DEF Generate
  <2>3. chart.version = {v} /\ chart.schema = {s}
    BY <2>1 DEF ReadingInv, Reading, Has
  <2>4. Has(source[1], "Chart.yaml", {v}) /\ Has(source[1], "values.schema.json", {s})
    BY <2>1, <2>3 DEF ReadingInv, Reading
  <2>5. source[1] \in Archives
    <3>1. source \in Seq(Archives) /\ source # <<>>
      BY <2>1 DEF ReadingInv, ChartInv, TypeOK, Reading
    <3> QED  BY <3>1
  <2>6. crd' = IF v \in Objects!Served THEN crd
               ELSE [w \in Objects!Served \cup {v} |-> IF w = v THEN s ELSE crd[w]]
    BY <2>2 DEF Objects!Offer
  <2> QED  BY <2>4, <2>5, <2>6
<1>2. CASE Apart
  BY <1>2, WritesKeepVersions DEF Apart, composition
<1>3. CASE UNCHANGED all
  BY <1>3 DEF all, composition
<1> QED  BY <1>1, <1>2, <1>3 DEF NextAll

LEMMA VersionsInit == InitAll => VersionsMatchCharts
  BY DEF InitAll, Objects!Init, VersionsMatchCharts, Objects!Served

LEMMA VersionsStep == ReadingInv /\ VersionsMatchCharts /\ [NextAll]_all => VersionsMatchCharts'
<1> SUFFICES ASSUME ReadingInv, VersionsMatchCharts, [NextAll]_all
             PROVE  VersionsMatchCharts'
  OBVIOUS
<1>1. CASE crd' = crd
  BY <1>1 DEF VersionsMatchCharts, Objects!Served
<1>2. ASSUME NEW v, NEW s, v \notin Objects!Served,
             Has(source[1], "Chart.yaml", {v}), Has(source[1], "values.schema.json", {s}),
             source[1] \in Archives,
             crd' = [w \in Objects!Served \cup {v} |-> IF w = v THEN s ELSE crd[w]]
      PROVE  VersionsMatchCharts'
  <2>1. /\ (Objects!Served)' = Objects!Served \cup {v} /\ crd'[v] = s
        /\ \A w \in Objects!Served : crd'[w] = crd[w]
    BY <1>2 DEF Objects!Served
  <2> QED  BY <1>2, <2>1 DEF VersionsMatchCharts, Has
<1> QED  BY <1>1, <1>2, VersionsOffered

\* Whatever is published between two downloads, a version of the CRD has the
\* values schema of a chart of that version.
THEOREM VersionsMatch == SpecAll => []VersionsMatchCharts
<1> QED  BY ReadingHolds, VersionsInit, VersionsStep, PTL DEF SpecAll

-----------------------------------------------------------------------------
(* Defaults and what users wrote *)

LEMMA AroundIsAbove == \A f : Objects!Around(f) = Above(f)
  BY DEF Objects!Around, Above

\* What is around an object is around the fields in it.
LEMMA AboveTransitive ==
  ASSUME NEW f \in Paths, NEW g \in Above(f), NEW h \in Above(g)
  PROVE  h \in Above(f)
<1>1. PICK n \in 1 .. Len(f) - 1 : g = SubSeq(f, 1, n)
  BY DEF Above
<1>2. f \in Seq(STRING) /\ Len(f) \in Nat
  BY DEF Paths
<1>3. Len(g) = n
  BY <1>1, <1>2
<1>4. PICK m \in 1 .. Len(g) - 1 : h = SubSeq(g, 1, m)
  BY DEF Above
<1>5. /\ 1 \in 1 .. Len(f) /\ n \in 1 .. Len(f)
      /\ 1 \in 1 .. n - 1 + 1 /\ m \in 1 .. n - 1 + 1
      /\ 1 + 1 - 1 = 1 /\ 1 + m - 1 = m
  BY <1>2, <1>3, <1>4
<1>6. SubSeq(SubSeq(f, 1, n), 1, m) = SubSeq(f, 1, m)
  BY <1>2, <1>5, SubSeqOfSubSeq
<1>7. m \in 1 .. Len(f) - 1
  BY <1>2, <1>3, <1>4
<1> QED  BY <1>1, <1>4, <1>6, <1>7 DEF Above

LEMMA AboveParent ==
  ASSUME NEW f \in Paths, NEW g \in Above(f)
  PROVE  LET p == Objects!Parent(f) IN p # <<>> /\ (g = p \/ g \in Above(p))
<1>1. PICK n \in 1 .. Len(f) - 1 : g = SubSeq(f, 1, n)
  BY DEF Above
<1>2. f \in Seq(STRING) /\ Len(f) \in Nat
  BY DEF Paths
<1> DEFINE p == SubSeq(f, 1, Len(f) - 1)
<1>3. p \in Seq(STRING) /\ Len(p) = Len(f) - 1 /\ Len(f) - 1 >= 1
  BY <1>1, <1>2
<1>4. p # <<>>
  <2>1. Len(<<>>) = 0
    OBVIOUS
  <2> HIDE DEF p
  <2> QED  BY <1>3, <2>1
<1>5. CASE n = Len(f) - 1
  BY <1>1, <1>4, <1>5 DEF Objects!Parent
<1>6. CASE n # Len(f) - 1
  <2> DEFINE k == Len(f)
  <2>0. k \in Nat /\ n \in Nat /\ 1 <= n /\ n < k - 1
    BY <1>2, <1>6
  <2> HIDE DEF k
  <2>1. /\ 1 \in 1 .. k /\ k - 1 \in 1 .. k
        /\ 1 \in 1 .. (k - 1) - 1 + 1 /\ n \in 1 .. (k - 1) - 1 + 1
        /\ 1 + 1 - 1 = 1 /\ 1 + n - 1 = n /\ n \in 1 .. (k - 1) - 1
    BY <2>0
  <2>2. SubSeq(p, 1, n) = SubSeq(f, 1, n)
    BY <1>2, <2>1, SubSeqOfSubSeq DEF k
  <2>3. n \in 1 .. Len(p) - 1
    BY <1>3, <2>1 DEF k
  <2>4. g \in Above(p)
    <3> HIDE DEF p
    <3> QED  BY <1>1, <2>2, <2>3 DEF Above
  <2> QED  BY <1>4, <2>4 DEF Objects!Parent
<1> QED  BY <1>5, <1>6

\* Fields, with the objects they are in.
Closed(F) == F \subseteq Paths /\ \A f \in F : Above(f) \subseteq F

LEMMA SchemasKnown ==
  ASSUME VersionsMatchCharts, NEW v \in Objects!Served
  PROVE  crd[v] \in DOMAIN Schemas
<1> DEFINE name == "values.schema.json"
<1>1. PICK a \in Archives : ReadFrom(a, name) = {crd[v]}
  BY DEF VersionsMatchCharts
<1> HIDE DEF name
<1>2. PICK top \in Tops(a) : crd[v] \in Extracted(a, <<top, name>>)
  <2>1. crd[v] \in ReadFrom(a, name)
    BY <1>1
  <2> QED  BY <2>1, Zenon DEF ReadFrom
<1>3. PICK i \in 1 .. Len(a) : a[i].path = <<top, name>> /\ ~a[i].dir /\ crd[v] = a[i].data
  BY <1>2 DEF Extracted
<1>4. a \in Seq(Entries) /\ i \in DOMAIN a
  BY ReadArchives
<1>5. a[i].path[Len(a[i].path)] = name
  BY <1>3
<1> QED  BY <1>3, <1>4, <1>5, SchemaFilesAssumption DEF name

LEMMA FieldsClosed ==
  ASSUME NEW v, crd[v] \in DOMAIN Schemas
  PROVE  Closed(Objects!Fields(v))
  BY AroundIsAbove, SchemasAssumption DEF Closed, Objects!Fields

\* What a default puts in: the field, and what is below it.
LEMMA DefaultedFields ==
  ASSUME NEW v, crd[v] \in DOMAIN Schemas, NEW f \in Objects!Fields(v), Objects!HasDefault(v, f),
         NEW g \in DOMAIN Objects!Defaulted(v, f)
  PROVE  /\ g \in Paths /\ (g = f \/ f \in Above(g))
         /\ Above(g) \subseteq Above(f) \cup DOMAIN Objects!Defaulted(v, f)
<1> DEFINE s == crd[v]
<1>1. s \in DOMAIN Schemas /\ f \in DOMAIN Schemas[s] /\ f \in Paths
  BY SchemasAssumption DEF Objects!Fields
<1>2. CASE Schemas[s][f].object
  <2>1. DOMAIN Objects!Defaulted(v, f) = DOMAIN Schemas[s][f].default \cup {f}
    BY <1>2 DEF Objects!Defaulted, Objects!Field
  <2>2. Schemas[s][f].default # NoDefault
    BY DEF Objects!HasDefault, Objects!Field
  <2> HIDE DEF s
  <2>3. \A h \in DOMAIN Schemas[s][f].default :
           /\ h \in Paths /\ f \in Above(h)
           /\ Above(h) \subseteq Above(f) \cup {f} \cup DOMAIN Schemas[s][f].default
    BY <1>1, <1>2, <2>2, SchemasAssumption, AroundIsAbove
  <2> QED  BY <1>1, <2>1, <2>3
<1>3. CASE ~Schemas[s][f].object
  <2>1. DOMAIN Objects!Defaulted(v, f) = {f}
    BY <1>3 DEF Objects!Defaulted, Objects!Field
  <2> QED  BY <1>1, <2>1
<1> QED  BY <1>2, <1>3

\* Populating defaults changes nothing that is there.
LEMMA PopulatedKeeps ==
  ASSUME NEW v, crd[v] \in DOMAIN Schemas, NEW spec, Closed(DOMAIN spec)
  PROVE  LET new == Objects!Populated(v, spec) IN
         /\ Closed(DOMAIN new)
         /\ \A f \in DOMAIN spec : f \in DOMAIN new /\ new[f] = spec[f]
<1> DEFINE due == Objects!Due(v, spec)
           made == (UNION {Objects!Around(f) : f \in due}) \ DOMAIN spec
           given == UNION {DOMAIN Objects!Defaulted(v, f) : f \in due}
           new == Objects!Populated(v, spec)
<1>1. \A f \in due : f \in Objects!Fields(v) /\ Objects!HasDefault(v, f) /\ f \notin DOMAIN spec
  BY DEF Objects!Due
<1>2. \A f \in due : f \in Paths /\ Above(f) \subseteq Paths
  BY <1>1, FieldsClosed DEF Closed
<1>3. /\ DOMAIN new = DOMAIN spec \cup made \cup given
      /\ \A g \in DOMAIN new : g \notin given /\ g \notin made => new[g] = spec[g]
  BY DEF Objects!Populated
<1>4. \A g : g \in made <=> g \notin DOMAIN spec /\ \E f \in due : g \in Above(f)
  BY AroundIsAbove
<1>5. \A g : g \in given <=> \E f \in due : g \in DOMAIN Objects!Defaulted(v, f)
  OBVIOUS
<1> HIDE DEF due, made, given, new
<1>6. ASSUME NEW g \in given
      PROVE  g \notin DOMAIN spec /\ g \in Paths /\ Above(g) \subseteq DOMAIN new
  <2>1. PICK f \in due : g \in DOMAIN Objects!Defaulted(v, f)
    BY <1>5
  <2>2. /\ g \in Paths /\ (g = f \/ f \in Above(g))
        /\ Above(g) \subseteq Above(f) \cup DOMAIN Objects!Defaulted(v, f)
    BY <1>1, <2>1, DefaultedFields
  <2>3. g \notin DOMAIN spec
    BY <1>1, <2>2 DEF Closed
  <2>4. Above(f) \subseteq DOMAIN spec \cup made
    BY <1>4
  <2>5. DOMAIN Objects!Defaulted(v, f) \subseteq given
    BY <1>5
  <2> QED  BY <1>3, <2>2, <2>3, <2>4, <2>5
<1>7. ASSUME NEW g \in made
      PROVE  g \in Paths /\ Above(g) \subseteq DOMAIN new
  <2>1. PICK f \in due : g \in Above(f)
    BY <1>4
  <2>2. \A h \in Above(g) : h \in Above(f)
    BY <1>2, <2>1, AboveTransitive
  <2> QED  BY <1>2, <1>3, <1>4, <2>1, <2>2
<1>8. \A g \in DOMAIN spec : g \in Paths /\ Above(g) \subseteq DOMAIN new
  BY <1>3 DEF Closed
<1>9. Closed(DOMAIN new)
  BY <1>3, <1>6, <1>7, <1>8 DEF Closed
<1>10. \A f \in DOMAIN spec : f \in DOMAIN new /\ new[f] = spec[f]
  BY <1>3, <1>4, <1>6
<1> QED  BY <1>9, <1>10 DEF new

\* A Composition that there is, with the objects its fields are in; what users
\* have asked for is asked of one.
Written ==
  \/ obj = NoObject /\ DOMAIN asked = {}
  \/ obj = [spec |-> obj.spec, label |-> obj.label] /\ Closed(DOMAIN obj.spec)
Everywhere(f) == \A v \in Objects!Served : f \in Objects!Fields(v)
ObjectInv == VersionsMatchCharts /\ Written /\ UserValuesKept

LEMMA PrunedKeeps ==
  ASSUME NEW v, crd[v] \in DOMAIN Schemas, NEW spec, Closed(DOMAIN spec)
  PROVE  LET new == Objects!Populated(v, Objects!Pruned(v, spec)) IN
         /\ Closed(DOMAIN new)
         /\ \A f \in DOMAIN spec \cap Objects!Fields(v) : f \in DOMAIN new /\ new[f] = spec[f]
<1> DEFINE kept == Objects!Pruned(v, spec)
<1>1. /\ DOMAIN kept = DOMAIN spec \cap Objects!Fields(v)
      /\ \A f \in DOMAIN kept : kept[f] = spec[f]
  BY DEF Objects!Pruned
<1> HIDE DEF kept
<1>2. Closed(DOMAIN kept)
  BY <1>1, FieldsClosed DEF Closed
<1> QED  BY <1>1, <1>2, PopulatedKeeps DEF kept

\* A write of a whole object keeps what the version has of it.
LEMMA SentKeeps ==
  ASSUME NEW v, crd[v] \in DOMAIN Schemas, NEW spec, Closed(DOMAIN spec),
         obj = [spec |-> obj.spec, label |-> obj.label], Objects!Sent(v, spec)
  PROVE  /\ Written'
         /\ \A f \in DOMAIN spec \cap Objects!Fields(v) :
              f \in DOMAIN obj'.spec /\ obj'.spec[f] = spec[f]
         /\ UNCHANGED crd
<1> DEFINE new == Objects!Populated(v, Objects!Pruned(v, spec))
<1>1. obj' = [obj EXCEPT !.spec = new] /\ UNCHANGED crd
  BY DEF Objects!Sent
<1>2. /\ Closed(DOMAIN new)
      /\ \A f \in DOMAIN spec \cap Objects!Fields(v) : f \in DOMAIN new /\ new[f] = spec[f]
  BY PrunedKeeps
<1> HIDE DEF new
<1>3. obj' = [spec |-> new, label |-> obj.label]
  BY <1>1
<1>4. obj'.spec = new /\ obj' = [spec |-> obj'.spec, label |-> obj'.label]
  BY <1>3
<1> QED  BY <1>1, <1>2, <1>4 DEF Written

LEMMA SetClosed ==
  ASSUME NEW f \in Paths, NEW x, NEW spec, Closed(DOMAIN spec),
         Objects!Parent(f) \in DOMAIN spec \cup {<<>>}
  PROVE  LET new == Objects!With([g \in {f} |-> x], spec) IN
         /\ DOMAIN new = DOMAIN spec \cup {f} /\ new[f] = x
         /\ \A g \in DOMAIN spec \ {f} : new[g] = spec[g]
         /\ Closed(DOMAIN new)
<1> DEFINE new == Objects!With([g \in {f} |-> x], spec)
<1>1. /\ DOMAIN new = DOMAIN spec \cup {f} /\ new[f] = x
      /\ \A g \in DOMAIN spec \ {f} : new[g] = spec[g]
  BY DEF Objects!With
<1>2. Above(f) \subseteq DOMAIN spec
  <2> SUFFICES ASSUME NEW g \in Above(f)
               PROVE  g \in DOMAIN spec
    OBVIOUS
  <2> DEFINE p == Objects!Parent(f)
  <2>1. p # <<>> /\ (g = p \/ g \in Above(p))
    BY AboveParent
  <2> HIDE DEF p
  <2>2. p \in DOMAIN spec
    BY <2>1 DEF p
  <2> QED  BY <2>1, <2>2 DEF Closed
<1> HIDE DEF new
<1>3. Closed(DOMAIN new)
  BY <1>1, <1>2 DEF Closed
<1> QED  BY <1>1, <1>3 DEF new

LEMMA UnsetClosed ==
  ASSUME NEW f, NEW spec, Closed(DOMAIN spec)
  PROVE  Closed(DOMAIN Objects!Without(f, spec))
<1> DEFINE left == {h \in DOMAIN spec : f \notin Above(h) \cup {h}}
<1>1. DOMAIN Objects!Without(f, spec) = left
  BY AroundIsAbove DEF Objects!Without
<1>2. ASSUME NEW h \in left, NEW g \in Above(h)
      PROVE  g \in left
  <2>1. g \in DOMAIN spec /\ h \in Paths
    BY DEF Closed
  <2>2. \A k \in Above(g) : k \in Above(h)
    BY <2>1, AboveTransitive
  <2> QED  BY <2>1, <2>2
<1>3. left \subseteq Paths
  BY DEF Closed
<1> HIDE DEF left
<1> QED  BY <1>1, <1>2, <1>3 DEF Closed

\* What users have written is kept by their writes, and those of controllers.
LEMMA WritesKeep ==
  ASSUME ObjectInv, Objects!Write
  PROVE  Written' /\ UserValuesKept'
<1>0. crd' = crd
  BY WritesKeepVersions
<1> SUFFICES Written' /\ \A f \in DOMAIN asked' : Everywhere(f) =>
                           f \in DOMAIN obj'.spec /\ obj'.spec[f] = asked'[f]
  BY <1>0 DEF UserValuesKept, Everywhere, Objects!Served, Objects!Fields
<1>1. PICK v \in Objects!Served :
        \/ obj = NoObject /\ \E spec \in Objects!Specs(v) : Objects!Create(v, spec)
        \/ obj # NoObject
           /\ \/ Objects!Touch(v)
              \/ \E f \in Objects!Fields(v) :
                   Objects!Unset(v, f) \/ \E x \in Values : Objects!Set(v, f, x)
              \/ \E w \in Objects!Served \ {v} : Objects!Relabel(v, w)
  BY DEF Objects!Write
<1>2. crd[v] \in DOMAIN Schemas
  BY SchemasKnown DEF ObjectInv
<1>3. Closed(Objects!Fields(v)) /\ \A f : Everywhere(f) => f \in Objects!Fields(v)
  BY <1>2, FieldsClosed DEF Everywhere
<1>4. ASSUME NEW spec \in Objects!Specs(v), Objects!Create(v, spec)
      PROVE  Written' /\ \A f \in DOMAIN asked' : f \in DOMAIN obj'.spec /\ obj'.spec[f] = asked'[f]
  <2>1. DOMAIN spec \subseteq Objects!Fields(v) /\ \A f \in DOMAIN spec : Above(f) \subseteq DOMAIN spec
    BY AroundIsAbove DEF Objects!Specs
  <2>2. Closed(DOMAIN spec)
    BY <1>3, <2>1 DEF Closed
  <2> DEFINE new == Objects!Populated(v, spec)
  <2>3. obj' = [spec |-> new, label |-> v] /\ asked' = spec
    BY <1>4 DEF Objects!Create
  <2>4. Closed(DOMAIN new) /\ \A f \in DOMAIN spec : f \in DOMAIN new /\ new[f] = spec[f]
    BY <1>2, <2>2, PopulatedKeeps
  <2> HIDE DEF new
  <2>5. obj'.spec = new /\ obj' = [spec |-> obj'.spec, label |-> obj'.label]
    BY <2>3
  <2> QED  BY <2>3, <2>4, <2>5 DEF Written
<1>5. ASSUME obj # NoObject
      PROVE  /\ obj = [spec |-> obj.spec, label |-> obj.label] /\ Closed(DOMAIN obj.spec)
             /\ \A f \in DOMAIN asked : Everywhere(f) => f \in DOMAIN obj.spec /\ obj.spec[f] = asked[f]
  BY <1>5 DEF ObjectInv, Written, UserValuesKept, Everywhere
<1>6. ASSUME obj # NoObject, Objects!Touch(v)
      PROVE  Written' /\ \A f \in DOMAIN asked' : Everywhere(f) =>
                           f \in DOMAIN obj'.spec /\ obj'.spec[f] = asked'[f]
  <2>1. Objects!Sent(v, obj.spec) /\ asked' = asked
    BY <1>6 DEF Objects!Touch, Objects!InVersion, Objects!Converted
  <2>2. /\ Written'
        /\ \A f \in DOMAIN obj.spec \cap Objects!Fields(v) :
             f \in DOMAIN obj'.spec /\ obj'.spec[f] = obj.spec[f]
    BY <1>2, <1>5, <1>6, <2>1, SentKeeps
  <2> QED  BY <1>3, <1>5, <1>6, <2>1, <2>2
<1>7. ASSUME obj # NoObject, NEW f \in Objects!Fields(v), Objects!Unset(v, f)
      PROVE  Written' /\ \A g \in DOMAIN asked' : Everywhere(g) =>
                           g \in DOMAIN obj'.spec /\ obj'.spec[g] = asked'[g]
  <2> DEFINE new == Objects!Without(f, obj.spec)
  <2>1. Objects!Sent(v, new) /\ asked' = Objects!Without(f, asked)
    BY <1>7 DEF Objects!Unset, Objects!InVersion, Objects!Converted
  <2>2. Closed(DOMAIN new)
    BY <1>5, <1>7, UnsetClosed
  <2>3. \A g \in DOMAIN asked' : /\ g \in DOMAIN asked /\ asked'[g] = asked[g]
                                 /\ g \in DOMAIN obj.spec => g \in DOMAIN new /\ new[g] = obj.spec[g]
    BY <2>1 DEF Objects!Without
  <2> HIDE DEF new
  <2>4. /\ Written'
        /\ \A g \in DOMAIN new \cap Objects!Fields(v) :
             g \in DOMAIN obj'.spec /\ obj'.spec[g] = new[g]
    BY <1>2, <1>5, <1>7, <2>1, <2>2, SentKeeps
  <2> QED  BY <1>3, <1>5, <1>7, <2>3, <2>4
<1>8. ASSUME obj # NoObject, NEW f \in Objects!Fields(v), NEW x \in Values, Objects!Set(v, f, x)
      PROVE  Written' /\ \A g \in DOMAIN asked' : Everywhere(g) =>
                           g \in DOMAIN obj'.spec /\ obj'.spec[g] = asked'[g]
  <2> DEFINE new == Objects!With([g \in {f} |-> x], obj.spec)
  <2>1. /\ Objects!Sent(v, new) /\ asked' = Objects!With([g \in {f} |-> x], asked)
        /\ Objects!Parent(f) \in DOMAIN obj.spec \cup {<<>>}
    BY <1>8 DEF Objects!Set, Objects!InVersion, Objects!Converted
  <2>2. /\ DOMAIN new = DOMAIN obj.spec \cup {f} /\ new[f] = x
        /\ \A g \in DOMAIN obj.spec \ {f} : new[g] = obj.spec[g]
        /\ Closed(DOMAIN new)
    <3>1. f \in Paths
      BY <1>3 DEF Closed
    <3> QED  BY <1>5, <1>8, <2>1, <3>1, SetClosed
  <2>3. /\ DOMAIN asked' = DOMAIN asked \cup {f} /\ asked'[f] = x
        /\ \A g \in DOMAIN asked \ {f} : asked'[g] = asked[g]
    BY <2>1 DEF Objects!With
  <2> HIDE DEF new
  <2>4. /\ Written'
        /\ \A g \in DOMAIN new \cap Objects!Fields(v) :
             g \in DOMAIN obj'.spec /\ obj'.spec[g] = new[g]
    BY <1>2, <1>5, <1>8, <2>1, <2>2, SentKeeps
  <2> QED  BY <1>3, <1>5, <1>8, <2>2, <2>3, <2>4
<1>9. ASSUME obj # NoObject, NEW w, Objects!Relabel(v, w)
      PROVE  Written' /\ \A f \in DOMAIN asked' : Everywhere(f) =>
                           f \in DOMAIN obj'.spec /\ obj'.spec[f] = asked'[f]
  <2> DEFINE new == Objects!Populated(v, Objects!Pruned(v, obj.spec))
  <2>1. obj' = [spec |-> new, label |-> w] /\ asked' = asked
    BY <1>9 DEF Objects!Relabel, Objects!InVersion, Objects!Converted
  <2>2. /\ Closed(DOMAIN new)
        /\ \A f \in DOMAIN obj.spec \cap Objects!Fields(v) : f \in DOMAIN new /\ new[f] = obj.spec[f]
    BY <1>2, <1>5, <1>9, PrunedKeeps
  <2> HIDE DEF new
  <2>3. obj'.spec = new /\ obj' = [spec |-> obj'.spec, label |-> obj'.label]
    BY <2>1
  <2> QED  BY <1>3, <1>5, <1>9, <2>1, <2>2, <2>3 DEF Written
<1> QED  BY <1>1, <1>4, <1>6, <1>7, <1>8, <1>9

LEMMA ObjectInvInit == InitAll => ObjectInv
<1> SUFFICES ASSUME InitAll PROVE ObjectInv
  OBVIOUS
<1>1. obj = NoObject /\ asked = <<>>
  BY DEF InitAll, Objects!Init
<1>2. DOMAIN asked = {}
  BY <1>1
<1> QED  BY <1>1, <1>2, VersionsInit DEF ObjectInv, Written, UserValuesKept

LEMMA ObjectInvStep == ReadingInv /\ ObjectInv /\ [NextAll]_all => ObjectInv'
<1> SUFFICES ASSUME ReadingInv, ObjectInv, [NextAll]_all
             PROVE  Written' /\ UserValuesKept'
  BY VersionsStep DEF ObjectInv
<1>1. CASE Objects!Write
  BY <1>1, WritesKeep
<1>2. CASE UNCHANGED <<obj, asked>>
  <2>1. \A v \in Objects!Served : v \in DOMAIN crd' /\ crd'[v] = crd[v]
    BY VersionsOffered DEF Objects!Served
  <2>2. ASSUME NEW f \in DOMAIN asked, \A v \in DOMAIN crd' : f \in DOMAIN Schemas[crd'[v]]
        PROVE  f \in DOMAIN obj.spec /\ obj.spec[f] = asked[f]
    BY <2>1, <2>2 DEF ObjectInv, UserValuesKept, Objects!Served, Objects!Fields
  <2>3. UserValuesKept'
    BY <1>2, <2>2 DEF UserValuesKept, Objects!Served, Objects!Fields
  <2>4. Written'
    BY <1>2 DEF ObjectInv, Written
  <2> QED  BY <2>3, <2>4
<1>3. Generate => UNCHANGED <<obj, asked>>
  BY DEF Generate, Objects!Offer
<1> QED  BY <1>1, <1>2, <1>3 DEF NextAll, Apart, all, composition

LEMMA ObjectsHold == SpecAll => []ObjectInv
<1> QED  BY ReadingHolds, ObjectInvInit, ObjectInvStep, PTL DEF SpecAll

\* No default, upgrade, relabelling or write in another version changes what a
\* user wrote into a field that all versions have.
THEOREM UserValuesAreKept == SpecAll => []UserValuesKept
<1>1. ObjectInv => UserValuesKept
  BY DEF ObjectInv
<1> QED  BY <1>1, ObjectsHold, PTL

-----------------------------------------------------------------------------
(* Defaults settle *)

LEMMA PopulatedFields ==
  ASSUME NEW v, crd[v] \in DOMAIN Schemas, NEW spec, Closed(DOMAIN spec)
  PROVE  LET due == Objects!Due(v, spec)
             new == Objects!Populated(v, spec)
         IN /\ due \subseteq DOMAIN new
            /\ \A g \in DOMAIN new \ DOMAIN spec :
                 \E f \in due : \/ g \in Above(f) /\ new[g] = Map
                                \/ /\ g \in DOMAIN Objects!Defaulted(v, f)
                                   /\ new[g] = Objects!Defaulted(v, f)[g]
<1> DEFINE due == Objects!Due(v, spec)
           made == (UNION {Objects!Around(f) : f \in due}) \ DOMAIN spec
           given == UNION {DOMAIN Objects!Defaulted(v, f) : f \in due}
           Giver(g) == CHOOSE f \in due : g \in DOMAIN Objects!Defaulted(v, f)
           new == Objects!Populated(v, spec)
<1>1. /\ DOMAIN new = DOMAIN spec \cup made \cup given
      /\ \A g \in DOMAIN new : new[g] = IF g \in given THEN Objects!Defaulted(v, Giver(g))[g]
                                        ELSE IF g \in made THEN Map ELSE spec[g]
  BY DEF Objects!Populated
<1>2. \A g \in made : \E f \in due : g \in Above(f)
  BY AroundIsAbove
<1>3. \A g \in given : Giver(g) \in due /\ g \in DOMAIN Objects!Defaulted(v, Giver(g))
  OBVIOUS
<1>4. ASSUME NEW f \in due
      PROVE  f \in given
  <2>1. f \in DOMAIN Objects!Defaulted(v, f)
    BY DEF Objects!Defaulted
  <2> QED  BY <2>1
<1> HIDE DEF due, made, given, Giver, new
<1>5. ASSUME NEW g \in DOMAIN new \ DOMAIN spec
      PROVE  \E f \in due : \/ g \in Above(f) /\ new[g] = Map
                            \/ /\ g \in DOMAIN Objects!Defaulted(v, f)
                               /\ new[g] = Objects!Defaulted(v, f)[g]
  BY <1>1, <1>2, <1>3
<1> QED  BY <1>1, <1>4, <1>5 DEF due, new

\* What one write leaves for the next is in an object it has put in itself.
LEMMA LeftForNextWrite ==
  ASSUME NEW v, crd[v] \in DOMAIN Schemas, NEW spec, Closed(DOMAIN spec),
         NEW f \in Objects!Due(v, Objects!Populated(v, spec))
  PROVE  \E d \in Objects!Due(v, spec) : d \in Above(f)
<1> DEFINE due == Objects!Due(v, spec)
           new == Objects!Populated(v, spec)
<1>1. /\ f \in Objects!Fields(v) /\ Objects!HasDefault(v, f) /\ f \notin DOMAIN new
      /\ \A g \in Above(f) : IF g \in DOMAIN new THEN new[g] = Map
                             ELSE ~Objects!HasDefault(v, g)
  BY AroundIsAbove DEF Objects!Due
<1>2. \A d \in due : /\ d \in Objects!Fields(v) /\ Objects!HasDefault(v, d)
                     /\ \A g \in Above(d) : g \notin DOMAIN spec => ~Objects!HasDefault(v, g)
  BY AroundIsAbove DEF Objects!Due
<1>3. due \subseteq DOMAIN new /\ f \in Paths
  BY <1>1, PopulatedFields, FieldsClosed DEF Closed
<1>4. \A g \in DOMAIN new \ DOMAIN spec :
         \E d \in due : g \in Above(d) \/ g \in DOMAIN Objects!Defaulted(v, d)
  BY PopulatedFields
<1>5. \A g \in DOMAIN spec : g \in DOMAIN new /\ new[g] = spec[g]
  BY PopulatedKeeps
<1>6. \A d \in due : \A g \in DOMAIN Objects!Defaulted(v, d) : g = d \/ d \in Above(g)
  BY <1>2, DefaultedFields
<1> SUFFICES ASSUME \A d \in due : d \notin Above(f)
             PROVE  f \in due
  BY <1>1, <1>3
<1> HIDE DEF new
<1>7. ASSUME NEW g \in Above(f)
      PROVE  IF g \in DOMAIN spec THEN spec[g] = Map ELSE ~Objects!HasDefault(v, g)
  <2>1. CASE g \in DOMAIN spec \/ g \notin DOMAIN new
    BY <1>1, <1>5, <2>1
  <2>2. CASE g \in DOMAIN new \ DOMAIN spec
    <3>1. PICK d \in due : g \in Above(d) \/ g = d \/ d \in Above(g)
      BY <1>4, <1>6, <2>2
    <3>2. d \notin Above(g) /\ g # d
      BY <1>3, AboveTransitive
    <3> QED  BY <1>2, <2>2, <3>1, <3>2
  <2> QED  BY <2>1, <2>2
<1> QED  BY <1>1, <1>5, <1>7, AroundIsAbove DEF Objects!Due

\* Objects are objects in every version.
MapsIn(spec) == \A g \in DOMAIN spec : ObjectField(g) => spec[g] = Map

LEMMA PopulatedMaps ==
  ASSUME SchemasAgree, NEW v, crd[v] \in DOMAIN Schemas, NEW spec, Closed(DOMAIN spec), MapsIn(spec)
  PROVE  MapsIn(Objects!Populated(v, spec))
<1> DEFINE new == Objects!Populated(v, spec)
           s == crd[v]
<1> SUFFICES ASSUME NEW g \in DOMAIN new, ObjectField(g)
             PROVE  new[g] = Map
  BY DEF MapsIn
<1>1. CASE g \in DOMAIN spec
  BY <1>1, PopulatedKeeps DEF MapsIn
<1>2. CASE g \notin DOMAIN spec
  <2>1. PICK f \in Objects!Due(v, spec) :
          \/ new[g] = Map
          \/ g \in DOMAIN Objects!Defaulted(v, f) /\ new[g] = Objects!Defaulted(v, f)[g]
    BY <1>2, PopulatedFields
  <2>2. s \in DOMAIN Schemas /\ f \in DOMAIN Schemas[s] /\ Schemas[s][f].default # NoDefault
    BY DEF Objects!Due, Objects!Fields, Objects!HasDefault, Objects!Field
  <2> HIDE DEF new
  <2>3. CASE Schemas[s][f].object
    <3>1. /\ DOMAIN Objects!Defaulted(v, f) = DOMAIN Schemas[s][f].default \cup {f}
          /\ \A h \in DOMAIN Objects!Defaulted(v, f) :
               Objects!Defaulted(v, f)[h] = IF h = f THEN Map ELSE Schemas[s][f].default[h]
      BY <2>3 DEF Objects!Defaulted, Objects!Field
    <3> HIDE DEF s
    <3>2. \A h \in DOMAIN Schemas[s][f].default :
            ObjectField(h) => Schemas[s][f].default[h] = Map
      BY <2>2, <2>3 DEF SchemasAgree
    <3> QED  BY <2>1, <3>1, <3>2
  <2>4. CASE ~Schemas[s][f].object
    <3>1. DOMAIN Objects!Defaulted(v, f) = {f}
      BY <2>4 DEF Objects!Defaulted, Objects!Field
    <3> HIDE DEF s
    <3>2. ~ObjectField(f)
      BY <2>2, <2>4 DEF SchemasAgree
    <3> QED  BY <2>1, <3>1, <3>2
  <2> QED  BY <2>3, <2>4
<1> QED  BY <1>1, <1>2

LEMMA PrunedMaps ==
  ASSUME SchemasAgree, NEW v, crd[v] \in DOMAIN Schemas, NEW spec, Closed(DOMAIN spec), MapsIn(spec)
  PROVE  MapsIn(Objects!Populated(v, Objects!Pruned(v, spec)))
<1> DEFINE kept == Objects!Pruned(v, spec)
<1>1. /\ DOMAIN kept = DOMAIN spec \cap Objects!Fields(v)
      /\ \A f \in DOMAIN kept : kept[f] = spec[f]
  BY DEF Objects!Pruned
<1> HIDE DEF kept
<1>2. Closed(DOMAIN kept) /\ MapsIn(kept)
  BY <1>1, FieldsClosed DEF Closed, MapsIn
<1> QED  BY <1>2, PopulatedMaps DEF kept

ObjectMaps == obj # NoObject => MapsIn(obj.spec)

LEMMA SentMaps ==
  ASSUME SchemasAgree, NEW v, crd[v] \in DOMAIN Schemas, NEW spec, Closed(DOMAIN spec), MapsIn(spec),
         obj = [spec |-> obj.spec, label |-> obj.label], Objects!Sent(v, spec)
  PROVE  ObjectMaps'
<1> DEFINE new == Objects!Populated(v, Objects!Pruned(v, spec))
<1>1. obj' = [obj EXCEPT !.spec = new]
  BY DEF Objects!Sent
<1>2. MapsIn(new)
  BY PrunedMaps
<1> HIDE DEF new
<1>3. obj' = [spec |-> new, label |-> obj.label]
  BY <1>1
<1>4. obj'.spec = new
  BY <1>3
<1> QED  BY <1>2, <1>4 DEF ObjectMaps

LEMMA WritesKeepMaps ==
  ASSUME SchemasAgree, ObjectInv, ObjectMaps, Objects!Write
  PROVE  ObjectMaps'
<1>1. PICK v \in Objects!Served :
        \/ obj = NoObject /\ \E spec \in Objects!Specs(v) : Objects!Create(v, spec)
        \/ obj # NoObject
           /\ \/ Objects!Touch(v)
              \/ \E f \in Objects!Fields(v) :
                   Objects!Unset(v, f) \/ \E x \in Values : Objects!Set(v, f, x)
              \/ \E w \in Objects!Served \ {v} : Objects!Relabel(v, w)
  BY DEF Objects!Write
<1>2. crd[v] \in DOMAIN Schemas
  BY SchemasKnown DEF ObjectInv
<1>3. Closed(Objects!Fields(v))
  BY <1>2, FieldsClosed
<1>4. \A f \in Objects!Fields(v) : ObjectField(f) => Objects!Field(v, f).object
  BY <1>2 DEF SchemasAgree, Objects!Fields, Objects!Field
<1>5. ASSUME NEW spec \in Objects!Specs(v), Objects!Create(v, spec)
      PROVE  ObjectMaps'
  <2>1. /\ DOMAIN spec \subseteq Objects!Fields(v)
        /\ \A f \in DOMAIN spec : /\ Above(f) \subseteq DOMAIN spec
                                  /\ Objects!Field(v, f).object => spec[f] = Map
    BY AroundIsAbove DEF Objects!Specs
  <2>2. Closed(DOMAIN spec) /\ MapsIn(spec)
    BY <1>3, <1>4, <2>1 DEF Closed, MapsIn
  <2> DEFINE new == Objects!Populated(v, spec)
  <2>3. obj' = [spec |-> new, label |-> v]
    BY <1>5 DEF Objects!Create
  <2>4. MapsIn(new)
    BY <1>2, <2>2, PopulatedMaps
  <2> HIDE DEF new
  <2>5. obj'.spec = new
    BY <2>3
  <2> QED  BY <2>4, <2>5 DEF ObjectMaps
<1>6. ASSUME obj # NoObject
      PROVE  /\ obj = [spec |-> obj.spec, label |-> obj.label]
             /\ Closed(DOMAIN obj.spec) /\ MapsIn(obj.spec)
  BY <1>6 DEF ObjectInv, Written, ObjectMaps
<1>7. ASSUME obj # NoObject, Objects!Touch(v)
      PROVE  ObjectMaps'
  <2>1. Objects!Sent(v, obj.spec)
    BY <1>7 DEF Objects!Touch, Objects!InVersion, Objects!Converted
  <2> QED  BY <1>2, <1>6, <1>7, <2>1, SentMaps
<1>8. ASSUME obj # NoObject, NEW f \in Objects!Fields(v), Objects!Unset(v, f)
      PROVE  ObjectMaps'
  <2> DEFINE new == Objects!Without(f, obj.spec)
  <2>1. Objects!Sent(v, new)
    BY <1>8 DEF Objects!Unset, Objects!InVersion, Objects!Converted
  <2>2. \A g \in DOMAIN new : g \in DOMAIN obj.spec /\ new[g] = obj.spec[g]
    BY DEF Objects!Without
  <2>3. Closed(DOMAIN new)
    BY <1>6, <1>8, UnsetClosed
  <2> HIDE DEF new
  <2>4. MapsIn(new)
    BY <1>6, <1>8, <2>2 DEF MapsIn
  <2> QED  BY <1>2, <1>6, <1>8, <2>1, <2>3, <2>4, SentMaps
<1>9. ASSUME obj # NoObject, NEW f \in Objects!Fields(v), NEW x \in Values, Objects!Set(v, f, x)
      PROVE  ObjectMaps'
  <2> DEFINE new == Objects!With([g \in {f} |-> x], obj.spec)
  <2>1. /\ Objects!Sent(v, new) /\ ~Objects!Field(v, f).object
        /\ Objects!Parent(f) \in DOMAIN obj.spec \cup {<<>>}
    BY <1>9 DEF Objects!Set, Objects!InVersion, Objects!Converted
  <2>2. f \in Paths
    BY <1>3 DEF Closed
  <2>3. /\ DOMAIN new = DOMAIN obj.spec \cup {f} /\ new[f] = x
        /\ \A g \in DOMAIN obj.spec \ {f} : new[g] = obj.spec[g]
        /\ Closed(DOMAIN new)
    <3>1. Closed(DOMAIN obj.spec) /\ Objects!Parent(f) \in DOMAIN obj.spec \cup {<<>>}
      BY <1>6, <1>9, <2>1
    <3> HIDE <1>6, <1>9
    <3> QED  BY <2>2, <3>1, SetClosed
  <2> HIDE DEF new
  <2>4. MapsIn(new)
    BY <1>4, <1>6, <1>9, <2>1, <2>3 DEF MapsIn
  <2> QED  BY <1>2, <1>6, <1>9, <2>1, <2>3, <2>4, SentMaps
<1>10. ASSUME obj # NoObject, NEW w, Objects!Relabel(v, w)
       PROVE  ObjectMaps'
  <2> DEFINE new == Objects!Populated(v, Objects!Pruned(v, obj.spec))
  <2>1. obj' = [spec |-> new, label |-> w]
    BY <1>10 DEF Objects!Relabel, Objects!InVersion, Objects!Converted
  <2>2. MapsIn(new)
    BY <1>2, <1>6, <1>10, PrunedMaps
  <2> HIDE DEF new
  <2>3. obj'.spec = new
    BY <2>1
  <2> QED  BY <2>2, <2>3 DEF ObjectMaps
<1> QED  BY <1>1, <1>5, <1>7, <1>8, <1>9, <1>10

LEMMA MapsStep ==
  ASSUME SchemasAgree
  PROVE  ReadingInv /\ ObjectInv /\ ObjectMaps /\ [NextAll]_all => ObjectMaps'
<1>1. Generate \/ UNCHANGED all => obj' = obj
  BY DEF Generate, Objects!Offer, all, composition
<1>2. Apart => obj' = obj \/ Objects!Write
  BY DEF Apart, composition
<1>3. ObjectMaps /\ obj' = obj => ObjectMaps'
  BY DEF ObjectMaps
<1> QED  BY <1>1, <1>2, <1>3, WritesKeepMaps DEF NextAll

LEMMA SettledInTwo ==
  ASSUME SchemasAgree, NestedTwice, ObjectInv, ObjectMaps
  PROVE  DefaultsSettle
<1> SUFFICES ASSUME obj # NoObject, NEW v \in Objects!Served, NEW f \in Objects!Fields(v),
                    Objects!HasDefault(v, f),
                    Objects!Parent(f) \in
                      DOMAIN Objects!Populated(v, Objects!Populated(v, obj.spec)) \cup {<<>>},
                    f \notin DOMAIN Objects!Populated(v, Objects!Populated(v, obj.spec))
             PROVE  FALSE
  BY DEF DefaultsSettle
<1> DEFINE once == Objects!Populated(v, obj.spec)
           twice == Objects!Populated(v, once)
           s == crd[v]
<1>1. s \in DOMAIN Schemas /\ Closed(DOMAIN obj.spec) /\ MapsIn(obj.spec)
  BY SchemasKnown DEF ObjectInv, Written, ObjectMaps
<1>2. Closed(DOMAIN once) /\ MapsIn(once)
  BY <1>1, PopulatedKeeps, PopulatedMaps
<1> HIDE DEF once
<1>3. Closed(DOMAIN twice) /\ MapsIn(twice)
  BY <1>1, <1>2, PopulatedKeeps, PopulatedMaps
<1>4. f \in Paths /\ Objects!Parent(f) \in DOMAIN twice \cup {<<>>} /\ f \notin DOMAIN twice
  BY <1>1, FieldsClosed DEF Closed, once
<1> HIDE DEF twice
<1>5. \A g \in Above(f) : g \in DOMAIN twice /\ twice[g] = Map
  <2> SUFFICES ASSUME NEW g \in Above(f)
               PROVE  g \in DOMAIN twice /\ twice[g] = Map
    OBVIOUS
  <2> DEFINE p == Objects!Parent(f)
  <2>1. p # <<>> /\ (g = p \/ g \in Above(p))
    BY <1>4, AboveParent
  <2>2. p \in DOMAIN twice
    BY <1>4, <2>1
  <2> HIDE DEF p
  <2>3. g \in DOMAIN twice
    BY <1>3, <2>1, <2>2 DEF Closed
  <2>4. ObjectField(g)
    BY <1>1, AroundIsAbove, SchemasAssumption DEF ObjectField, Objects!Fields
  <2> QED  BY <1>3, <2>3, <2>4 DEF MapsIn
<1>6. f \in Objects!Due(v, twice)
  BY <1>4, <1>5, AroundIsAbove DEF Objects!Due
<1>7. PICK g \in Objects!Due(v, once) : g \in Above(f)
  BY <1>1, <1>2, <1>6, LeftForNextWrite DEF twice
<1>8. PICK h \in Objects!Due(v, obj.spec) : h \in Above(g)
  BY <1>1, <1>7, LeftForNextWrite DEF once
<1>9. \A k \in {f, g, h} : Schemas[s][k].default # NoDefault
  BY <1>7, <1>8 DEF Objects!Due, Objects!HasDefault, Objects!Field
<1>10. s \in DOMAIN Schemas /\ f \in DOMAIN Schemas[s]
  BY <1>1 DEF Objects!Fields
<1> HIDE DEF s
<1> QED  BY <1>7, <1>8, <1>9, <1>10, AroundIsAbove DEF NestedTwice

\* Defaults are complete after two writes in a version, if schemas agree on what
\* is an object and no three fields with a default are in each other.
THEOREM DefaultsSettled ==
  ASSUME SchemasAgree, NestedTwice
  PROVE  SpecAll => []DefaultsSettle
<1>1. InitAll => ObjectMaps
  BY DEF InitAll, Objects!Init, ObjectMaps
<1>2. ReadingInv /\ ObjectInv /\ ObjectMaps /\ [NextAll]_all => ObjectMaps'
  BY MapsStep
<1>3. ObjectInv /\ ObjectMaps => DefaultsSettle
  BY SettledInTwo
<1> QED  BY <1>1, <1>2, <1>3, ReadingHolds, ObjectsHold, PTL DEF SpecAll

-----------------------------------------------------------------------------
(* Defaults as the code applies them *)

\* f is g or an object that g is in; <<>> is what all fields are in.
Under(f, g) == Len(f) <= Len(g) /\ f = SubSeq(g, 1, Len(f))

LEMMA Beginnings ==
  ASSUME NEW f \in Seq(STRING), NEW n \in 0 .. Len(f)
  PROVE  /\ SubSeq(f, 1, n) \in Seq(STRING) /\ Len(SubSeq(f, 1, n)) = n
         /\ \A m \in 0 .. n : SubSeq(SubSeq(f, 1, n), 1, m) = SubSeq(f, 1, m)
<1>0. Len(f) \in Nat /\ n \in Nat /\ n <= Len(f)
  OBVIOUS
<1> DEFINE g == SubSeq(f, 1, n)
<1>1. /\ g \in Seq(STRING) /\ Len(g) = n
      /\ \A i \in 1 .. n : g[i] = f[i]
  BY <1>0
<1>2. ASSUME NEW m \in 0 .. n
      PROVE  SubSeq(g, 1, m) = SubSeq(f, 1, m)
  <2> HIDE DEF g
  <2> DEFINE r == SubSeq(g, 1, m)
             s == SubSeq(f, 1, m)
  <2>1. r \in Seq(STRING) /\ Len(r) = m /\ \A i \in 1 .. m : r[i] = g[i]
    BY <1>1
  <2>2. s \in Seq(STRING) /\ Len(s) = m /\ \A i \in 1 .. m : s[i] = f[i]
    BY <1>0
  <2>3. \A i \in 1 .. m : r[i] = s[i]
    BY <1>0, <1>1, <2>1, <2>2
  <2> HIDE DEF r, s
  <2>4. r = s
    BY <2>1, <2>2, <2>3, SeqEqual
  <2> QED  BY <2>4 DEF r, s
<1> QED  BY <1>1, <1>2

LEMMA UnderItself ==
  ASSUME NEW f \in Seq(STRING)
  PROVE  Under(f, f)
<1> DEFINE g == SubSeq(f, 1, Len(f))
<1>1. g \in Seq(STRING) /\ Len(g) = Len(f) /\ \A i \in 1 .. Len(f) : g[i] = f[i]
  OBVIOUS
<1> HIDE DEF g
<1>2. g = f
  BY <1>1, SeqEqual
<1> QED  BY <1>2 DEF g, Under

LEMMA UnderTransitive ==
  ASSUME NEW f, NEW g, NEW d \in Seq(STRING), Under(f, g), Under(g, d), Len(f) \in Nat, Len(g) \in Nat
  PROVE  Under(f, d)
<1>1. Len(g) \in 0 .. Len(d) /\ Len(f) \in 0 .. Len(g) /\ Len(d) \in Nat
  BY DEF Under
<1>2. SubSeq(SubSeq(d, 1, Len(g)), 1, Len(f)) = SubSeq(d, 1, Len(f))
  BY <1>1, Beginnings
<1> QED  BY <1>1, <1>2 DEF Under

\* What a field is in is in each other.
LEMMA UnderBetween ==
  ASSUME NEW f, NEW g, NEW d \in Seq(STRING), Under(f, d), Under(g, d),
         Len(f) \in Nat, Len(g) \in Nat, Len(f) <= Len(g)
  PROVE  Under(f, g)
<1>1. Len(g) \in 0 .. Len(d) /\ Len(f) \in 0 .. Len(g) /\ Len(d) \in Nat
  BY DEF Under
<1>2. SubSeq(SubSeq(d, 1, Len(g)), 1, Len(f)) = SubSeq(d, 1, Len(f))
  BY <1>1, Beginnings
<1> QED  BY <1>2 DEF Under

LEMMA UnderAbove ==
  ASSUME NEW f \in Paths, NEW g \in Paths
  PROVE  Under(f, g) <=> f = g \/ f \in Above(g)
<1>1. f \in Seq(STRING) /\ g \in Seq(STRING) /\ Len(f) \in Nat \ {0} /\ Len(g) \in Nat \ {0}
  BY DEF Paths
<1>2. SubSeq(g, 1, Len(g)) = g
  BY <1>1, UnderItself DEF Under
<1>3. ASSUME Under(f, g), Len(f) # Len(g)
      PROVE  f \in Above(g)
  <2>1. Len(f) \in 1 .. Len(g) - 1 /\ f = SubSeq(g, 1, Len(f))
    BY <1>1, <1>3 DEF Under
  <2> QED  BY <2>1 DEF Above
<1>4. ASSUME Under(f, g), Len(f) = Len(g)
      PROVE  f = g
  BY <1>2, <1>4 DEF Under
<1>5. ASSUME f \in Above(g)
      PROVE  Under(f, g)
  <2>1. PICK n \in 1 .. Len(g) - 1 : f = SubSeq(g, 1, n)
    BY <1>5 DEF Above
  <2>2. n \in 0 .. Len(g) /\ n <= Len(g)
    BY <1>1, <2>1
  <2>3. Len(f) = n
    BY <1>1, <2>1, <2>2, Beginnings
  <2> QED  BY <2>1, <2>2, <2>3 DEF Under
<1> QED  BY <1>1, <1>3, <1>4, <1>5, UnderItself

\* The field of an object that another field is, or is in.
LEMMA UnderChild ==
  ASSUME NEW f \in Seq(STRING), NEW g \in Paths, Under(f, g), f # g
  PROVE  LET h == SubSeq(g, 1, Len(f) + 1)
         IN h \in Paths /\ Under(h, g) /\ Objects!Parent(h) = f
<1> DEFINE h == SubSeq(g, 1, Len(f) + 1)
<1>1. g \in Seq(STRING) /\ Len(f) \in Nat /\ Len(g) \in Nat /\ f = SubSeq(g, 1, Len(f))
      /\ Len(f) <= Len(g)
  BY DEF Paths, Under
<1>2. Len(f) # Len(g)
  BY <1>1, UnderItself DEF Under
<1>3. Len(f) + 1 \in 0 .. Len(g) /\ Len(f) \in 0 .. Len(f) + 1
  BY <1>1, <1>2
<1>4. h \in Seq(STRING) /\ Len(h) = Len(f) + 1 /\ SubSeq(h, 1, Len(f)) = SubSeq(g, 1, Len(f))
  BY <1>1, <1>3, Beginnings
<1> HIDE DEF h
<1>5. h # <<>> /\ (Len(f) + 1) - 1 = Len(f)
  BY <1>1, <1>4
<1>6. h = SubSeq(g, 1, Len(h)) /\ Len(h) <= Len(g)
  BY <1>3, <1>4 DEF h
<1>7. SubSeq(h, 1, Len(h) - 1) = f
  BY <1>1, <1>4, <1>5
<1> QED  BY <1>4, <1>5, <1>6, <1>7 DEF Paths, Under, Objects!Parent, h

LEMMA ParentUnder ==
  ASSUME NEW h \in Paths
  PROVE  LET f == Objects!Parent(h)
         IN f \in Seq(STRING) /\ Len(h) = Len(f) + 1 /\ Under(f, h)
<1> DEFINE f == SubSeq(h, 1, Len(h) - 1)
<1>1. h \in Seq(STRING) /\ Len(h) \in Nat \ {0}
  BY DEF Paths
<1>2. Len(h) - 1 \in 0 .. Len(h)
  BY <1>1
<1>3. f \in Seq(STRING) /\ Len(f) = Len(h) - 1
  BY <1>1, <1>2, Beginnings
<1> QED  BY <1>1, <1>3 DEF Under, Objects!Parent

\* On the way down to d, what is properly in f is what the next field is or has
\* in it.
LEMMA UnderNext ==
  ASSUME NEW h \in Paths, NEW d \in Paths, Under(h, d), NEW g \in Paths, Under(g, d)
  PROVE  LET f == Objects!Parent(h) IN Under(f, g) /\ f # g <=> Under(h, g)
<1> DEFINE f == Objects!Parent(h)
<1>1. /\ f \in Seq(STRING) /\ Len(h) = Len(f) + 1 /\ Under(f, h)
      /\ Len(f) \in Nat /\ Len(h) \in Nat
  BY ParentUnder DEF Paths
<1>2. g \in Seq(STRING) /\ d \in Seq(STRING) /\ Len(g) \in Nat /\ Len(d) \in Nat
  BY DEF Paths
<1> HIDE DEF f
<1>3. ASSUME Under(f, g), f # g
      PROVE  Under(h, g)
  <2>1. Len(f) # Len(g)
    BY <1>2, <1>3, UnderItself DEF Under
  <2>2. Len(f) <= Len(g)
    BY <1>3 DEF Under
  <2>3. Len(h) <= Len(g)
    BY <1>1, <1>2, <2>1, <2>2
  <2> QED  BY <1>1, <1>2, <2>3, UnderBetween
<1>4. ASSUME Under(h, g)
      PROVE  Under(f, g) /\ f # g
  <2>1. Under(f, g)
    BY <1>1, <1>2, <1>4, UnderTransitive
  <2>2. Len(h) <= Len(g)
    BY <1>4 DEF Under
  <2>3. Len(f) # Len(g)
    BY <1>1, <1>2, <2>2
  <2> QED  BY <2>1, <2>3
<1> QED  BY <1>3, <1>4 DEF f

\* What the objects on the way from f to d must be for d to get its default, and
\* what the default brings with it, when it is applied from f or from inside f.
Open(v, spec, g) == IF g \in DOMAIN spec THEN spec[g] = Map ELSE ~Objects!HasDefault(v, g)
Path(f, d) == {g \in Above(d) : Under(f, g)}
PathIn(f, d) == Path(f, d) \ {f}
Free(v, spec, d, P) ==
  Objects!HasDefault(v, d) /\ d \notin DOMAIN spec /\ \A g \in P : Open(v, spec, g)
Made(P) == {<<g, Map>> : g \in P}
Gives(v, spec, d, P) == Pairs(Objects!Defaulted(v, d)) \cup Made(P \ DOMAIN spec)
Gains(v, spec, f) ==
  UNION {Gives(v, spec, d, Path(f, d)) :
           d \in {e \in Objects!Fields(v) : Under(f, e) /\ Free(v, spec, e, Path(f, e))}}
Within(v, spec, f) ==
  UNION {Gives(v, spec, d, PathIn(f, d)) :
           d \in {e \in Objects!Fields(v) :
                    Under(f, e) /\ f # e /\ Free(v, spec, e, PathIn(f, e))}}

LEMMA GainsIff ==
  ASSUME NEW v, NEW spec, NEW f, NEW x
  PROVE  x \in Gains(v, spec, f) <=>
           \E d \in Objects!Fields(v) : /\ Under(f, d) /\ Free(v, spec, d, Path(f, d))
                                        /\ x \in Gives(v, spec, d, Path(f, d))
BY DEF Gains

LEMMA WithinIff ==
  ASSUME NEW v, NEW spec, NEW f, NEW x
  PROVE  x \in Within(v, spec, f) <=>
           \E d \in Objects!Fields(v) : /\ Under(f, d) /\ f # d
                                        /\ Free(v, spec, d, PathIn(f, d))
                                        /\ x \in Gives(v, spec, d, PathIn(f, d))
BY DEF Within

LEMMA FieldPaths ==
  ASSUME NEW v, crd[v] \in DOMAIN Schemas, NEW f \in Objects!Fields(v) \cup {<<>>}
  PROVE  /\ f \in Seq(STRING) /\ Len(f) \in Nat
         /\ f # <<>> => f \in Paths
         /\ <<>> \notin Objects!Fields(v)
<1>1. Objects!Fields(v) \subseteq Paths
  BY FieldsClosed DEF Closed
<1>2. <<>> \in Seq(STRING) /\ Len(<<>>) = 0 /\ <<>> \notin Paths
  BY DEF Paths
<1>3. \A g \in Paths : g \in Seq(STRING) /\ Len(g) \in Nat
  BY DEF Paths
<1> QED  BY <1>1, <1>2, <1>3

LEMMA PathNext ==
  ASSUME NEW v, crd[v] \in DOMAIN Schemas, NEW f \in Objects!Fields(v) \cup {<<>>},
         NEW h \in Inside(v, f), NEW d \in Objects!Fields(v), Under(h, d)
  PROVE  Path(h, d) = PathIn(f, d) /\ Under(f, d) /\ f # d
<1>1. h \in Paths /\ d \in Paths /\ Objects!Parent(h) = f
  BY FieldPaths DEF Inside
<1>2. \A g \in Above(d) : g \in Paths /\ Under(g, d)
  BY <1>1, PathsAbove, UnderAbove
<1>3. \A g \in Above(d) : Under(f, g) /\ f # g <=> Under(h, g)
  BY <1>1, <1>2, UnderNext
<1>4. Path(h, d) = PathIn(f, d)
  BY <1>3 DEF Path, PathIn
<1>5. Under(d, d)
  BY <1>1, UnderItself DEF Paths
<1>6. Under(f, d) /\ f # d
  BY <1>1, <1>5, UnderNext
<1> QED  BY <1>4, <1>6

\* What the fields in an object gain is what is gained within it.
LEMMA WithinIsBelow ==
  ASSUME NEW v, crd[v] \in DOMAIN Schemas, NEW spec, NEW f \in Objects!Fields(v) \cup {<<>>}
  PROVE  UNION {Gains(v, spec, h) : h \in Inside(v, f)} = Within(v, spec, f)
<1>1. ASSUME NEW h \in Inside(v, f), NEW x \in Gains(v, spec, h)
      PROVE  x \in Within(v, spec, f)
  <2>1. PICK d \in Objects!Fields(v) : /\ Under(h, d) /\ Free(v, spec, d, Path(h, d))
                                       /\ x \in Gives(v, spec, d, Path(h, d))
    BY <1>1, GainsIff
  <2>2. Path(h, d) = PathIn(f, d) /\ Under(f, d) /\ f # d
    BY <2>1, PathNext
  <2> QED  BY <2>1, <2>2, WithinIff
<1>2. ASSUME NEW x \in Within(v, spec, f)
      PROVE  \E h \in Inside(v, f) : x \in Gains(v, spec, h)
  <2>1. PICK d \in Objects!Fields(v) : /\ Under(f, d) /\ f # d
                                       /\ Free(v, spec, d, PathIn(f, d))
                                       /\ x \in Gives(v, spec, d, PathIn(f, d))
    BY <1>2, WithinIff
  <2>2. d \in Paths /\ f \in Seq(STRING) /\ Closed(Objects!Fields(v))
    BY FieldPaths, FieldsClosed
  <2>3. PICK h : h \in Paths /\ Under(h, d) /\ Objects!Parent(h) = f
    BY <2>1, <2>2, UnderChild
  <2>4. h = d \/ h \in Above(d)
    BY <2>2, <2>3, UnderAbove
  <2>5. h \in Inside(v, f)
    BY <2>2, <2>3, <2>4 DEF Closed, Inside
  <2>6. Path(h, d) = PathIn(f, d)
    BY <2>3, <2>5, PathNext
  <2> QED  BY <2>1, <2>3, <2>5, <2>6, GainsIff
<1> QED  BY <1>1, <1>2

LEMMA MadeSets ==
  /\ Made({}) = {}
  /\ \A P, Q : Made(P \cup Q) = Made(P) \cup Made(Q)
  /\ \A f : Made({f}) = {<<f, Map>>}
BY DEF Made

\* An object itself, on the way to a field in it.
LEMMA PathOf ==
  ASSUME NEW v, crd[v] \in DOMAIN Schemas, NEW f \in Objects!Fields(v),
         NEW d \in Objects!Fields(v), Under(f, d), f # d
  PROVE  f \in Above(d) /\ Path(f, d) = PathIn(f, d) \cup {f} /\ f \notin PathIn(f, d)
         /\ Objects!Field(v, f).object
<1>1. f \in Paths /\ d \in Paths
  BY FieldPaths
<1>2. f \in Above(d) /\ Under(f, f)
  BY <1>1, UnderAbove
<1>3. Objects!Field(v, f).object
  BY <1>2, SchemasAssumption, AroundIsAbove DEF Objects!Field, Objects!Fields
<1> QED  BY <1>2, <1>3 DEF Path, PathIn

LEMMA PathToItself ==
  ASSUME NEW f \in Paths
  PROVE  Path(f, f) = {} /\ Under(f, f)
<1>1. ASSUME NEW g \in Above(f), Under(f, g)
      PROVE  FALSE
  <2>1. PICK n \in 1 .. Len(f) - 1 : g = SubSeq(f, 1, n)
    BY <1>1 DEF Above
  <2>2. f \in Seq(STRING) /\ Len(f) \in Nat /\ n \in 0 .. Len(f) /\ n < Len(f)
    BY <2>1 DEF Paths
  <2>3. Len(g) = n
    BY <2>1, <2>2, Beginnings
  <2>4. Len(f) <= Len(g)
    BY <1>1 DEF Under
  <2> QED  BY <2>2, <2>3, <2>4
<1> QED  BY <1>1, UnderAbove DEF Path

\* A visit of a field adds what the field gains.
LEMMA GainsVisited ==
  ASSUME NEW v, crd[v] \in DOMAIN Schemas, NEW spec, NEW f \in Objects!Fields(v)
  PROVE  Gains(v, spec, f) = Visited(v, spec, f, Within(v, spec, f))
<1> DEFINE W == Within(v, spec, f)
           G == Gains(v, spec, f)
           dflt == Pairs(Objects!Defaulted(v, f))
<1>0. f \in Paths /\ Path(f, f) = {} /\ Under(f, f)
  BY FieldPaths, PathToItself
\* Either the field itself, or one in it.
<1>1. \A x : x \in G <=>
        \/ Free(v, spec, f, {}) /\ x \in Gives(v, spec, f, {})
        \/ \E d \in Objects!Fields(v) : /\ Under(f, d) /\ f # d
                                        /\ Free(v, spec, d, PathIn(f, d) \cup {f})
                                        /\ x \in Gives(v, spec, d, PathIn(f, d) \cup {f})
  <2>1. \A d \in Objects!Fields(v) : Under(f, d) /\ f # d => Path(f, d) = PathIn(f, d) \cup {f}
    BY PathOf
  <2>2. \A x : x \in G <=>
          \E d \in Objects!Fields(v) : /\ Under(f, d) /\ Free(v, spec, d, Path(f, d))
                                       /\ x \in Gives(v, spec, d, Path(f, d))
    BY GainsIff
  <2> HIDE DEF G
  <2> SUFFICES ASSUME NEW x
               PROVE  x \in G <=>
        \/ Free(v, spec, f, {}) /\ x \in Gives(v, spec, f, {})
        \/ \E d \in Objects!Fields(v) : /\ Under(f, d) /\ f # d
                                        /\ Free(v, spec, d, PathIn(f, d) \cup {f})
                                        /\ x \in Gives(v, spec, d, PathIn(f, d) \cup {f})
    OBVIOUS
  <2>3. ASSUME x \in G
        PROVE  \/ Free(v, spec, f, {}) /\ x \in Gives(v, spec, f, {})
               \/ \E d \in Objects!Fields(v) : /\ Under(f, d) /\ f # d
                                               /\ Free(v, spec, d, PathIn(f, d) \cup {f})
                                               /\ x \in Gives(v, spec, d, PathIn(f, d) \cup {f})
    <3>1. PICK d \in Objects!Fields(v) : /\ Under(f, d) /\ Free(v, spec, d, Path(f, d))
                                         /\ x \in Gives(v, spec, d, Path(f, d))
      BY <2>2, <2>3
    <3>2. CASE d = f
      BY <1>0, <3>1, <3>2
    <3>3. CASE d # f
      <4>1. Path(f, d) = PathIn(f, d) \cup {f}
        BY <2>1, <3>1, <3>3
      <4> QED  BY <3>1, <3>3, <4>1
    <3> QED  BY <3>2, <3>3
  <2>4. ASSUME Free(v, spec, f, {}) /\ x \in Gives(v, spec, f, {})
        PROVE  x \in G
    BY <1>0, <2>2, <2>4
  <2>5. ASSUME NEW d \in Objects!Fields(v), Under(f, d), f # d,
               Free(v, spec, d, PathIn(f, d) \cup {f}),
               x \in Gives(v, spec, d, PathIn(f, d) \cup {f})
        PROVE  x \in G
    <3>1. Path(f, d) = PathIn(f, d) \cup {f}
      BY <2>1, <2>5
    <3>2. Free(v, spec, d, Path(f, d)) /\ x \in Gives(v, spec, d, Path(f, d))
      BY <2>5, <3>1
    <3> QED  BY <2>2, <2>5, <3>2
  <2> QED  BY <2>3, <2>4, <2>5
<1>2. \A x : x \in W <=>
        \E d \in Objects!Fields(v) : /\ Under(f, d) /\ f # d /\ Free(v, spec, d, PathIn(f, d))
                                     /\ x \in Gives(v, spec, d, PathIn(f, d))
  BY WithinIff
<1> HIDE DEF W, G
<1>3. \A d : Free(v, spec, d, PathIn(f, d) \cup {f})
               <=> Free(v, spec, d, PathIn(f, d)) /\ Open(v, spec, f)
  BY DEF Free
<1>4. Gives(v, spec, f, {}) = dflt
  BY MadeSets DEF Gives
<1>5. CASE f \in DOMAIN spec
  <2>1. ~Free(v, spec, f, {}) /\ (Open(v, spec, f) <=> spec[f] = Map)
    BY <1>5 DEF Free, Open
  <2>2. \A d : Gives(v, spec, d, PathIn(f, d) \cup {f}) = Gives(v, spec, d, PathIn(f, d))
    <3>1. \A d : (PathIn(f, d) \cup {f}) \ DOMAIN spec = PathIn(f, d) \ DOMAIN spec
      BY <1>5
    <3> QED  BY <3>1 DEF Gives
  <2>3. \A x : x \in G <=> x \in W /\ spec[f] = Map
    BY <1>1, <1>2, <1>3, <2>1, <2>2
  <2>4. G = IF spec[f] = Map THEN W ELSE {}
    BY <2>3
  <2> QED  BY <1>5, <2>4 DEF Visited, W, G
<1>6. CASE f \notin DOMAIN spec /\ Objects!HasDefault(v, f)
  <2>1. Free(v, spec, f, {}) /\ ~Open(v, spec, f)
    BY <1>6 DEF Free, Open
  <2>2. \A x : x \in G <=> x \in dflt
    BY <1>1, <1>3, <1>4, <2>1
  <2>3. G = dflt
    BY <2>2
  <2> QED  BY <1>6, <2>3 DEF Visited, G
<1>7. CASE f \notin DOMAIN spec /\ ~Objects!HasDefault(v, f)
  <2>1. ~Free(v, spec, f, {}) /\ Open(v, spec, f)
    BY <1>7 DEF Free, Open
  <2>2. \A d : Gives(v, spec, d, PathIn(f, d) \cup {f})
                 = Gives(v, spec, d, PathIn(f, d)) \cup {<<f, Map>>}
    <3>1. \A d : (PathIn(f, d) \cup {f}) \ DOMAIN spec = (PathIn(f, d) \ DOMAIN spec) \cup {f}
      BY <1>7
    <3>2. \A d : Made((PathIn(f, d) \cup {f}) \ DOMAIN spec)
                   = Made(PathIn(f, d) \ DOMAIN spec) \cup {<<f, Map>>}
      <4> SUFFICES ASSUME NEW d
                   PROVE  Made((PathIn(f, d) \cup {f}) \ DOMAIN spec)
                            = Made(PathIn(f, d) \ DOMAIN spec) \cup {<<f, Map>>}
        OBVIOUS
      <4> DEFINE P == PathIn(f, d) \ DOMAIN spec
      <4>1. (PathIn(f, d) \cup {f}) \ DOMAIN spec = P \cup {f}
        BY <3>1
      <4> HIDE DEF P
      <4>2. Made(P \cup {f}) = Made(P) \cup Made({f}) /\ Made({f}) = {<<f, Map>>}
        BY MadeSets
      <4> QED  BY <4>1, <4>2 DEF P
    <3> QED  BY <3>2 DEF Gives
  <2>3. \A d \in Objects!Fields(v) : \E x : x \in Gives(v, spec, d, PathIn(f, d))
    <3>1. \A d : d \in DOMAIN Objects!Defaulted(v, d)
      BY DEF Objects!Defaulted
    <3> QED  BY <3>1 DEF Gives, Pairs
  <2>4. \A x : x \in G <=> x \in W \/ (W # {} /\ x = <<f, Map>>)
    <3> DEFINE made == <<f, Map>>
    <3>1. \A d, x : x \in Gives(v, spec, d, PathIn(f, d) \cup {f})
                      <=> x \in Gives(v, spec, d, PathIn(f, d)) \/ x = made
      BY <2>2
    <3> HIDE DEF made
    <3>2. W # {} <=> \E d \in Objects!Fields(v) :
                       Under(f, d) /\ f # d /\ Free(v, spec, d, PathIn(f, d))
      BY <1>2, <2>3
    <3>3. \A x : x \in G <=> x \in W \/ (W # {} /\ x = made)
      BY <1>1, <1>2, <1>3, <2>1, <3>1, <3>2
    <3> QED  BY <3>3 DEF made
  <2>5. G = KeptIfFilled(f, W)
    BY <2>4 DEF KeptIfFilled
  <2>6. ~Objects!Field(v, f).object => W = {}
    BY <1>2, PathOf
  <2>7. G = IF Objects!Field(v, f).object THEN KeptIfFilled(f, W) ELSE {}
    BY <2>5, <2>6 DEF KeptIfFilled
  <2> QED  BY <1>7, <2>7 DEF Visited, G, W
<1> QED  BY <1>5, <1>6, <1>7

\* Fields that a field has in it are fewer for the fields in it.
LEMMA VisitUnique ==
  ASSUME NEW v, crd[v] \in DOMAIN Schemas, NEW spec, NEW visit,
         \A f \in Objects!Fields(v) :
           visit[f] = Visited(v, spec, f, UNION {visit[g] : g \in Inside(v, f)})
  PROVE  \A f \in Objects!Fields(v) : visit[f] = Gains(v, spec, f)
<1> DEFINE Fs == Objects!Fields(v)
           Below(f) == {d \in Fs : Under(f, d) /\ f # d}
           P == {n \in Nat : \A f \in Fs : Cardinality(Below(f)) = n
                                => visit[f] = Gains(v, spec, f)}
<1>1. \A f : IsFiniteSet(Below(f)) /\ Cardinality(Below(f)) \in Nat
  <2>1. IsFiniteSet(Fs)
    BY FiniteAssumption DEF Objects!Fields
  <2>2. \A f : Below(f) \in SUBSET Fs
    OBVIOUS
  <2> HIDE DEF Fs, Below
  <2>3. \A f : IsFiniteSet(Below(f))
    BY <2>1, <2>2, FS_Subset
  <2> QED  BY <2>3, FS_CardinalityType
<1>2. ASSUME NEW f \in Fs, NEW g \in Inside(v, f)
      PROVE  g \in Fs /\ Cardinality(Below(g)) \in 0 .. Cardinality(Below(f)) - 1
  <2>1. g \in Fs /\ g \in Paths /\ f \in Paths /\ Under(g, g)
    BY FieldPaths, PathToItself DEF Inside
  <2>2. g \in Below(f) /\ g \notin Below(g)
    BY <2>1, PathNext
  <2>3. \A d \in Below(g) : d \in Below(f)
    BY PathNext
  <2> HIDE DEF Below
  <2>4. Below(g) \in SUBSET Below(f) /\ Below(g) # Below(f)
    BY <2>2, <2>3
  <2>5. /\ Cardinality(Below(g)) <= Cardinality(Below(f))
        /\ Cardinality(Below(g)) # Cardinality(Below(f))
    BY <1>1, <2>4, FS_Subset
  <2> QED  BY <1>1, <2>1, <2>5
<1>3. ASSUME NEW n \in Nat, \A m \in 0 .. n - 1 : m \in P
      PROVE  n \in P
  <2> SUFFICES ASSUME NEW f \in Fs, Cardinality(Below(f)) = n
               PROVE  visit[f] = Gains(v, spec, f)
    OBVIOUS
  <2>1. \A g \in Inside(v, f) : visit[g] = Gains(v, spec, g)
    <3> SUFFICES ASSUME NEW g \in Inside(v, f)
                 PROVE  visit[g] = Gains(v, spec, g)
      OBVIOUS
    <3>1. g \in Fs /\ Cardinality(Below(g)) \in P
      <4> HIDE DEF P, Below
      <4> QED  BY <1>2, <1>3
    <3> HIDE DEF Below
    <3> QED  BY <3>1
  <2>2. UNION {visit[g] : g \in Inside(v, f)} = Within(v, spec, f)
    <3>1. {visit[g] : g \in Inside(v, f)} = {Gains(v, spec, g) : g \in Inside(v, f)}
      BY <2>1
    <3> QED  BY <3>1, WithinIsBelow
  <2> QED  BY <2>2, GainsVisited
<1>4. P = Nat
  <2>1. P \in SUBSET Nat
    OBVIOUS
  <2> HIDE DEF P
  <2> QED  BY <1>3, <2>1, NatSetInduction
<1>5. ASSUME NEW f \in Fs
      PROVE  visit[f] = Gains(v, spec, f)
  <2>1. Cardinality(Below(f)) \in P
    <3> HIDE DEF Below, P
    <3> QED  BY <1>1, <1>4
  <2> HIDE DEF Below
  <2> QED  BY <2>1
<1> QED  BY <1>5

\* What is applied is what the whole spec gains.
LEMMA AppliedIsWithin ==
  ASSUME NEW v, crd[v] \in DOMAIN Schemas, NEW spec
  PROVE  Applied(v, spec) = Within(v, spec, <<>>)
<1> DEFINE Fs == Objects!Fields(v)
           All(g) == g = [f \in Fs |-> Visited(v, spec, f, UNION {g[h] : h \in Inside(v, f)})]
           gains == [f \in Fs |-> Gains(v, spec, f)]
           visit == CHOOSE g : All(g)
<1>0. \A f : Inside(v, f) \subseteq Fs
  BY DEF Inside
<1>1. \A f \in Fs : gains[f] = Visited(v, spec, f, UNION {gains[h] : h \in Inside(v, f)})
  <2> SUFFICES ASSUME NEW f \in Fs
               PROVE  gains[f] = Visited(v, spec, f, UNION {gains[h] : h \in Inside(v, f)})
    OBVIOUS
  <2>1. {gains[h] : h \in Inside(v, f)} = {Gains(v, spec, h) : h \in Inside(v, f)}
    BY <1>0
  <2>2. UNION {gains[h] : h \in Inside(v, f)} = Within(v, spec, f)
    BY <2>1, WithinIsBelow
  <2> QED  BY <2>2, GainsVisited
<1>2. All(gains)
  <2>1. gains = [f \in Fs |-> gains[f]]
    OBVIOUS
  <2> HIDE DEF gains
  <2> QED  BY <1>1, <2>1
<1>3. All(visit)
  <2> HIDE DEF All, gains
  <2> QED  BY <1>2
<1>4. Applied(v, spec) = UNION {visit[f] : f \in Inside(v, <<>>)}
  BY DEF Applied
<1> HIDE DEF visit
<1>5. \A f \in Fs : visit[f] = Visited(v, spec, f, UNION {visit[h] : h \in Inside(v, f)})
  BY <1>3
<1>6. \A f \in Fs : visit[f] = Gains(v, spec, f)
  BY <1>5, VisitUnique
<1>7. {visit[f] : f \in Inside(v, <<>>)} = {Gains(v, spec, f) : f \in Inside(v, <<>>)}
  BY <1>0, <1>6
<1> QED  BY <1>4, <1>7, WithinIsBelow

LEMMA PathFromTop ==
  ASSUME NEW d \in Paths
  PROVE  PathIn(<<>>, d) = Above(d) /\ Under(<<>>, d) /\ <<>> # d
<1>1. ASSUME NEW g \in Paths
      PROVE  Under(<<>>, g) /\ <<>> # g
  <2>1. g \in Seq(STRING) /\ Len(g) \in Nat /\ Len(<<>>) = 0 /\ g # <<>>
    BY DEF Paths
  <2>2. SubSeq(g, 1, 0) \in Seq(STRING) /\ Len(SubSeq(g, 1, 0)) = 0
    BY <2>1, Beginnings
  <2>3. SubSeq(g, 1, 0) = <<>>
    BY <2>2
  <2> QED  BY <2>1, <2>3 DEF Under
<1>2. \A g \in Above(d) : g \in Paths
  BY PathsAbove
<1> QED  BY <1>1, <1>2 DEF PathIn, Path

\* The defaults that are due are not in each other.
LEMMA DueApart ==
  ASSUME NEW v, crd[v] \in DOMAIN Schemas, NEW spec,
         NEW d \in Objects!Fields(v), Free(v, spec, d, Above(d)),
         NEW e \in Objects!Fields(v), Free(v, spec, e, Above(e)),
         NEW g \in DOMAIN Objects!Defaulted(v, d)
  PROVE  /\ g \in DOMAIN Objects!Defaulted(v, e) => d = e
         /\ g \notin Above(e)
<1>1. d \in Paths /\ e \in Paths
  BY FieldPaths
<1>2. g \in Paths /\ Under(d, g)
  <2>1. g \in Paths /\ (g = d \/ d \in Above(g))
    BY DefaultedFields DEF Free
  <2> QED  BY <1>1, <2>1, UnderAbove
<1>3. d \notin Above(e) /\ e \notin Above(d)
  BY DEF Free, Open
<1>4. ASSUME g \in DOMAIN Objects!Defaulted(v, e)
      PROVE  d = e
  <2>1. g = e \/ e \in Above(g)
    BY <1>4, DefaultedFields DEF Free
  <2>2. Under(e, g)
    BY <1>1, <1>2, <2>1, UnderAbove
  <2>3. /\ Len(d) \in Nat /\ Len(e) \in Nat /\ g \in Seq(STRING)
        /\ Len(d) <= Len(e) \/ Len(e) <= Len(d)
    BY <1>1, <1>2 DEF Paths
  <2>4. Under(d, e) \/ Under(e, d)
    BY <1>2, <2>2, <2>3, UnderBetween
  <2> QED  BY <1>1, <1>3, <2>4, UnderAbove
<1>5. ASSUME g \in Above(e)
      PROVE  FALSE
  <2>1. Under(g, e) /\ e \in Seq(STRING) /\ Len(d) \in Nat /\ Len(g) \in Nat
    BY <1>1, <1>2, <1>5, UnderAbove DEF Paths
  <2>2. Under(d, e)
    BY <1>2, <2>1, UnderTransitive
  <2>3. d = e
    BY <1>1, <1>3, <2>2, UnderAbove
  <2>4. g \in Path(d, d)
    BY <1>2, <1>5, <2>3 DEF Path
  <2> QED  BY <1>1, <2>4, PathToItself
<1> QED  BY <1>4, <1>5

LEMMA PopulatedPairs ==
  ASSUME NEW v, crd[v] \in DOMAIN Schemas, NEW spec, Closed(DOMAIN spec)
  PROVE  Pairs(Objects!Populated(v, spec)) = Pairs(spec) \cup Within(v, spec, <<>>)
<1> DEFINE due == Objects!Due(v, spec)
           made == (UNION {Objects!Around(f) : f \in due}) \ DOMAIN spec
           given == UNION {DOMAIN Objects!Defaulted(v, f) : f \in due}
           Giver(g) == CHOOSE f \in due : g \in DOMAIN Objects!Defaulted(v, f)
           new == Objects!Populated(v, spec)
<1>1. \A d : d \in due <=> d \in Objects!Fields(v) /\ Free(v, spec, d, Above(d))
  BY AroundIsAbove DEF Objects!Due, Free, Open
<1>2. /\ DOMAIN new = DOMAIN spec \cup made \cup given
      /\ \A g \in DOMAIN new : new[g] = IF g \in given THEN Objects!Defaulted(v, Giver(g))[g]
                                        ELSE IF g \in made THEN Map ELSE spec[g]
  BY DEF Objects!Populated
<1>3. \A g : g \in made <=> g \notin DOMAIN spec /\ \E d \in due : g \in Above(d)
  BY AroundIsAbove
<1>4. \A g : g \in given <=> \E d \in due : g \in DOMAIN Objects!Defaulted(v, d)
  OBVIOUS
<1>5. \A g \in given : Giver(g) \in due /\ g \in DOMAIN Objects!Defaulted(v, Giver(g))
  OBVIOUS
<1> HIDE DEF due, made, given, Giver, new
<1>6. \A d \in due : \A g \in DOMAIN Objects!Defaulted(v, d) : Giver(g) = d /\ g \notin made
  <2> SUFFICES ASSUME NEW d \in due, NEW g \in DOMAIN Objects!Defaulted(v, d)
               PROVE  Giver(g) = d /\ g \notin made
    OBVIOUS
  <2>1. Giver(g) \in due /\ g \in DOMAIN Objects!Defaulted(v, Giver(g))
    BY <1>4, <1>5
  <2>2. Giver(g) = d
    BY <1>1, <2>1, DueApart
  <2>3. \A e \in due : g \notin Above(e)
    BY <1>1, DueApart
  <2> QED  BY <1>3, <2>2, <2>3
<1>7. \A x : x \in Within(v, spec, <<>>) <=>
               \E d \in due : \/ x \in Pairs(Objects!Defaulted(v, d))
                              \/ x \in Made(Above(d) \ DOMAIN spec)
  <2>1. \A d \in Objects!Fields(v) : PathIn(<<>>, d) = Above(d) /\ Under(<<>>, d) /\ <<>> # d
    BY FieldPaths, PathFromTop
  <2>2. ASSUME NEW x, NEW d \in due
        PROVE  x \in Gives(v, spec, d, Above(d)) <=> \/ x \in Pairs(Objects!Defaulted(v, d))
                                                    \/ x \in Made(Above(d) \ DOMAIN spec)
    BY DEF Gives
  <2>3. ASSUME NEW x
        PROVE  x \in Within(v, spec, <<>>) <=> \E d \in due : x \in Gives(v, spec, d, Above(d))
    <3>1. ASSUME x \in Within(v, spec, <<>>)
          PROVE  \E d \in due : x \in Gives(v, spec, d, Above(d))
      <4>1. PICK d \in Objects!Fields(v) :
                   /\ Free(v, spec, d, PathIn(<<>>, d))
                   /\ x \in Gives(v, spec, d, PathIn(<<>>, d))
        BY <3>1, WithinIff
      <4>2. PathIn(<<>>, d) = Above(d)
        BY <2>1
      <4> QED  BY <1>1, <4>1, <4>2
    <3>2. ASSUME NEW d \in due, x \in Gives(v, spec, d, Above(d))
          PROVE  x \in Within(v, spec, <<>>)
      <4>1. d \in Objects!Fields(v) /\ Free(v, spec, d, Above(d))
        BY <1>1
      <4>2. PathIn(<<>>, d) = Above(d) /\ Under(<<>>, d) /\ <<>> # d
        BY <2>1, <4>1
      <4> QED  BY <3>2, <4>1, <4>2, WithinIff
    <3> QED  BY <3>1, <3>2
  <2> QED  BY <2>2, <2>3
<1>8. ASSUME NEW x \in Pairs(new)
      PROVE  x \in Pairs(spec) \cup Within(v, spec, <<>>)
  <2>1. PICK g \in DOMAIN new : x = <<g, new[g]>>
    BY <1>8 DEF Pairs
  <2>2. CASE g \in given
    <3>1. x \in Pairs(Objects!Defaulted(v, Giver(g))) /\ Giver(g) \in due
      BY <1>2, <1>5, <2>1, <2>2 DEF Pairs
    <3> QED  BY <1>7, <3>1
  <2>3. CASE g \notin given /\ g \in made
    <3>1. PICK d \in due : g \in Above(d) \ DOMAIN spec
      BY <1>3, <2>3
    <3>2. x = <<g, Map>>
      BY <1>2, <2>1, <2>3
    <3>3. x \in Made(Above(d) \ DOMAIN spec)
      BY <3>1, <3>2 DEF Made
    <3> QED  BY <1>7, <3>3
  <2>4. CASE g \notin given /\ g \notin made
    BY <1>2, <2>1, <2>4 DEF Pairs
  <2> QED  BY <2>2, <2>3, <2>4
<1>9. ASSUME NEW x \in Pairs(spec)
      PROVE  x \in Pairs(new)
  <2>1. \A g \in DOMAIN spec : g \in DOMAIN new /\ new[g] = spec[g]
    BY PopulatedKeeps DEF new
  <2> QED  BY <1>9, <2>1 DEF Pairs
<1>10. ASSUME NEW d \in due, NEW x \in Pairs(Objects!Defaulted(v, d))
       PROVE  x \in Pairs(new)
  <2>1. PICK g \in DOMAIN Objects!Defaulted(v, d) : x = <<g, Objects!Defaulted(v, d)[g]>>
    BY <1>10 DEF Pairs
  <2>2. g \in given /\ Giver(g) = d /\ g \in DOMAIN new
    BY <1>2, <1>4, <1>6
  <2>3. new[g] = Objects!Defaulted(v, d)[g]
    BY <1>2, <2>2
  <2> QED  BY <2>1, <2>2, <2>3 DEF Pairs
<1>11. ASSUME NEW d \in due, NEW x \in Made(Above(d) \ DOMAIN spec)
       PROVE  x \in Pairs(new)
  <2>1. PICK g \in Above(d) \ DOMAIN spec : x = <<g, Map>>
    BY <1>11 DEF Made
  <2>2. g \in made /\ g \notin given
    BY <1>3, <1>4, <1>6, <2>1
  <2>3. g \in DOMAIN new /\ new[g] = Map
    BY <1>2, <2>2
  <2> QED  BY <2>1, <2>3 DEF Pairs
<1>12. \A x : x \in Pairs(new) <=> x \in Pairs(spec) \cup Within(v, spec, <<>>)
  BY <1>7, <1>8, <1>9, <1>10, <1>11
<1> QED  BY <1>12 DEF new

LEMMA SpecsClosed ==
  ASSUME NEW v, crd[v] \in DOMAIN Schemas, NEW spec \in Objects!Specs(v)
  PROVE  Closed(DOMAIN spec)
<1>1. DOMAIN spec \subseteq Objects!Fields(v)
  BY DEF Objects!Specs
<1>2. \A f \in DOMAIN spec : Above(f) \subseteq DOMAIN spec
  BY AroundIsAbove DEF Objects!Specs
<1> QED  BY <1>1, <1>2, FieldsClosed DEF Closed

\* For every schema and every spec a Composition can have, the recursion of
\* applyDefaultsToMap puts in the defaults Admission says are due, with the
\* objects around them, and nothing else.
THEOREM DefaultsAppliedAsStated == SpecAll => []DefaultsAsApplied
<1>1. ObjectInv => DefaultsAsApplied
  <2> SUFFICES ASSUME ObjectInv, NEW v \in Objects!Served,
                      NEW spec \in IF obj = NoObject THEN Objects!Specs(v) ELSE {obj.spec}
               PROVE  Pairs(Objects!Populated(v, spec)) = Pairs(spec) \cup Applied(v, spec)
    BY DEF DefaultsAsApplied
  <2>1. crd[v] \in DOMAIN Schemas
    BY SchemasKnown DEF ObjectInv
  <2>2. CASE obj = NoObject
    BY <2>1, <2>2, SpecsClosed, PopulatedPairs, AppliedIsWithin
  <2>3. CASE obj # NoObject
    <3>1. spec = obj.spec /\ Closed(DOMAIN spec)
      BY <2>3 DEF ObjectInv, Written
    <3> QED  BY <2>1, <3>1, PopulatedPairs, AppliedIsWithin
  <2> QED  BY <2>2, <2>3
<1> QED  BY <1>1, ObjectsHold, PTL
=============================================================================
