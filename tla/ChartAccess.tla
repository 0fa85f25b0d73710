----------------------------- MODULE ChartAccess -----------------------------
(***************************************************************************)
(* How a reconcile comes by its chart (internal/tools/chart, chartfs,      *)
(* tgzfs, retry): download with retries, unpacking of the tar stream, the  *)
(* root directory, then the version (Chart.yaml) and the values schema.    *)
(*                                                                         *)
(* Observe and Update download twice, the second time without retries, and *)
(* the repository may publish something else in between.                   *)
(***************************************************************************)
EXTENDS Naturals, Sequences

CONSTANTS Archives,     \* what may be published: sequences of tar entries
          Attempts, InitialDelay, MaximumDelay,
          NoData        \* the content of a directory, or nothing read yet

Data == {NoData} \cup UNION {{a[i].data : i \in DOMAIN a} : a \in Archives}
Paths == Seq(STRING) \ {<<>>}
Entries == [path : Paths, dir : BOOLEAN, data : Data]
Above(p) == {SubSeq(p, 1, n) : n \in 1 .. Len(p) - 1}

\* Archives that can be extracted: nothing lies below a file.
ASSUME ArchivesAssumption ==
  \A a \in Archives :
    /\ a \in Seq(Entries)
    /\ \A i \in DOMAIN a : a[i].dir => a[i].data = NoData
    /\ \A i, j \in DOMAIN a : a[i].path \in Above(a[j].path) => a[i].dir
ASSUME RetryAssumption == /\ Attempts \in Nat \ {0}
                          /\ InitialDelay \in Nat \ {0} /\ MaximumDelay \in Nat

VARIABLES op,     \* the handler that asks for the chart
          stage,
          calls,  \* downloads tried so far, of those that are retried
          delay,  \* the wait before the next one
          tar,    \* the entries of the download that are still to be read
          tree,   \* what tgzfs.New has made of the others
          source, \* the archives that were downloaded
          chart   \* what was read of them

vars == <<op, stage, calls, delay, tar, tree, source, chart>>

Handlers == {"observe", "create", "update"}
Stages == {"idle", "fetch", "wait", "unpack", "fetchAgain", "unpackAgain",
           "done", "failed", "gaveUp"}

-----------------------------------------------------------------------------
(* tgzfs *)

\* at: the entries by path; root: those of the archive's top, in tar order.
NoTree == [at |-> <<>>, root |-> <<>>]
Dir(p) == [path |-> p, dir |-> TRUE, data |-> NoData]

\* (mutant) An entry that is there is not replaced.
AppendedOnce(t, e) ==
  LET made == Above(e.path) \ DOMAIN t.at
      known == e.path \in DOMAIN t.at
  IN [at |-> [p \in DOMAIN t.at \cup made \cup {e.path} |->
                IF p \in DOMAIN t.at THEN t.at[p] ELSE IF p = e.path THEN e ELSE Dir(p)],
      root |-> IF Len(e.path) = 1 THEN Append(t.root, e)
               ELSE IF <<e.path[1]>> \in made THEN Append(t.root, Dir(<<e.path[1]>>))
               ELSE t.root]

\* append: the directories above an entry are made up unless the archive had
\* them before; one that comes later replaces, and is listed at the top again.
Appended(t, e) ==
  LET made == Above(e.path) \ DOMAIN t.at
  IN [at |-> [p \in DOMAIN t.at \cup made \cup {e.path} |->
                IF p = e.path THEN e ELSE IF p \in made THEN Dir(p) ELSE t.at[p]],
      root |-> IF Len(e.path) = 1 THEN Append(t.root, e)
               ELSE IF <<e.path[1]>> \in made THEN Append(t.root, Dir(<<e.path[1]>>))
               ELSE t.root]

\* ChartInfoFromBytes wants a single entry at the top, FromReader a single
\* directory.
Root(t) == IF Len(t.root) = 1 THEN {t.root[1].path} ELSE {}
RootDir(t) == {t.root[i].path : i \in {j \in DOMAIN t.root :
                 \A k \in DOMAIN t.root : t.root[k].dir <=> k = j}}

\* Open and ReadAll of a file below the root; a set of at most one content.
Content(t, root, name) ==
  {t.at[p].data : p \in {r \o <<name>> : r \in root} \cap DOMAIN t.at} \ {NoData}
Version(t, root) == Content(t, root, "Chart.yaml")
Schema(t, root) == Content(t, root, "values.schema.json")

-----------------------------------------------------------------------------
(* retry *)

\* The initial delay, shifted to the left.
Shifted[n \in Nat] == IF n = 0 THEN InitialDelay ELSE 2 * Shifted[n - 1]

\* (mutant) Shifted once too often.
DelayShifted(attempt) ==
  LET d == Shifted[attempt]
  IN IF MaximumDelay > 0 /\ d > MaximumDelay THEN MaximumDelay ELSE d

Delay(attempt) ==
  LET d == Shifted[attempt - 1]
  IN IF MaximumDelay > 0 /\ d > MaximumDelay THEN MaximumDelay ELSE d

-----------------------------------------------------------------------------

Read == [version : SUBSET Data, schema : SUBSET Data]
Nothing == [version |-> {}, schema |-> {}]

Init ==
  /\ op = "none" /\ stage = "idle"
  /\ calls = 0 /\ delay = 0
  /\ tar = <<>> /\ tree = NoTree
  /\ source = <<>>
  /\ chart = Nothing

Begin(h) ==
  /\ stage = "idle"
  /\ op' = h
  /\ stage' = "fetch"
  /\ UNCHANGED <<calls, delay, tar, tree, source, chart>>

\* A download is in memory as a whole before it is unpacked.
Downloaded(a, next) ==
  /\ tar' = a
  /\ tree' = NoTree
  /\ source' = Append(source, a)
  /\ stage' = next
  /\ UNCHANGED <<op, chart>>

Fetch(a) ==
  /\ stage = "fetch"
  /\ calls' = calls + 1
  /\ Downloaded(a, "unpack")
  /\ UNCHANGED delay

\* (mutant) The attempts are not counted.
RetryForever ==
  /\ stage = "fetch"
  /\ stage' = "wait" /\ delay' = InitialDelay
  /\ UNCHANGED <<op, calls, tar, tree, source, chart>>

\* (mutant) One attempt too many.
RetryOnceMore ==
  /\ stage = "fetch"
  /\ calls' = calls + 1
  /\ IF calls' > Attempts
       THEN stage' = "gaveUp" /\ UNCHANGED delay
       ELSE stage' = "wait" /\ delay' = Delay(calls')
  /\ UNCHANGED <<op, tar, tree, source, chart>>

\* A transient error, which is what most errors of a repository count as.
Retry ==
  /\ stage = "fetch"
  /\ calls' = calls + 1
  /\ IF calls' = Attempts
       THEN stage' = "gaveUp" /\ UNCHANGED delay
       ELSE stage' = "wait" /\ delay' = Delay(calls')
  /\ UNCHANGED <<op, tar, tree, source, chart>>

Wait ==
  /\ stage = "wait"
  /\ stage' = "fetch"
  /\ UNCHANGED <<op, calls, delay, tar, tree, source, chart>>

\* A permanent error, a context that ends, no secret, a damaged archive; in the
\* second download any error.
Abort ==
  /\ stage \in {"fetch", "wait", "unpack", "fetchAgain", "unpackAgain"}
  /\ stage' = "failed"
  /\ tar' = <<>> /\ tree' = NoTree /\ source' = <<>> /\ chart' = Nothing
  /\ UNCHANGED <<op, calls, delay>>

NextEntry ==
  /\ stage \in {"unpack", "unpackAgain"} /\ tar # <<>>
  /\ tree' = Appended(tree, Head(tar))
  /\ tar' = Tail(tar)
  /\ UNCHANGED <<op, stage, calls, delay, source, chart>>

\* (mutant) Update takes the version from the second download, as Observe does.
ReadLatest ==
  /\ stage = "unpack" /\ tar = <<>>
  /\ chart' = [version |-> IF op = "create" THEN Version(tree, Root(tree)) ELSE {},
               schema |-> Schema(tree, Root(tree))]
  /\ stage' = IF Root(tree) = {} \/ chart'.schema = {} THEN "failed"
              ELSE IF op = "create" THEN "done" ELSE "fetchAgain"
  /\ tree' = NoTree
  /\ UNCHANGED <<op, calls, delay, tar, source>>

\* Observe reads the schema only; Update's second download is for its URL.
ReadChart ==
  /\ stage = "unpack" /\ tar = <<>>
  /\ chart' = [version |-> IF op = "observe" THEN {} ELSE Version(tree, Root(tree)),
               schema |-> Schema(tree, Root(tree))]
  /\ stage' = IF \/ chart'.schema = {}
                 \/ op # "observe" /\ chart'.version = {} THEN "failed"
              ELSE IF op = "create" THEN "done" ELSE "fetchAgain"
  /\ tree' = NoTree
  /\ UNCHANGED <<op, calls, delay, tar, source>>

FetchAgain(a) ==
  /\ stage = "fetchAgain"
  /\ Downloaded(a, "unpackAgain")
  /\ UNCHANGED <<calls, delay>>

ReadAgain ==
  /\ stage = "unpackAgain" /\ tar = <<>>
  /\ chart' = IF chart.version = {}
                THEN [chart EXCEPT !.version = Version(tree, RootDir(tree))] ELSE chart
  /\ stage' = IF RootDir(tree) = {} \/ chart'.version = {} THEN "failed" ELSE "done"
  /\ tree' = NoTree
  /\ UNCHANGED <<op, calls, delay, tar, source>>

\* The next reconcile downloads anew.
End ==
  /\ stage \in {"done", "failed", "gaveUp"}
  /\ stage' = "idle"
  /\ calls' = 0 /\ delay' = 0 /\ tar' = <<>> /\ tree' = NoTree
  /\ source' = <<>> /\ chart' = Nothing /\ op' = "none"

\* Whatever the repository has published under the chart's URL and version.
Step == \/ \E a \in Archives : Fetch(a) \/ FetchAgain(a)
        \/ Retry \/ Wait \/ Abort \/ NextEntry \/ ReadChart \/ ReadAgain
Next == Step \/ End \/ \E h \in Handlers : Begin(h)

Spec == Init /\ [][Next]_vars
FairSpec == Spec /\ WF_vars(Step)

TypeOK ==
  /\ op \in Handlers \cup {"none"} /\ stage \in Stages
  /\ calls \in 0 .. Attempts
  /\ delay \in {0} \cup {Delay(n) : n \in 1 .. Attempts}
  /\ tar \in Seq(Entries)
  /\ tree.root \in Seq(Entries) /\ \A p \in DOMAIN tree.at : tree.at[p] \in Entries
  /\ source \in Seq(Archives) /\ Len(source) <= 2
  /\ chart \in Read
=============================================================================
