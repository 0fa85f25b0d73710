------------------------- MODULE ChartsAndCompositions -------------------------
(***************************************************************************)
(* From the chart to the Composition: the version and the values schema    *)
(* that ChartAccess reads are what Admission fills Compositions in with.   *)
(***************************************************************************)
EXTENDS ChartAccess

CONSTANTS Schemas, Values, Map, NoDefault, NoObject
VARIABLES obj, asked, crd

Objects == INSTANCE Admission
composition == <<obj, asked, crd>>
all == <<vars, composition>>

\* Create and Update generate the CRD version from the chart they have read.
Generate ==
  /\ stage = "done" /\ op # "observe"
  /\ End
  /\ \E v \in chart.version, s \in chart.schema : Objects!Offer(v, s)

Apart == \/ Next /\ ~(stage = "done" /\ op # "observe") /\ UNCHANGED composition
         \/ Objects!Write /\ UNCHANGED vars

InitAll == Init /\ Objects!Init
NextAll == Generate \/ Apart
SpecAll == InitAll /\ [][NextAll]_all
FairAll == SpecAll /\ WF_all(Step /\ UNCHANGED composition)

\* Values schemas are trees: what a field is in is an object of the schema, and
\* the default of an object lists fields in it, with the objects they are in.
ASSUME SchemasAssumption ==
  \A s \in DOMAIN Schemas : \A f \in DOMAIN Schemas[s] :
    /\ f \in Paths
    /\ \A g \in Objects!Around(f) : g \in DOMAIN Schemas[s] /\ Schemas[s][g].object
    /\ Schemas[s][f].object /\ Schemas[s][f].default # NoDefault =>
         \A g \in DOMAIN Schemas[s][f].default :
           /\ g \in Paths /\ f \in Objects!Around(g)
           /\ Objects!Around(g) \subseteq
                Objects!Around(f) \cup {f} \cup DOMAIN Schemas[s][f].default
ASSUME SchemaFilesAssumption ==
  \A a \in Archives : \A i \in DOMAIN a :
    a[i].path[Len(a[i].path)] = "values.schema.json" /\ ~a[i].dir
      => a[i].data \in DOMAIN Schemas

-----------------------------------------------------------------------------
(* Charts *)

\* What tar would extract: the last entry of a path.
Extracted(a, p) ==
  LET found == {i \in 1 .. Len(a) : a[i].path = p /\ ~a[i].dir}
  IN {a[i].data : i \in {j \in found : \A k \in found : k <= j}}
Tops(a) == {a[i].path[1] : i \in 1 .. Len(a)}
ReadFrom(a, name) == UNION {Extracted(a, <<top, name>>) : top \in Tops(a)}

\* A chart that is accepted is read as tar would extract it, however the archive
\* orders its entries and repeats them; one that is not is refused and not
\* misread.
ReadAsExtracted ==
  stage = "done" =>
    /\ chart.schema = ReadFrom(source[1], "values.schema.json")
    /\ chart.version = ReadFrom(source[IF op = "observe" THEN 2 ELSE 1], "Chart.yaml")

\* Whatever is published between two downloads, the schema of a version of the
\* CRD is the one of a chart of that version.
VersionsMatchCharts ==
  \A v \in Objects!Served :
    \E a \in Archives : /\ ReadFrom(a, "Chart.yaml") = {v}
                        /\ ReadFrom(a, "values.schema.json") = {crd[v]}

\* Giving up takes every attempt. The first wait is the initial delay, each further
\* one twice the wait before it, and none is longer than the maximum, if there is
\* one: however far the shifting of retry.Delay has gone.
Capped(d) == IF MaximumDelay > 0 /\ d > MaximumDelay THEN MaximumDelay ELSE d
Backoff ==
  [][/\ stage' = "gaveUp" /\ stage # "gaveUp" => calls' = Attempts
     /\ stage = "fetch" /\ stage' = "wait" =>
          delay' = Capped(IF calls = 0 THEN InitialDelay ELSE 2 * delay)]_vars

\* A reconcile is not kept by the repository: it gets its chart or fails.
FetchEnds == stage = "fetch" ~> stage \in {"done", "failed", "gaveUp"}

-----------------------------------------------------------------------------
(* Compositions *)

\* What users have written stays, through defaults, upgrades, relabelling and
\* writes in other versions, as long as all versions have the field.
UserValuesKept ==
  \A f \in DOMAIN asked :
    (\A v \in Objects!Served : f \in Objects!Fields(v)) =>
      f \in DOMAIN obj.spec /\ obj.spec[f] = asked[f]

\* Schemas that defaults settle under in two writes: a field is an object in all
\* of them or in none, also in defaults, and of three fields that are in each
\* other one has no default.
ObjectField(f) == \E s \in DOMAIN Schemas : f \in DOMAIN Schemas[s] /\ Schemas[s][f].object
SchemasAgree ==
  \A s \in DOMAIN Schemas : \A f \in DOMAIN Schemas[s] :
    /\ ObjectField(f) => Schemas[s][f].object
    /\ Schemas[s][f].object /\ Schemas[s][f].default # NoDefault =>
         \A g \in DOMAIN Schemas[s][f].default :
           ObjectField(g) => Schemas[s][f].default[g] = Map
NestedTwice ==
  \A s \in DOMAIN Schemas : \A f \in DOMAIN Schemas[s] :
    \A g \in Objects!Around(f) : \A h \in Objects!Around(g) :
      \E k \in {f, g, h} : Schemas[s][k].default = NoDefault

\* Defaults are complete after two writes in a version: the first one may put
\* in the default of an object, the second one what is missing in it.
DefaultsSettle ==
  obj # NoObject =>
    \A v \in Objects!Served :
      LET twice == Objects!Populated(v, Objects!Populated(v, obj.spec))
      IN \A f \in Objects!Fields(v) :
           Objects!HasDefault(v, f) /\ Objects!Parent(f) \in DOMAIN twice \cup {<<>>}
             => f \in DOMAIN twice
=============================================================================
