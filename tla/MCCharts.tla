------------------------------- MODULE MCCharts -------------------------------
EXTENDS AppliedDefaults
CONSTANTS v1, v2, s1, s2, none, one
\* Archives with the chart's files only, with its directory before them or after
\* one of them, with a file repeated, and with a file beside the directory.
File(name, x) == [path |-> <<"chart", name>>, dir |-> FALSE, data |-> x]
Readme == [path |-> <<"README.md">>, dir |-> FALSE, data |-> NoData]
TheDir == Dir(<<"chart">>)
SomeArchives == {
  <<File("Chart.yaml", v1), File("values.schema.json", s1)>>,
  <<TheDir, File("Chart.yaml", v2), File("values.schema.json", s2)>>,
  <<File("Chart.yaml", v2), TheDir, File("values.schema.json", s2)>>,
  <<File("Chart.yaml", v1), File("values.schema.json", s2), File("Chart.yaml", v2)>>,
  <<File("Chart.yaml", v2), File("values.schema.json", s2), Readme>>}
\* An object without a default and one with, each with a default inside; the
\* second schema has a field more, that the default of its object does not have.
Object(d) == [object |-> TRUE, default |-> d]
Leaf(d) == [object |-> FALSE, default |-> d]
Common(f) ==
  CASE f = <<"a">> -> Object(none) [] f = <<"a", "x">> -> Leaf(one)
    [] f = <<"b">> -> Object([g \in {<<"b", "y">>} |-> one])
    [] f = <<"b", "z">> -> Leaf(one) [] OTHER -> Leaf(none)
SomeSchemas ==
  [s \in {s1, s2} |->
     [f \in {<<"a">>, <<"a", "x">>, <<"b">>, <<"b", "y">>}
            \cup (IF s = s1 THEN {} ELSE {<<"b", "z">>}) |-> Common(f)]]
ASSUME SettlingAssumption == SchemasAgree /\ NestedTwice
=============================================================================
