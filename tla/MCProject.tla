----------------------------- MODULE MCProject -----------------------------
(***************************************************************************)
(* A small project: three files, two of them under a directory, three file *)
(* sets, two checks.                                                       *)
(***************************************************************************)
EXTENDS Project

MCFile == {<<"src", "a">>, <<"src", "gen", "b">>, <<"doc">>}

Expression(first, op, name) == [first |-> first, rest |-> <<[op |-> op, name |-> name]>>]

Directories == {Opaque(<<"src", "gen">>), Opaque(<<"src">>)}

AllSources == Glob({<<"src", "a">>, <<"src", "gen", "b">>})

Alias(n) == Compound([first |-> n, rest |-> <<>>])

\* The third set may be missing, and any may refer to itself or in a circle.
FileSets ==
  {<<d, e, f>> : d \in Directories \cup {AllSources, Alias(2), Compound(Expression(3, "-", 2)),
                   Compound([first |-> 2, rest |-> <<[op |-> "|", name |-> 3], [op |-> "-", name |-> 1]>>])},
                 e \in Directories \cup {AllSources, Alias(3), Compound(Expression(3, "&", 1))},
                 f \in {Opaque(<<"src", "gen">>), AllSources, Alias(1)}}
    \cup {<<d, e>> : d \in {AllSources, Alias(2), Compound(Expression(2, "-", 3))},
                e \in {AllSources, Alias(1), Alias(2), Alias(3)}}

Table(pipeline, declared, skippable) ==
  [pipeline |-> pipeline, command |-> declared, skippable |-> skippable]

Both == [c \in {"lint", "test"} |-> "text"]
OnlyLint == [c \in {"lint", "test"} |-> IF c = "lint" THEN "text" ELSE "none"]

Valid == Table(<<"test", "lint">>, Both, {"lint"})

Tables ==
  {Valid, Table(<<"lint">>, OnlyLint, {}), Table(<<>>, [c \in {"lint", "test"} |-> "none"], {}),
   Table(<<"lint", "lint">>, OnlyLint, {}), Table(<<"lint">>, Both, {"test"}),
   Table(<<"lint", "test">>, OnlyLint, {}), Table(<<"lint">>, OnlyLint, {"test"}),
   Table(<<"lint", "test">>, [Both EXCEPT !["test"] = "blank"], {})}

Small == <<Alias(2), Opaque(<<"src">>)>>

\* All file sets with one table, and all tables with perspectives that name
\* defined and missing sets.
MCBook ==
  {[filesets |-> d, perspective |-> {1}, checks |-> Valid] : d \in FileSets}
    \cup {[filesets |-> Small, perspective |-> p, checks |-> t] : p \in {{2}, {1, 3}}, t \in Tables}

MCGate ==
  {[committed |-> TRUE, pipeline |-> t.pipeline, command |-> t.command, skippable |-> t.skippable] :
     t \in {Valid, Table(<<"lint", "lint">>, OnlyLint, {})}} \cup {NoGate}
=============================================================================
