--------------------------- MODULE MCFileSelection ---------------------------
EXTENDS FileSelection

MCName == {"repo", "src", "venv", "tests", "scripts", "loop", "lib", "gone", "m.py", "test_m.py"}
MCOrder == <<"gone", "lib", "loop", "m.py", "repo", "scripts", "src", "test_m.py", "tests", "venv">>
MCRank == [n \in MCName |-> CHOOSE i \in 1..10 : MCOrder[i] = n]
MCPyName == {"m.py", "test_m.py"}
MCTestName == {"test_m.py"}
MCNonprodSegments == {"tests", "scripts"}
MCDefaultExcludes == {"venv"}
MCCwd == <<"repo">>

Repo(p) == <<"repo">> \o p
Src == Repo(<<"src">>)
SrcFile == Repo(<<"src", "m.py">>)
Tests == Repo(<<"tests">>)
Scripts == Repo(<<"tests", "scripts">>)
ScriptFile == Repo(<<"tests", "scripts", "m.py">>)
Venv == Repo(<<"venv">>)
VenvFile == Repo(<<"venv", "m.py">>)

Toml(x) == [broken |-> FALSE, ignore |-> FALSE, broad |-> FALSE, exclude |-> x]
Below(p) == [path |-> p, below |-> TRUE]
Exactly(p) == [path |-> p, below |-> FALSE]
At(d, c) == [e \in {d} |-> c]

\* A repository with an environment, tests, and scripts among them; src/m.py is
\* hushed, the test has an `except Exception: pass`.  Its configurations, or none: one
\* that excludes a directory's files, one more in src, a broken one, one that asks for
\* the test's finding.
Plain(configs) ==
  [dirs |-> {<<>>, Repo(<<>>), Src, Tests, Scripts, Venv}, links |-> <<>>,
   files |-> [f \in {SrcFile, ScriptFile, VenvFile, Repo(<<"test_m.py">>)} |->
                CASE f = SrcFile -> "hushed"
                  [] f = Repo(<<"test_m.py">>) -> "broad"
                  [] OTHER -> "finding"],
   configs |-> configs]

\* A link to the directory above it, one to the environment under another name, and
\* one that leads nowhere.
Linked(dangling) ==
  [dirs |-> {<<>>, Repo(<<>>), Src, Venv},
   links |-> [l \in {Repo(<<"src", "loop">>), Repo(<<"lib">>)} \cup dangling |->
                IF l = Repo(<<"lib">>) THEN Venv
                ELSE IF l \in dangling THEN Repo(<<"gone">>) ELSE Repo(<<>>)],
   files |-> [f \in {SrcFile, VenvFile} |-> "finding"],
   configs |-> At(Repo(<<>>), Toml({Exactly(<<"venv", "m.py">>)}))]

MCTrees ==
  {Plain(<<>>),
   Plain(At(Repo(<<>>), Toml({Below(<<"tests", "scripts">>), Exactly(<<"src">>)}))),
   Plain([d \in {Repo(<<>>), Src} |-> [Toml({}) EXCEPT !.broken = (d = Src)]]),
   Plain([d \in {Repo(<<>>), Tests} |-> [Toml({}) EXCEPT !.ignore = (d = Tests)]]),
   Plain(At(Repo(<<>>), [Toml({}) EXCEPT !.broad = TRUE])),
   Linked({}), Linked({Repo(<<"src", "test_m.py">>)})}

Cmd(k, t, x, n, f) == [kind |-> k, target |-> t, absolute |-> FALSE, exclude |-> x,
                       no_tests |-> n, filter |-> f, broad |-> FALSE]
Filtered(t) == Cmd("scan", t, {}, FALSE, TRUE)
MCCommands ==
  {Cmd("baseline", Repo(<<>>), {}, n, FALSE) : n \in BOOLEAN}
  \cup {Cmd("baseline", Tests, {}, TRUE, FALSE), Cmd("scan", Tests, {}, TRUE, TRUE)}
  \cup {Cmd("audit", Repo(<<>>), {}, FALSE, FALSE)}
  \cup {Filtered(t) :
          t \in {<<>>, Repo(<<>>), Scripts, ScriptFile, VenvFile, Repo(<<"src", "loop", "src">>)}}
  \cup {[Filtered(Repo(<<>>)) EXCEPT !.absolute = TRUE], [Filtered(Repo(<<>>)) EXCEPT !.broad = TRUE]}
  \cup {Cmd("scan", SrcFile, {"src"}, TRUE, TRUE), Cmd("scan", Repo(<<>>), {"src"}, TRUE, FALSE),
          Cmd("scan", Scripts, {}, TRUE, FALSE)}
MCEdited == {ScriptFile, Repo(<<"src", "test_m.py">>)}
=============================================================================
