---------------------------- MODULE FileSelection ----------------------------
(***************************************************************************)
(* Which files a command looks at: the search for pyvibe.toml              *)
(* (pyvibe/config.py), the walk over a directory and the skipping of files *)
(* (pyvibe/analyzer.py), written once more for `baseline` in pyvibe/cli.py *)
(* and for `audit` in pyvibe/audit.py.  Commands run one after the other   *)
(* on a tree with symbolic links, while an editor creates and deletes      *)
(* files.                                                                  *)
(***************************************************************************)
EXTENDS Naturals, Sequences, SequencesExt

CONSTANTS Name, PyName, TestName, \* names; with the suffix .py; test_*, *_test, conftest
          Rank,                  \* the order of the names
          NonprodSegments, DefaultExcludes,
          Trees, Commands,
          Cwd,                   \* where the commands are run
          MaxLinks,              \* the links the kernel follows in one path (40 on Linux)
          Edited,                \* the files the editor creates and deletes
          MaxCommands, MaxEdits  \* bounds

Path == Seq(Name)

\* What [tool.pyvibe] has: is the rule ignored, is it to report `except Exception: pass`
\* (broad), and the patterns, "dir/**" (below) or a path; broken if tomllib or a
\* severity is refused.  The rule is PYVIBE-017, the one that has an opt-in.
Config == [broken : BOOLEAN, ignore : BOOLEAN, broad : BOOLEAN,
           exclude : SUBSET [path : Path, below : BOOLEAN]]

\* A file has a finding, one that is reported only when asked for, one under a comment
\* that ignores it, or nothing.
\* Links lead from a path to the real path of their target, which may be missing.
\* What has a name is in a directory.
Content == {"clean", "finding", "broad", "hushed"}
IsTree(t) ==
  LET nodes == t.dirs \cup DOMAIN t.files \cup DOMAIN t.links
  IN  /\ t = [dirs |-> t.dirs, links |-> t.links, files |-> t.files, configs |-> t.configs]
      /\ nodes \subseteq Path /\ \A l \in DOMAIN t.links : t.links[l] \in Path
      /\ \A f \in DOMAIN t.files : t.files[f] \in Content
      /\ \A d \in DOMAIN t.configs : t.configs[d] \in Config
      /\ \A q \in nodes : IF q = <<>> THEN q \in t.dirs ELSE Front(q) \in t.dirs
      /\ t.dirs \cap DOMAIN t.files = {} /\ DOMAIN t.links \cap (t.dirs \cup DOMAIN t.files) = {}
      /\ DOMAIN t.configs \subseteq t.dirs

\* The target is typed as an absolute path or as one from Cwd; filter and broad are
\* --baseline and --report-broad-except, of `scan` alone.
Command == [kind : {"scan", "baseline", "audit"}, target : Path, absolute : BOOLEAN,
            exclude : SUBSET Name, no_tests : BOOLEAN, filter : BOOLEAN, broad : BOOLEAN]

ASSUME SelectionAssumption ==
  /\ PyName \subseteq Name /\ TestName \subseteq PyName
  /\ Rank \in [Name -> Nat] /\ MaxLinks \in Nat /\ MaxCommands \in Nat /\ MaxEdits \in Nat
  /\ \A t \in Trees : IsTree(t)
  /\ Commands # {} /\ Commands \subseteq Command
  /\ \A c \in Commands : /\ c.kind = "audit" => ~c.no_tests
                         /\ c.filter \/ c.broad => c.kind = "scan"
  /\ Edited \subseteq Path \ {<<>>}

VARIABLES tree, edits,
          command, stage,   \* the running command and where it is
          stack,            \* the calls of _walk that have not returned, innermost last
          looked,           \* the paths it has analysed, and what it found there
          touched,          \* history: the files created or deleted since it started
          exit,             \* its exit status
          saved, accepted,  \* is there a baseline, and the findings in it, by path as typed
          runs,             \* counter for the bound
          last              \* history: the commands that ran on the tree as it is now
vars == <<tree, edits, command, stage, stack, looked, touched, exit, saved, accepted, runs, last>>
kept == <<tree, edits, touched, runs>>

Frame  == [path : Path, todo : SUBSET Name]
PyPath == {p \in Path : Last(p) \in PyName}
Record == [path : PyPath, content : Content]

\* The directory the paths of a command are written from: the root, or the one a path
\* with as few ".." as possible leaves Cwd for.  What str(path) tells apart.
Base(c) == IF c.absolute THEN <<>> ELSE LongestCommonPrefix({c.target, Cwd})
Typed(c, p) == [absolute |-> c.absolute, from |-> Base(c), path |-> p]

TypeOK ==
  /\ IsTree(tree)
  /\ edits \in 0..MaxEdits /\ runs \in 0..MaxCommands
  /\ command \in Commands
  /\ stage \in {"idle", "config", "target", "walk", "report"}
  /\ stack \in Seq(Frame) /\ (stage = "walk") = (stack # <<>>)
  /\ looked \subseteq Record
  /\ \A k \in accepted : k.path \in PyPath /\ \E c \in Commands : k = Typed(c, k.path)
  /\ exit \in {"none", "exit 0", "exit 1", "exit 2", "traceback"}
  /\ saved \in BOOLEAN /\ (accepted # {} => saved)

-----------------------------------------------------------------------------
\* The file system: where a path leads, and how many links are followed on it.
Locate(links, p) ==
  LET step[i \in 0..Len(p)] ==
        IF i = 0 THEN [at |-> <<>>, hops |-> 0]
        ELSE LET w == step[i - 1]
                 q == Append(w.at, p[i])
             IN  IF q \in DOMAIN links THEN [at |-> links[q], hops |-> w.hops + 1]
                                       ELSE [w EXCEPT !.at = q]
  IN  step[Len(p)]
Real(p)   == Locate(tree.links, p).at
Opens(p)  == Locate(tree.links, p).hops <= MaxLinks
IsDir(p)  == Opens(p) /\ Real(p) \in tree.dirs
IsFile(p) == Opens(p) /\ Real(p) \in DOMAIN tree.files
Entries(p) == {n \in Name : Append(Real(p), n) \in tree.dirs \cup DOMAIN tree.files \cup DOMAIN tree.links}

\* find_config_file: the nearest directory above the target, links resolved.
Homes(target) == {d \in DOMAIN tree.configs : IsPrefix(d, Real(target))}
Nearest(homes) == CHOOSE d \in homes : \A e \in homes : IsPrefix(e, d)
Home(target)  == Nearest(Homes(target))

\* is_excluded: the path is resolved and must be below the configuration's.
IsExcluded(p, target) ==
  /\ Homes(target) # {} /\ IsPrefix(Home(target), Real(p))
  /\ LET rel == SubSeq(Real(p), Len(Home(target)) + 1, Len(Real(p)))
     IN  \E x \in tree.configs[Home(target)].exclude :
           IF x.below THEN IsStrictPrefix(x.path, rel) ELSE rel = x.path

\* _scan_relative: the target's own name and the directories inside it; of a single
\* file, its directory as it was typed.
Segments(p, c) ==
  IF p # c.target THEN {p[i] : i \in (Len(c.target)..(Len(p) - 1)) \ {0}}
  ELSE IF Front(p) = Base(c) THEN {} ELSE {p[Len(p) - 1]}

\* _is_test_file
IsTestFile(p, c) == Last(p) \in TestName \/ Segments(p, c) \cap NonprodSegments # {}

Excludes == DefaultExcludes \cup command.exclude

\* The same decision, in analyze_directory_full, in _main_baseline, in audit_directory.
ScanSkips(p) == \/ command.no_tests /\ IsTestFile(p, command)
                \/ IsExcluded(p, command.target)

MBaselineKeepsTests(p) == IsExcluded(p, command.target)

MBaselineSkipsTests(p) == IsTestFile(p, command) \/ IsExcluded(p, command.target)

BaselineSkips(p) == \/ command.no_tests /\ IsTestFile(p, command)
                    \/ IsExcluded(p, command.target)

AuditSkips(p) == IsExcluded(p, command.target)

Skips(p) == CASE command.kind = "scan"     -> ScanSkips(p)
              [] command.kind = "baseline" -> BaselineSkips(p)
              [] command.kind = "audit"    -> AuditSkips(p)

-----------------------------------------------------------------------------
Init ==
  /\ tree \in Trees /\ command = CHOOSE c \in Commands : TRUE
  /\ edits = 0 /\ runs = 0
  /\ stage = "idle" /\ exit = "none"
  /\ stack = <<>> /\ looked = {} /\ touched = {}
  /\ saved = FALSE /\ accepted = {} /\ last = <<>>

Ends(status) == stage' = "idle" /\ exit' = status /\ stack' = <<>>

\* A command begins; its target must exist.
Begin(c) ==
  /\ stage = "idle" /\ runs < MaxCommands
  /\ command' = c /\ runs' = runs + 1
  /\ looked' = {} /\ touched' = {}
  /\ IF Opens(c.target) /\ Real(c.target) \in tree.dirs \cup DOMAIN tree.files
       THEN stage' = "config" /\ exit' = "none" /\ UNCHANGED stack
       ELSE Ends("exit 2")
  /\ UNCHANGED <<tree, edits, saved, accepted, last>>

\* _load_config_or_exit
LoadConfig ==
  /\ stage = "config"
  /\ IF Homes(command.target) # {} /\ tree.configs[Home(command.target)].broken
       THEN Ends("exit 2")
       ELSE stage' = "target" /\ UNCHANGED <<exit, stack>>
  /\ UNCHANGED <<kept, command, looked, saved, accepted, last>>

\* path.read_text() and the analysis.
Analyze(p) ==
  IF IsFile(p)
    THEN looked' = looked \cup {[path |-> p, content |-> tree.files[Real(p)]]} /\ UNCHANGED exit
    ELSE UNCHANGED looked /\ exit' = "traceback"

\* A target that is a file is looked at, whatever directory it is in; one that is gone
\* is taken for a directory, and listing it fails.
TargetIsFile ==
  /\ stage = "target" /\ ~IsDir(command.target)
  /\ IF IsFile(command.target) /\ (Last(command.target) \notin PyName \/ Skips(command.target))
       THEN stage' = "report" /\ UNCHANGED <<exit, looked>>
       ELSE Analyze(command.target) /\ stage' = IF IsFile(command.target) THEN "report" ELSE "idle"
  /\ UNCHANGED <<kept, command, stack, saved, accepted, last>>

TargetIsDirectory ==
  /\ stage = "target" /\ IsDir(command.target)
  /\ stage' = "walk"
  /\ stack' = <<[path |-> command.target, todo |-> Entries(command.target)]>>
  /\ UNCHANGED <<kept, command, exit, looked, saved, accepted, last>>

Top == stack[Len(stack)]
\* sorted(root.iterdir())
Least(n) == n \in Top.todo /\ \A m \in Top.todo : Rank[n] <= Rank[m]
Without(n) == [stack EXCEPT ![Len(stack)].todo = @ \ {n}]

MVisitOwnExcludes(n) ==
  /\ stage = "walk" /\ Least(n)
  /\ LET p == Append(Top.path, n)
     IN  /\ IsDir(p)
         /\ stack' = IF n \in command.exclude THEN Without(n)
                     ELSE Append(Without(n), [path |-> p, todo |-> Entries(p)])
  /\ UNCHANGED <<kept, command, stage, exit, looked, saved, accepted, last>>

\* _walk: a directory is entered unless its name is excluded.
VisitDirectory(n) ==
  /\ stage = "walk" /\ Least(n)
  /\ LET p == Append(Top.path, n)
     IN  /\ IsDir(p)
         /\ stack' = IF n \in Excludes THEN Without(n)
                     ELSE Append(Without(n), [path |-> p, todo |-> Entries(p)])
  /\ UNCHANGED <<kept, command, stage, exit, looked, saved, accepted, last>>

MVisitSkippedAgain(n) ==
  /\ stage = "walk" /\ Least(n)
  /\ LET p == Append(Top.path, n)
     IN  /\ ~IsDir(p)
         /\ IF n \notin PyName \/ Skips(p)
              THEN UNCHANGED <<stack, stage, exit, looked>>
              ELSE /\ Analyze(p)
                   /\ IF IsFile(p) THEN stack' = Without(n) /\ UNCHANGED stage
                                   ELSE stack' = <<>> /\ stage' = "idle"
  /\ UNCHANGED <<kept, command, saved, accepted, last>>

VisitFile(n) ==
  /\ stage = "walk" /\ Least(n)
  /\ LET p == Append(Top.path, n)
     IN  /\ ~IsDir(p)
         /\ IF n \notin PyName \/ Skips(p)
              THEN stack' = Without(n) /\ UNCHANGED <<stage, exit, looked>>
              ELSE /\ Analyze(p)
                   /\ IF IsFile(p) THEN stack' = Without(n) /\ UNCHANGED stage
                                   ELSE stack' = <<>> /\ stage' = "idle"
  /\ UNCHANGED <<kept, command, saved, accepted, last>>

MReturnToNothing ==
  /\ stage = "walk" /\ stack # <<>> /\ Top.todo = {}
  /\ stack' = SubSeq(stack, 1, Len(stack) - 1)
  /\ stage' = IF Len(stack) = 0 THEN "report" ELSE "walk"
  /\ UNCHANGED <<kept, command, exit, looked, saved, accepted, last>>

Return ==
  /\ stage = "walk" /\ Top.todo = {}
  /\ stack' = SubSeq(stack, 1, Len(stack) - 1)
  /\ stage' = IF Len(stack) = 1 THEN "report" ELSE "walk"
  /\ UNCHANGED <<kept, command, exit, looked, saved, accepted, last>>

\* What is reported: an ignored rule is not, and `except Exception: pass` is when the
\* flag or the configuration asks for it.  A baseline holds paths as they were typed.
Ignored  == Homes(command.target) # {} /\ tree.configs[Home(command.target)].ignore
Asked(c) == c.broad \/ (Homes(c.target) # {} /\ tree.configs[Home(c.target)].broad)
Findings == {r \in looked : ~Ignored /\ (r.content = "finding" \/ (r.content = "broad" /\ Asked(command)))}
New      == {r \in Findings : command.filter => Typed(command, r.path) \notin accepted}

\* The walk is over: the baseline is written, or what is not in it is reported.
Report ==
  /\ stage = "report"
  /\ Ends(CASE command.kind # "scan"          -> "exit 0"
            [] command.filter /\ ~saved       -> "exit 2"
            [] New # {}                       -> "exit 1"
            [] OTHER                          -> "exit 0")
  /\ IF command.kind = "baseline"
       THEN saved' = TRUE /\ accepted' = {Typed(command, r.path) : r \in Findings}
       ELSE UNCHANGED <<saved, accepted>>
  /\ last' = IF touched = {} THEN Append(last, [command |-> command, looked |-> looked,
                                                new |-> New, exit |-> exit'])
                             ELSE last
  /\ UNCHANGED <<kept, command, looked>>

\* The editor creates or deletes a file.
Edit ==
  /\ edits < MaxEdits /\ edits' = edits + 1
  /\ \E f \in Edited :
       /\ Front(f) \in tree.dirs /\ f \notin tree.dirs \cup DOMAIN tree.links
       /\ tree' = IF f \in DOMAIN tree.files
                    THEN [tree EXCEPT !.files = [g \in DOMAIN @ \ {f} |-> @[g]]]
                    ELSE [tree EXCEPT !.files = [g \in DOMAIN @ \cup {f} |->
                                                   IF g = f THEN "finding" ELSE @[g]]]
       /\ touched' = touched \cup {f}
  /\ last' = <<>>
  /\ UNCHANGED <<command, stage, stack, looked, exit, saved, accepted, runs>>

Step == \/ LoadConfig \/ TargetIsFile \/ TargetIsDirectory \/ Return \/ Report
        \/ \E n \in Name : VisitDirectory(n) \/ VisitFile(n)
Next == (\E c \in Commands : Begin(c)) \/ Step \/ Edit

Spec == Init /\ [][Next]_vars /\ WF_vars(Step)

-----------------------------------------------------------------------------
(***************************************************************************)
(* Properties                                                              *)
(***************************************************************************)

\* What the command's words ask for: a .py file below the target, in no directory
\* of an excluded name below it, and neither a test to be skipped nor excluded.
Wanted(p) ==
  /\ IsPrefix(command.target, p) /\ Last(p) \in PyName
  /\ \A i \in (Len(command.target) + 1)..(Len(p) - 1) : p[i] \notin Excludes
  /\ ~(command.no_tests /\ IsTestFile(p, command))
  /\ ~IsExcluded(p, command.target)

\* A command that comes to its end has looked at each wanted file that was there
\* all the time, and at nothing that is not wanted, whatever the links and edits.
SelectionIsExact ==
  stage = "report" =>
    /\ \A f \in DOMAIN tree.files \ touched :
         Wanted(f) => [path |-> f, content |-> tree.files[f]] \in looked
    /\ \A r \in looked : Wanted(r.path)

\* The command a has the whole range of the command c: c begins at or below a's
\* target, in no directory a skips, with the same pyvibe.toml and at least a's
\* exclusions.
Covers(a, c) ==
  /\ IsPrefix(a.target, c.target)
  /\ \A i \in (Len(a.target) + 1)..Len(c.target) : c.target[i] \notin DefaultExcludes \cup a.exclude
  /\ Homes(a.target) = Homes(c.target)
  /\ a.exclude \subseteq c.exclude
  /\ a.no_tests => c.no_tests /\ a.target = c.target /\ a.absolute = c.absolute

\* The three copies of the selection agree: on one tree, `scan`, `baseline` and
\* `audit` look at the same files, and from a target above at no fewer.
SelectionsAgree ==
  \A i, j \in 1..Len(last) :
    Covers(last[i].command, last[j].command) => last[j].looked \subseteq last[i].looked

\* Their paths are written alike: both from the root, or both from one directory.
SameSpelling(a, c) == a.absolute = c.absolute /\ Base(a) = Base(c)

\* The run j is a scan against the baseline that the run i saved.
Against(i, j) == /\ i < j /\ last[i].command.kind = "baseline"
                 /\ last[j].command.kind = "scan" /\ last[j].command.filter
                 /\ \A k \in (i + 1)..j : last[k].command.kind # "baseline"

\* On the tree a baseline was created from, a scan of it or of a part of it, typed alike,
\* reports nothing but what it was asked for and `baseline`, which has no such flag,
\* was not; it exits with 0 unless there is such a finding.
BaselineCoversScan ==
  \A i, j \in 1..Len(last) :
    LET a == last[i].command
        c == last[j].command
    IN  Against(i, j) /\ Covers(a, c) /\ SameSpelling(a, c) =>
          /\ \A r \in last[j].new : r.content = "broad" /\ Asked(c) /\ ~Asked(a)
          /\ last[j].exit = IF last[j].new = {} THEN "exit 0" ELSE "exit 1"

\* Each command ends, even if a link leads back to a directory above it.
CommandEnds == (stage # "idle") ~> (stage = "idle")

\* cli.py:104: --no-test-files skips "files matching test_*.py, *_test.py, or under
\* tests/ / test/".
SkipsOnlyTests ==
  stage = "report" /\ ~IsExcluded(command.target, command.target) =>
    \A f \in DOMAIN tree.files \ touched :
      \/ \E r \in looked : r.path = f
      \/ ~IsPrefix(command.target, f) \/ Last(f) \in TestName \/ IsExcluded(f, command.target)
      \/ \E i \in (Len(command.target)..(Len(f) - 1)) \ {0} : f[i] \in {"tests", "test"} \cup Excludes

\* README.md:284, "an unchanged baseline produces exit code `0`", of a scan with any
\* flags and by any name of the directory.
UnchangedBaselineExitsZero ==
  \A i, j \in 1..Len(last) :
    Against(i, j) /\ Covers(last[i].command, last[j].command) => last[j].exit = "exit 0"
=============================================================================
