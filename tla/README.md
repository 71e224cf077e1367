# A verification of python-vibe-guard in TLA+

python-vibe-guard (`src/`) is a static analyser for async Python. It parses a
file, runs twenty rules over the syntax tree, lowers, overrides, sorts and
suppresses what they find, and reports the rest; around that core it has a
baseline of accepted findings, an audit of the suppression comments, and a
review mode that looks at the lines of a git diff only.

What can go wrong in such a program is silent: a finding that is lost, hidden
by the wrong comment, attributed to the wrong line or judged by a stale file.
These modules model the stages where that can happen, TLC checks them on small
instances, and TLAPS proves every safety property of the runs for every instance.

    tlc -workers 2 -config MCBaseline.cfg MCBaseline     one run
    tlapm BaselineProofs.tla                             one module of proofs

## 1. Inventory

| Component | State | Operations | Talks to | What is hard |
|---|---|---|---|---|
| Inline suppressions (`suppressions.py`) | list of directives, map line -> rules | one turn per physical line, one per directive | analyzer, audit | several comments with one target; the line after the last; what a "line" is |
| Analysis pipeline (`analyzer.py`) | the list of findings, two result lists | 20 visitors, 3 severity stages, sort, suppression loop | rules, config, suppressions | five stages mutate one list; which severity wins; inline before config |
| Visitor base (`rules/base.py`) | `_current_async_func`, the Python call stack | visit, descend, return | every rule | save and restore of one field over nested functions and lambdas |
| Rules (`rules/*.py`) | per rule: loop stacks, protection depths, alias sets, memo tables, decorators kept for the end | `visit_*` | visitor base | memo over cyclic call graphs; stacks of loops; names bound in the order of the text; what becomes of a handle or a child later in the function |
| Audit (`audit.py`) | records, exit status | analyse, cross-reference, policy | analyzer, suppressions | orphan or not, for ignored rules and shared targets |
| Baseline (`baseline.py`, `cli.py`) | the JSON file | create, update, scan | every process on the checkout | check and write far apart, truncate and write, kills, edits in between; keys are paths as typed, and only `scan` has `--report-broad-except` |
| Diff parser (`diff.py`) | current file, current line, map | one turn per line of text | git, review | numbers of the new file from text; deletions, renames, odd names |
| Review (`cli.py`) | lines of the diff, results | git, config, two steps per file: is it there, then read it | git, the working tree | the tree moves on after git was asked, and between the two steps |
| Configuration (`config.py`) | ignore list, severities, excludes | find, parse, match | all commands | which file is found, what a pattern means |
| File walk (`analyzer.py`, `config.py`) | directories to visit | walk, exclude, skip tests | scan, baseline, audit | links in a cycle, files that come and go, one decision written in four places |
| Evidence sync (`scripts/sync_evidence.py`) | a directory tree | delete, copy, compare | the wheel build | a crash between delete and copy |
| Massive scan (`validation/run_massive_scan.py`) | clones, raw results, aggregate | clone, scan, checkpoint | git, pyvibe, the network | timeouts, kills, several runs over one directory |
| Output (`sarif.py`, `explain.py`, `autofix.py`, `rule_docs.py`) | none | format | user | formatting only; not modelled |

The correctness properties that follow from this table are in section 4; each
hazard, with its line in the code and the property that covers it, is listed in
`PROJECT.json`.

## 2. Modules

| Module | Models | Correspondence |
|---|---|---|
| `Directives` | the regexes and the target rule of `suppressions.py` | operators on one line; a line is the tokens a directive is read from, whether code precedes them, and how it ends |
| `Suppressions` | the two loops of `suppressions.py` | `ParseLine` is one turn of the first loop, `FoldDirective` of the second |
| `Analyzer` | `analyze_source_full` | `stage` is the program counter; one action per stage, one per visitor step and per turn of the last loop |
| `Audit` | `audit_file`, `summarize`, the policies of `_main_audit` | EXTENDS `Analyzer`: the audit is the analysis, then `BuildRecords` and `Exit` |
| `BaselineLedger` | nothing: the abstract specification of baseline mode | a scan compares all it saw with the ledger at one instant |
| `Baseline` | `_main_baseline`, `_main_scan --baseline`, `baseline.py` | one action per step of a command, for each process; `OpenForWriting` and `WriteText` are the two halves of `write_text`; `Reported` is what a file has under the command's flags; `Kill` at any place; implements `BaselineLedger` |
| `DiffParser` | `parse_diff` | `Read*` are the branches of the loop; the actions are git writing a line, which the parser reads in the same step |
| `AsyncVisitor` | `rules/base.py` | `stack` is the Python call stack of `visit_` methods; `Descend` and `Return` are `generic_visit` and the end of a method |
| `Review` | `_main_review`, `analyze_file` | git, config, two actions per file, and an editor: `PickFile` asks whether the file exists and is excluded, `ReadFile` reads it, and one that was removed in between ends the command with a traceback |
| `GatherContainment` | `_Containment` of the gather rule | `stack` is the Python call stack of `arg_contained`, `awaitable_contained`, `func_contained` and `walk`; `Skip`, `Leak` and `Enter` are the branches of `walk`; `GiveUp`, `Known` and `Analyze` those of the two others; `Unwind` is the way out after `ok[0] = False` |
| `MassiveScan` | `run_massive_scan.py` | `stage` is the program counter of a run; one action per call that can fail or be killed; `clones`, `raw` and `aggregate` outlive the runs |
| `FileSelection` | `find_config_file`, `is_excluded`, `_is_test_file`, `_walk`, `analyze_directory(_full)`, `audit_directory`, the file loops of `_main_scan` and `_main_baseline` | `stage` is the place in a command, `stack` the calls of `_walk`; `VisitDirectory`, `VisitFile` and `Return` are one turn of its loop; `Typed` is the key of a finding, `Asked` the opt-in of PYVIBE-017 by flag or configuration; `Report` writes the baseline or ends with a status; an editor creates and deletes files |
| `BindingRules` | the visitors of PYVIBE-001 to 012 and 014 to 016 | one walk in the order of the source with the fields of all: `scope` those restored on the way out of a function, `file` those that only grow; `Reports` is their `visit_Call`, `VisitWith`, `VisitImported` and `Collected` the other methods, `CheckTasks` the end of `visit_Module` |
| `ContextRules` | the visitors of PYVIBE-017 to 020 | one walk with the fields of the four (`ctx`): `Entered` and `Left` are what the `visit_` methods do before and after `generic_visit`, `Reports` their checks |
| `AuditProofs` | nothing: proofs about `Directives`, `Suppressions`, `Analyzer` and `Audit` | they share the facts about one directive |
| `ReviewProofs` | nothing: proofs about `DiffParser` and `Review` | |
| `BaselineProofs` | nothing: proofs about `Baseline`, its refinement, and `MassiveScan` | |
| `AsyncVisitorProofs`, `ContextRulesProofs`, `BindingRulesProofs`, `GatherContainmentProofs`, `FileSelectionProofs` | nothing: proofs about the module they are named after | |
| `MC*` | the instances TLC checks | |

`Audit` composes `Directives` and `Analyzer`; `FileSelection` runs `scan`,
`baseline` and `audit` one after the other on one tree; `Review` rests on what
`DiffParser` shows: the map of a diff is exact when no header is quoted and no
added line starts with `++ `.

Definitions whose name begins with M (`MKeyWithoutLine`, `MSetOnEntry`, ...)
are plausible mistakes in the definition that follows them. They are not used
in the specifications; each one, put in the place of the original, makes TLC
report the property named in `PROJECT.json`, which shows that the property can
fail. Modules that one proof module extends together have names of their own:
`DiffInit`, `SuppressionsNext`, `ScanSpec` and so on.

### What is abstracted

- Text is never put together. A line is a sequence of tokens, a message is a
  model value, a path is a file and the way the user spelled the target.
- The visitors of `Analyzer` raise any finding at any line; the rules are
  modules of their own.
- `Audit` has one file and one record per directive and rule; the walk over a
  directory adds up the records of its files.
- In `Baseline` a file is the set of findings the analyser has for it, so that
  an edit is a change of that set. The constant `OptIn` says which of them
  PYVIBE-017 has only under `--report-broad-except`; a path is a file and the
  way the target was spelled.
- In `GatherContainment` an awaited expression is the set of functions it
  names: the forms it may have (a list, a comprehension, a nested gather) are
  not told apart, and one that is not understood is `Unknown`. The order in
  which statements and awaitables are looked at is left open.
- In `ContextRules` the names that tell a sleep, a retry variable or a caught
  exception are marks of a node, and so is `except*`, which PYVIBE-019 and 020
  do not look at. The analyser runs the four visitors one after
  the other; they share nothing, so the model walks them together.
- In `FileSelection` a file has a finding, one that is reported only on request
  (`--report-broad-except` or the key of `pyvibe.toml`: the rule is PYVIBE-017,
  the one with an opt-in), one that a comment hides, or none. A path is typed as
  an absolute one or from the working directory, with as few `..` as possible;
  its key tells these apart, as `str(path)` does. An exclude pattern is a path or everything below one. A file whose link
  leads nowhere raises, as `read_text` does; a directory that cannot be read is
  left out. That `create` refuses an existing baseline is in `Baseline`.
- In `BindingRules` a call has the name of its receiver and of its method; the
  methods a rule lists are shortened to two or three. An assignment has one target, a
  `with` one item, a function at most one decorator, and the expressions in
  decorators, defaults and annotations are not nodes. The walk is in the order
  of the source, because the rules depend on it.
- In `MassiveScan` the queries to GitHub give any part of the repositories that
  match, and a result is all findings, some, or none.
- In `Review` the working tree is a sequence of lines per file, and a finding
  is a bad line.

## 3. Properties and runs

| Run | Checks | Bounds, and why they are enough |
|---|---|---|
| `MCSuppressions` | `MapIsComplete`: the map is the one the comments ask for, however they share targets | all texts of two tokens in files of two lines, chosen texts in three: two comments with one target need two lines, and a chain needs three. Proved without bounds |
| `MCAudit` | `NeverSilenced`: each raised finding is in one place at every stage; `SeverityPrecedence`: the configured severity wins, then the downgrades; `ReportOrder`; `OrphanMeansNoFinding`; `OrphansAreInert`: striking out all unused ids changes no suppression; `CleanExit`: what exit 0 means | 1.5 million states. Two findings: order and exchange need two; two rules, one of them blocking; two defs of one name; three lines, so that two comments meet on one target. Proved without bounds |
| `MCBaseline` | `HiddenOnlyIfAccepted`: a scan hides only what a completely written baseline lists; `UnchangedFilesAreClean`: of each file that is as the baseline read it, a scan with the target spelled alike reports nothing, but for what its flag adds; `ImplementsLedger`: refinement | two processes, three commands out of six kinds, one edit, two files, two lines: create or update, a second writer and a reader; a scan of a part, one by an absolute path, one with the flag. Symmetric in the processes. Proved without bounds |
| `MCDiffParser` | `ExactLines` | two files and six line numbers: two hunks with a gap, a deletion, a rename and a neighbour. Proved without bounds, under `Simple` (section 4) |
| `MCAsyncVisitor` | `FieldIsLexicalScope`, `ReportIsExact` | all trees of five nodes: async in lambda in async, with a call behind it. Proved without bounds |
| `MCReview` | `ReviewIsExact`: a review that comes to its report has reviewed exactly the files nobody saved after git ran; `OnlyARemovalStopsIt`: what keeps it from its report is that a file of the diff was removed under it | three files (edited, broken or deleted, excluded), two edits, files of two lines. Proved without bounds |
| `MCGatherContainment` | `VerdictIsExact`: the answer is the greatest fixed point in spite of the memo; `EachFunctionOnce`: recursion ends | 2,646 modules: `f`, `g`, `h` with seven, seven and six bodies, each of four nodes; a cycle of three with a leak behind it, a cycle that two calls enter, a nested and a shadowing `g`, a method; guards by broad, other and cancellation handlers. Proved without bounds |
| `MCMassiveScan` | `FinishedRunAddsUp`; `ClonesAreKept`: no clone is written over; `RunEnds`, a liveness property | three runs, three repositories and one of the reference set, a target of two, a checkpoint at every second result: a clone that fails, one that is left, one more run to meet what two others left. Proved without bounds, but for `RunEnds`; `FinishedRunAddsUp` under `Plain` (section 4) |
| `MCContextRules` | `ContextIsLexical`: depths, flags and loop stack are those of the place; `ReportIsExact` | 1,701 trees: two constructs out of nine (functions, loops, an else branch, a guarded try, a re-raising handler) in a third, around ten pieces of code, with the same piece again outside of them: a restore that is missed shows at the second piece. Proved without bounds |
| `MCFileSelection` | `SelectionIsExact`: a command has looked at each wanted file that stayed, and at no other; `SelectionsAgree`: the copies of the decision in `scan`, `baseline` and `audit` agree; `BaselineCoversScan`: on an unchanged tree the scan of a part, typed alike, reports nothing but what it was asked for and `baseline` was not; `CommandEnds`, a liveness property | seven trees, two commands of sixteen, one edit: a scan by an absolute path, from above the working directory and with `--report-broad-except`; a link to the directory above it, one to an excluded directory under another name, one that leads nowhere; no, one, two nested and a broken `pyvibe.toml`; two commands are what agreement needs. Proved without bounds, but for `CommandEnds` |
| `MCBindingRules` | `ScopeIsLexical`: what a function restores is what belongs to its place; `ReportIsExact`: fifteen rules report exactly the calls that the whole file condemns | 5,847 trees: two scopes (async, def, class or lambda) in each other, code before, in, between and after them; a name bound and bound again in any two places; a child started, awaited, chained or managed in the same or another function; a handle read, handed over, or both; a context variable set and reset; task decorators under imports above and below them. Proved without bounds |

A type invariant is checked in each and proved for every instance. `CHECK_DEADLOCK FALSE` is set
because each of these programs ends.

Two modules state fairness, `WF_vars(Step)`: weak fairness of the program's own
steps. In `MassiveScan` the code justifies it because every `subprocess.run`
has a timeout (30, 120 and 300 seconds), so that each call returns or raises,
and the script is one thread; nothing is assumed of a new run, of a kill, or of
a git whose script is gone. In `FileSelection` a command is one thread that
waits for nobody; nothing is assumed of the next command or of the editor. That
the walk ends is not for the code to thank, which keeps no set of directories
it has visited: the kernel refuses a path with more than `MaxLinks` links (40
on Linux, 2 in the run), and the walk of a cycle stops there. The other
properties are safety properties.

### Where the code and its documents disagree

This run checks one sentence of the repository and finds it violated.

| Run | Sentence | What the code does |
|---|---|---|
| `diff_added_found` | `diff.py:68`: the map has the added line numbers | an added line that begins with `++ ` is read as a file header, and the rest of the file is lost (`diff.py:84`) |

More configurations of the same kind are kept beside the runs, to be run by
hand; TLC reports a violation of each property (with `-continue` where a
configuration has two):

| Configuration | Shows |
|---|---|
| `Suppressions_Disagreements.cfg`, `StandaloneSkipsComments` | a standalone `ignore` aims at the next line, whatever it is, though `cli.py:22` says "the next non-comment line" (`suppressions.py:77`) |
| `Baseline_OldMessageNoLongerMatches.cfg` | the key of an entry has no message, though `CHANGELOG.md:31` says "A baseline entry keyed on an old message no longer matches" (`baseline.py:57`) |
| `Suppressions_Disagreements.cfg`, `TrailingCoversItsOwnLine` | below a form feed, a trailing comment aims one line off (`suppressions.py:58`) |
| `Analyzer_MessageAgreesWithSeverity.cfg` | a CRITICAL with "WARNING, not CRITICAL" in its message, when the configuration raises the rule (`analyzer.py:138`) |
| `Baseline_Disagreements.cfg`, `CreateNeverOverwrites` | `create` overwrites a baseline created while it analysed (`cli.py:521`) |
| `Baseline_Disagreements.cfg`, `SavedIsReadable` | two updates at once both succeed and leave a file that is not JSON (`cli.py:557`) |
| `DiffParser_OnlyAddedLines.cfg` | a form feed in a diff line shifts the numbers (`diff.py:78`) |
| `DiffParser_TouchedFilesAreReviewed.cfg` | a file whose `+++` line git quotes, or ends with a tab, is not in the map, though `diff.py:117` says "for every .py file touched" (`diff.py:13`) |
| `AsyncVisitor_SetOnlyInBody.cfg` | the field is set while decorators, defaults and annotations are visited too, though `base.py:20` says "while visiting its body" (`base.py:34`) |
| `ContextRules_ContinueRetries.cfg` | an `async for` and the else branch of a loop leave the wrong loop on the stack, and a handler is judged by a loop that its `continue` does not resume (`retry_no_backoff.py:212`), though line 181 says "`continue` resumes the innermost loop" |
| `FileSelection_Disagreements.cfg`, `SkipsOnlyTests` | `--no-test-files` also skips `scripts/`, `examples/` and other directories, though `cli.py:104` says "files matching test_*.py, *_test.py, or under tests/ / test/" (`analyzer.py:152`) |
| `FileSelection_Disagreements.cfg`, `UnchangedBaselineExitsZero` | a scan of an unchanged tree against its baseline exits with 1 under `--report-broad-except`, which `baseline` lacks (`cli.py:177`), or when the directory is named another way (`baseline.py:57`), though `README.md:283` of the repository says "an unchanged baseline produces exit code `0`" |
| `BindingRules_ReceiverIsTheModule.cfg` | an import in one function binds the name for every function below it, so that a local object is taken for the module (`async_requests.py:31`), though lines 65 to 68 say that only a receiver "known to be bound to the `requests` module" is flagged |
| `MassiveScan_Disagreements.cfg`, `CrashKeepsProgress` | a second run that is killed has destroyed the first one's aggregate, though line 308 says "so a crash/timeout doesn't lose progress" (`run_massive_scan.py:311`) |
| `MassiveScan_CountedOnce.cfg` | a repository with `__` in its name is scanned and counted twice by the second run, so that `FinishedRunAddsUp` fails (`run_massive_scan.py:237`) |
| `MassiveScan_Disagreements.cfg`, `ScannedIsCloned` | what a clone killed at its timeout left is "already cloned" for the next run (`run_massive_scan.py:280`) |
| `Review_OnlyLinesOfTheDiff.cfg` | a file saved while the review runs has old lines reported (`cli.py:343`, `analyzer.py:292`) |

## 4. Proofs

| Theorem | States | Assumes |
|---|---|---|
| `SuppressionsAreComplete`, `SuppressionsTypes` | `SuppressionsSpec => []MapIsComplete`, `[]SuppressionsTypeOK` | `RuleAssumption`, `FilesAssumption` |
| `PipelineTypes`, `NothingIsSilenced`, `SeverityIsAsPromised`, `ReportIsOrdered` | `Spec => []TypeOK`, `[]NeverSilenced`, `[]SeverityPrecedence`, `[]ReportOrder`, of `Analyzer` | `AnalyzerAssumption`, `InputAssumption`, `RuleAssumption` |
| `AuditTypes`, `AuditAnalyses`, `OrphansHideNothing`, `OrphansCanGo`, `ExitMeansClean` | the same of `AuditSpec`, and `AuditSpec => []OrphanMeansNoFinding`, `[]OrphansAreInert`, `[]CleanExit` | the same and `AuditAssumption` |
| `BaselineTypes`, `HidesOnlyWhatWasAccepted`, `UnchangedFilesScanClean`, `BaselineImplementsLedger` | `Spec => []TypeOK`, `[]HiddenOnlyIfAccepted`, `UnchangedFilesAreClean` (an action property), `ImplementsLedger` | `BaselineAssumption` |
| `ParserTypes`, `ParserIsExact` | `DiffSpec => []ParserTypeOK`; `Simple => (DiffSpec => []ExactLines)` | `PathAssumption`. `Simple`: no quoted or tabbed header, no text that splits or begins with `++ `; the runs and configurations above show that each of these breaks the property |
| `ReviewTypes`, `ReviewReportsTheDiff`, `ReviewEndsInAReport` | `Spec => []TypeOK`, `[]ReviewIsExact`, `[]OnlyARemovalStopsIt`, of `Review` | `ReviewAssumption` |
| `VisitorTypes`, `FieldIsScope`, `WalkIsExact` | `Spec => []TypeOK`, `[]FieldIsLexicalScope`, `[]ReportIsExact`, of `AsyncVisitor` | `NodeAssumption`; `TreesAssumption`: `scope` is the lexical one, and every node hangs from the root |
| `ContextTypes`, `FieldsAreLexical`, `FourRulesAreExact` | `Spec => []TypeOK`, `[]ContextIsLexical`, `[]ReportIsExact`, of `ContextRules` | `NodeAssumption`: finitely many nodes; `TreesAssumption`: what is above a node is the node and what is above its parent |
| `BindingTypes`, `ScopeFollowsTheWalk`, `BindingRulesAreExact` | `Spec => []TypeOK`, `[]ScopeIsLexical`, `[]ReportIsExact`, of `BindingRules` | `TreesAssumption`: the nodes are numbered in the order of the text, and only imports name a module |
| `ContainmentTypes`, `AnswerIsTheFixedPoint`, `NoFunctionTwice` | `Spec => []TypeOK`, `[]VerdictIsExact`, `[]EachFunctionOnce`, of `GatherContainment` | `ProgramAssumption`: finitely many nodes, and a well-formed module |
| `SelectionTypes`, `SelectedExactly`, `CopiesAgree`, `ScanAgainstItsBaseline` | `Spec => []TypeOK`, `[]SelectionIsExact`, `[]SelectionsAgree`, `[]BaselineCoversScan`, of `FileSelection` | `SelectionAssumption`: an entry of a tree stands in a directory of the tree, and names are ranked |
| `ScanTypes`, `ClonesStay`, `RunGetsOn`, `RunsAddUp` | `ScanSpec => []ScanTypeOK`, `ClonesAreKept` (an action property), each step of a run lowers `StepsLeft`; `Plain => (ScanSpec => []FinishedRunAddsUp)` | `ScanAssumption`: no repository is known twice. `Plain`: no name has `__` in it; `MassiveScan_CountedOnce.cfg` shows what happens otherwise |

The assumptions on constants are evaluated by TLC in each run, so that the
instances it checks are instances of the theorems.

The arguments:

- *Suppressions.* The finished map is compared with a definition without loops.
  The invariant says that the directives collected so far are those of the lines
  read, in order, and that the map so far is the union of the directives folded.
  That the first keyword of a line exists and is unique is the least-number
  principle.
- *Pipeline.* `NeverSilenced` is not inductive: where a finding may be depends
  on the stage. The invariant (`StagesInv`) says for each stage which findings
  are in the list, what the stages so far have done to their severity, and that
  the sorted list is a permutation in order; the last loop has split a prefix of
  it.
- *Audit.* The audit runs on top, so each of its steps is a step of the analyser
  or leaves it alone, and `StagesInv` carries over. `RecordsInv` says that the
  records are those of the file's directives. `CleanExit` compares the number of
  unused records with a limit, so its proof shows that a file has finitely many.
- *Striking out orphans.* `OrphansAreInert` reads the file twice, as it is and
  without the ids the audit calls unused. Striking an id out moves no token, so
  the keyword of each line and the line it aims at stay; a line loses exactly
  the ids that no finding of its target needs, and a finding that was hidden is
  hidden by an id that some finding needs. The ids are replaced and not taken
  away: an id in front of the keyword is prose to the parser, and with it gone
  another word would be the first.
- *Baseline.* `HiddenOnlyIfAccepted` is not inductive: what a scan hides depends
  on the file, so the invariant adds that a file that is JSON holds the entries
  of a member of `written`, and that an answered scan hid only keys of such a
  member. The refinement maps the file to the ledger: readable when it is JSON.
  Each step is shown to be a step of the ledger or a stutter, with the type
  invariant of both states.
- *Unchanged files.* `UnchangedFilesAreClean` compares a scan with a command that
  ended before it, perhaps of another process, perhaps in mid-walk while files
  were edited, so each file has a version of its own. The invariant (`SnapInv`)
  says how far each command is in its files (`Progress`) and speaks of readings,
  which are what a command has collected so far and what the baseline holds: two
  readings of one version of a file agree on its findings, those apart that need
  the flag, and one of the present version is right (`Snapshots`). An edit makes
  a version of its file that nobody has read.
- *Diff parser.* The invariant (`InStep`) says that while the body of a plain
  file is being written, the parser's file is git's and its line is git's next
  line, and that it has no file everywhere else.
- *Review.* The invariant (`StageInv`) says, in each stage, of the files nobody has
  saved since git was asked: the numbers in `changed` are those of the new lines
  the file has now, and what is reported of it is all or, while it is in `todo`
  or being read, nothing. The file that is being read was there and not excluded
  when it was picked, so that when nobody has touched it, it still is: if it is
  gone, it was removed.
- *Visitor.* The invariant says of each frame what the field was when it was
  entered, so that what a return restores is what the frame below expects. For
  `ReportIsExact` it adds which nodes have been seen: a child that is not in
  `todo` has been seen, and the frames form a path. At the end the set of seen
  nodes holds the root and the children of its members, so by `Rooted` it is
  all of `Node`.
- *Context rules.* The same for fields that are depths, flags and a stack of
  loops (`Nested`): each is a number or a set of enclosing nodes, which differs
  from that of the parent by what the node itself adds, and `Left` takes just
  that away. A report belongs to a place that is behind the walk or still
  pending (`ReportedSoFar`); at the end nothing is pending. That a set which
  holds the root and the children of its members holds every node is an
  induction over the number of nodes above one, for which a tree is finite.
- *Binding rules.* These depend on the order of the text. The walk has visited
  the nodes `1..k` (`Frontier`): a call of the stack has the children above `k`
  left, no node above `k` was visited. The fields that only grow are the summary
  of these nodes, and the reports are what each of them says on the summary of
  the nodes before it (`Reached`). Each rule then compares that summary with the
  whole file, such as the last import of a name above the call.
- *Gather.* A function is assumed to be contained when the memo says so or when
  it is being analysed. The invariant (`GInv`) says that each own node of an
  assumed function is harmless, or a frame of the stack still has to come to
  it, where an awaited function counts as harmless when it is assumed. When the
  gather call itself returns there are no frames left: the assumed functions
  are a closed set, the witness `Contained` asks for. In the other direction,
  each function at work belongs to every closed set that the gathered functions
  belong to, so that none is left when one of them leaks. For the types, the
  functions around a node are a chain, so that the innermost exists.
- *File selection.* Links may form a cycle, so one file has many paths, and the
  invariant speaks of paths. Each call of `_walk` is at a directory the walk may
  come to (`Frames`). What the command has looked at was wanted, and was a file
  unless somebody touched it (`NoneElse`); a wanted file nobody has touched was
  looked at, or is below a directory some call still has to come to (`AllFound`).
  The lemmas about paths under it (what a path leads to through links, and that
  the walk can come to each wanted file) are inductions over the length of a
  path, by the least-number principle. The second half (`Records`) is about the
  commands that have ended since the tree last changed: each has looked at what
  it would choose now, the keys in the saved baseline are those of the last
  `baseline`, as typed, and no scan against it that is named alike had anything
  new but what it alone was asked for.
- *Massive scan.* A run is at one of its repositories, and a git it waits for is
  at work there (`InStep`); that is enough for `ClonesAreKept`. The books of a
  run (`Books`): what is behind the loop was scanned or failed, each result is
  of a repository behind the loop, no two of one directory. They need that the
  run set out for different directories (`Apart`), which is the reason for
  `Plain`: the list of a run is made from directories and from names, and the
  two are compared as names. `StepsLeft` is ten for each repository ahead and
  the place of the stage within one; a finished or failed clone is at least
  one step, so every step of the script lowers it.

Only model-checked: `RunEnds` and `CommandEnds`, which are liveness properties,
and liveness is out of reach of the provers at hand. Of `RunEnds` the part that
is safety is proved (`RunGetsOn`): what is left to fairness is that a step is
taken, and in each stage that is not a resting one the guard of one step holds.
For `CommandEnds` there is no such theorem: how long a walk through a cycle of
links lasts depends on `MaxLinks` and on the tree, and the measure would have to
be exponential in it. The run and the configurations of section 3 that find a
violation are counterexamples, with nothing to prove.

## 5. Not modelled

- Argument parsing, printing, JSON and SARIF output, `explain`, the suggested
  fixes, the wheel test and the demo: they format a finished result, or are no
  part of the program.
- `scripts/sync_evidence.py`: it deletes a directory and copies another over it.
  A run that is killed in between leaves files missing; `--check` compares the
  two trees by content and says so, and the next run begins anew. No state
  outlives the two steps.
- Directories that cannot be read: `iterdir` raises and the command ends with a
  traceback, whatever was found before.
- The forms of an awaited expression in the gather rule, as said above.

## 6. Plan

1. A measure for `CommandEnds`, so that of both liveness properties only the
   fairness is left to TLC.
2. Theorems across modules: that the findings `Audit` ends with are those of the
   map `Suppressions` builds, and that `Review` of what `DiffParser` returns
   reports the added lines of the diff itself.
3. Exactness where an assumption is in the way: what of `ExactLines` is left for
   a diff with quoted headers, and what of `FinishedRunAddsUp` without `Plain`.
