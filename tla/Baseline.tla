------------------------------ MODULE Baseline ------------------------------
(***************************************************************************)
(* Baseline mode: `pyvibe baseline create|update` and `pyvibe scan         *)
(* --baseline` (pyvibe/baseline.py, _main_baseline, _main_scan and         *)
(* _apply_baseline_filter in pyvibe/cli.py), run by several processes      *)
(* (developers, hooks, CI jobs on one checkout) while an editor changes    *)
(* the tree.  A command analyses file after file; the baseline file is     *)
(* truncated, then written; a process can be killed anywhere.              *)
(***************************************************************************)
EXTENDS Naturals, FiniteSets

CONSTANTS Process,
          File,        \* 1..n, in the order the walk yields them
          Rule, MaxLine, Message,
          Spelling,    \* ways to write the target on the command line
          OptIn,       \* the findings PYVIBE-017 has only under --report-broad-except
          Commands,    \* the commands a process may be given
          MaxEdits,    \* bound: edits of the tree
          MaxRuns      \* bound: commands started

Finding == [rule_id : Rule, line : 1..MaxLine, message : Message]
\* str(path) depends on how the target was written: src/a.py below an absolute target
\* has another key than below a relative one.
Path  == Spelling \X File
Entry == Path \X Finding
Kind  == {"create", "update", "scan"}

\* selected: the files the walk yields under the command's flags; broad:
\* --report-broad-except, a flag of `scan` only.  (OptIn = {} is a tree whose
\* pyvibe.toml sets report_broad_except, where no finding needs the flag.)
Command == [kind : Kind, spelling : Spelling, selected : SUBSET File, broad : BOOLEAN]

ASSUME BaselineAssumption ==
  /\ File \subseteq Nat /\ IsFiniteSet(File)
  /\ MaxLine \in Nat /\ MaxEdits \in Nat /\ MaxRuns \in Nat
  /\ Commands \subseteq Command /\ Commands # {} /\ Spelling # {}
  /\ \A c \in Commands : c.broad => c.kind = "scan"
  /\ OptIn \subseteq Finding

\* Not a version: the file was not read.
NoVersion == MaxEdits + 1

VARIABLES tree,       \* the findings each file has, as the analyzer would report them
          disk,       \* the baseline file
          pc, cmd,    \* of each process: where it is, and the command it runs
          todo,       \* of each process: the files it has still to analyse
          results,    \* of each process: file_results
          new,        \* of each process: what filter_new_violations left
          outcome,    \* of each process: its exit status
          edits, runs,\* counters for the bounds
          version,    \* history: which edit each file is as it is by
          asof,       \* history: of each process, the version of each file it has read
          written     \* history: every baseline some process has finished writing
procVars == <<pc, cmd, todo, results, new, outcome, asof>>
vars == <<tree, disk, procVars, edits, runs, version, written>>

\* The content of the baseline file: "empty" after open(..., "w"); "damaged" when
\* it holds a part of a text, or a text and the end of a longer one, neither of
\* which is valid JSON.  spelling and asof are history: how the target was written
\* and the version of each file the entries come from.
Content == [kind : {"missing", "empty", "damaged", "json"}, entries : SUBSET Entry,
            spelling : Spelling, asof : [File -> 0..NoVersion]]

Locations == {"idle", "check", "inputs", "analyze", "open", "write", "load"}
Outcomes  == {"none", "exit 0", "exit 1", "exit 2", "killed"}

TypeOK ==
  /\ tree \in [File -> SUBSET Finding]
  /\ disk \in Content
  /\ pc \in [Process -> Locations]
  /\ cmd \in [Process -> Command]
  /\ todo \in [Process -> SUBSET File]
  /\ results \in [Process -> SUBSET Entry]
  /\ new \in [Process -> SUBSET Entry]
  /\ outcome \in [Process -> Outcomes]
  /\ edits \in 0..MaxEdits /\ runs \in 0..MaxRuns
  /\ version \in [File -> 0..MaxEdits]
  /\ asof \in [Process -> [File -> 0..NoVersion]]
  /\ written \subseteq SUBSET Entry

-----------------------------------------------------------------------------
MKeyWithoutLine(e) == <<e[1], e[2].rule_id>>

\* _baseline_keys: (filepath, rule_id, line), not the message
Key(e) == <<e[1], e[2].rule_id, e[2].line>>

Keys(S) == {Key(e) : e \in S}

MFilterReturnsKeys(found, baseline) == Keys(found) \ Keys(baseline)

\* filter_new_violations
FilterNew(found, baseline) == {e \in found : Key(e) \notin Keys(baseline)}

Unread == [f \in File |-> NoVersion]

MReportedByEveryScan(p, f) == IF cmd[p].kind = "scan" THEN tree[f] ELSE tree[f] \ OptIn

\* What the analyzer reports of a file under the command's flags.
Reported(p, f) == IF cmd[p].broad THEN tree[f] ELSE tree[f] \ OptIn

EntriesOf(p, f) == {<<<<cmd[p].spelling, f>>, v>> : v \in Reported(p, f)}

Goto(p, loc) == pc' = [pc EXCEPT ![p] = loc]

Exits(p, status) == /\ pc' = [pc EXCEPT ![p] = "idle"]
                    /\ outcome' = [outcome EXCEPT ![p] = status]

\* The memory of a process that has ended is gone; a scan's is kept for the
\* properties to look at.
Forget(p) == /\ todo' = [todo EXCEPT ![p] = {}]
             /\ results' = [results EXCEPT ![p] = {}]
             /\ asof' = [asof EXCEPT ![p] = Unread]

-----------------------------------------------------------------------------
Init ==
  /\ tree \in [File -> SUBSET Finding]
  /\ disk = [kind |-> "missing", entries |-> {}, spelling |-> CHOOSE s \in Spelling : TRUE,
             asof |-> Unread]
  /\ pc = [p \in Process |-> "idle"]
  /\ cmd = [p \in Process |-> CHOOSE c \in Commands : TRUE]
  /\ todo = [p \in Process |-> {}]
  /\ results = [p \in Process |-> {}]
  /\ new = [p \in Process |-> {}]
  /\ outcome = [p \in Process |-> "none"]
  /\ edits = 0 /\ runs = 0
  /\ version = [f \in File |-> 0]
  /\ asof = [p \in Process |-> Unread]
  /\ written = {}

\* Somebody edits a file: findings appear, go away or move to another line.
Edit(f) ==
  /\ edits < MaxEdits
  /\ \E found \in SUBSET Finding \ {tree[f]} : tree' = [tree EXCEPT ![f] = found]
  /\ edits' = edits + 1
  /\ version' = [version EXCEPT ![f] = edits']
  /\ UNCHANGED <<disk, procVars, runs, written>>

\* A command is started.  Only `create` looks at the baseline file first.
Start(p) ==
  /\ pc[p] = "idle" /\ runs < MaxRuns
  /\ \E c \in Commands :
       /\ cmd' = [cmd EXCEPT ![p] = c]
       /\ Goto(p, IF c.kind = "create" THEN "check" ELSE "inputs")
  /\ todo' = [todo EXCEPT ![p] = {}]
  /\ results' = [results EXCEPT ![p] = {}]
  /\ new' = [new EXCEPT ![p] = {}]
  /\ outcome' = [outcome EXCEPT ![p] = "none"]
  /\ asof' = [asof EXCEPT ![p] = Unread]
  /\ runs' = runs + 1
  /\ UNCHANGED <<tree, disk, edits, version, written>>

MCheckExistsNot(p) ==
  /\ pc[p] = "check"
  /\ Goto(p, "inputs")
  /\ UNCHANGED <<tree, disk, cmd, todo, results, new, outcome, asof, edits, runs, version, written>>

\* if args.action == "create" and Path(args.baseline_path).exists(): sys.exit(2)
CheckExists(p) ==
  /\ pc[p] = "check"
  /\ IF disk.kind # "missing" THEN Exits(p, "exit 2")
                              ELSE Goto(p, "inputs") /\ UNCHANGED outcome
  /\ UNCHANGED <<tree, disk, cmd, todo, results, new, asof, edits, runs, version, written>>

\* The target does not exist or pyvibe.toml is broken: exit 2; else the walk begins.
CheckInputs(p) ==
  /\ pc[p] = "inputs"
  /\ \/ Exits(p, "exit 2") /\ UNCHANGED todo
     \/ /\ Goto(p, "analyze")
        /\ todo' = [todo EXCEPT ![p] = cmd[p].selected]
        /\ UNCHANGED outcome
  /\ UNCHANGED <<tree, disk, cmd, results, new, asof, edits, runs, version, written>>

\* One file is read and analysed, in the order of the walk.
AnalyzeFile(p) ==
  /\ pc[p] = "analyze"
  /\ \E f \in todo[p] :
       /\ \A g \in todo[p] : f <= g
       /\ results' = [results EXCEPT ![p] = @ \cup EntriesOf(p, f)]
       /\ asof' = [asof EXCEPT ![p][f] = version[f]]
       /\ todo' = [todo EXCEPT ![p] = @ \ {f}]
  /\ UNCHANGED <<tree, disk, pc, cmd, new, outcome, edits, runs, version, written>>

\* The walk is over.
AnalysisDone(p) ==
  /\ pc[p] = "analyze" /\ todo[p] = {}
  /\ Goto(p, IF cmd[p].kind = "scan" THEN "load" ELSE "open")
  /\ UNCHANGED <<tree, disk, cmd, todo, results, new, outcome, asof, edits, runs, version, written>>

MOpenKeepsOldText(p) ==
  /\ pc[p] = "open"
  /\ Goto(p, "write")
  /\ UNCHANGED <<tree, disk, cmd, todo, results, new, outcome, asof, edits, runs, version, written>>

\* Path(output_path).write_text(...), first half: the old content is gone.
OpenForWriting(p) ==
  /\ pc[p] = "open"
  /\ disk' = [disk EXCEPT !.kind = "empty", !.entries = {}, !.asof = Unread]
  /\ Goto(p, "write")
  /\ UNCHANGED <<tree, cmd, todo, results, new, outcome, asof, edits, runs, version, written>>

\* Second half: the text is written from the start of the file.  When another
\* process has written since this one opened the file, and what it wrote is
\* longer, the end of its text stays behind this one's.
WriteText(p) ==
  /\ pc[p] = "write"
  /\ LET mine == [kind |-> "json", entries |-> results[p], spelling |-> cmd[p].spelling,
                  asof |-> asof[p]]
     IN  \/ disk' = mine
         \/ /\ \/ disk.kind = "damaged"
               \/ disk.kind = "json" /\ disk.entries # results[p]
            /\ disk' = [mine EXCEPT !.kind = "damaged"]
  /\ written' = written \cup {results[p]}
  /\ Exits(p, "exit 0")
  /\ Forget(p)
  /\ UNCHANGED <<tree, cmd, new, edits, runs, version>>

MLoadTrustsDamaged(p) ==
  /\ pc[p] = "load"
  /\ IF disk.kind = "missing"
       THEN Exits(p, "exit 2") /\ UNCHANGED new
       ELSE LET fresh == FilterNew(results[p], disk.entries)
            IN  /\ new' = [new EXCEPT ![p] = fresh]
                /\ Exits(p, IF fresh # {} THEN "exit 1" ELSE "exit 0")
  /\ UNCHANGED <<tree, disk, cmd, todo, results, asof, edits, runs, version, written>>

\* load_baseline and filter_new_violations: no readable baseline is an error,
\* otherwise the exit status says whether anything new was found.
LoadAndFilter(p) ==
  /\ pc[p] = "load"
  /\ IF disk.kind # "json"
       THEN Exits(p, "exit 2") /\ UNCHANGED new
       ELSE LET fresh == FilterNew(results[p], disk.entries)
            IN  /\ new' = [new EXCEPT ![p] = fresh]
                /\ Exits(p, IF fresh # {} THEN "exit 1" ELSE "exit 0")
  /\ UNCHANGED <<tree, disk, cmd, todo, results, asof, edits, runs, version, written>>

\* The process is killed (CI timeout, Ctrl-C) or dies of a traceback (a file removed
\* under the walk), wherever it is; in the middle of the write, a part of the text
\* may be in the file.
Kill(p) ==
  /\ pc[p] # "idle"
  /\ Exits(p, "killed")
  /\ \/ UNCHANGED disk
     \/ pc[p] = "write" /\ disk' = [disk EXCEPT !.kind = "damaged", !.entries = results[p],
                                               !.asof = Unread]
  /\ Forget(p)
  /\ UNCHANGED <<tree, cmd, new, edits, runs, version, written>>

Step(p) == \/ CheckExists(p) \/ CheckInputs(p) \/ AnalyzeFile(p) \/ AnalysisDone(p)
           \/ OpenForWriting(p) \/ WriteText(p) \/ LoadAndFilter(p)

Next == \/ \E f \in File : Edit(f)
        \/ \E p \in Process : Start(p) \/ Step(p) \/ Kill(p)

Spec == Init /\ [][Next]_vars

-----------------------------------------------------------------------------
(***************************************************************************)
(* Properties                                                              *)
(***************************************************************************)

Judged(p) == pc[p] = "idle" /\ cmd[p].kind = "scan" /\ outcome[p] \in {"exit 0", "exit 1"}

\* The baseline entry k is about the finding e: same file, rule and line.
Accepts(k, e) == k[1] = e[1] /\ k[2].rule_id = e[2].rule_id /\ k[2].line = e[2].line

\* A scan hides a finding only if a baseline that was written in full lists one
\* of the same file, rule and line: not after a crash in mid-write, not while
\* two commands write at once.
HiddenOnlyIfAccepted ==
  \A p \in Process : Judged(p) =>
    \A e \in results[p] \ new[p] : \E S \in written : \E k \in S : Accepts(k, e)

\* The file has not been edited between the reading of it that is in the baseline and
\* this command's.
Unchanged(p, f) == asof[p][f] = disk.asof[f] /\ asof[p][f] # NoVersion

\* README.md:283: "an unchanged baseline produces exit code 0", file by file.  Once the
\* target is written the same way, a scan reports nothing of a file that is as it was
\* when the baseline was taken, except what --report-broad-except asks for and
\* `baseline` cannot record (cli.py:177), also when the files around it were edited
\* in mid-walk, by either command; without that flag and with all files unchanged
\* its status is 0.
UnchangedFilesAreClean ==
  [][\A p \in Process :
       /\ pc[p] = "load" /\ outcome'[p] \in {"exit 0", "exit 1", "exit 2"}
       /\ disk.kind = "json" /\ cmd[p].spelling = disk.spelling
       => /\ \A e \in new'[p] : Unchanged(p, e[1][2]) => cmd[p].broad /\ e[2] \in OptIn
          /\ ~cmd[p].broad /\ (\A f \in cmd[p].selected : Unchanged(p, f))
               => outcome'[p] = "exit 0"]_vars

\* cli.py:503: create "refuses to overwrite an existing baseline".
CreateNeverOverwrites ==
  [][\A p \in Process :
       pc[p] = "open" /\ pc'[p] = "write" /\ cmd[p].kind = "create" => disk.kind = "missing"]_vars

\* cli.py:557: "Baseline updated: N findings saved".  The command that says so
\* leaves a file that can be read.
SavedIsReadable ==
  [][\A p \in Process :
       pc[p] = "write" /\ outcome'[p] = "exit 0" => disk'.kind = "json"]_vars

\* CHANGELOG.md:31: "A baseline entry keyed on an old message no longer matches."
OldMessageNoLongerMatches ==
  [][\A p \in Process :
       pc[p] = "load" /\ outcome'[p] \in {"exit 0", "exit 1"}
       => \A e \in results[p] : e \notin disk.entries => e \in new'[p]]_vars

\* The ledger of BaselineLedger.tla, whose single instant of decision is the
\* reading of the baseline file.
LedgerOf == [readable |-> disk.kind = "json",
             keys |-> IF disk.kind = "json" THEN Keys(disk.entries) ELSE {}]

AnswerOf(p) ==
  LET answered == pc[p] = "idle" /\ cmd[p].kind = "scan"
      report   == answered /\ outcome[p] \in {"exit 0", "exit 1"}
  IN  [kind |-> IF report THEN "report"
                ELSE IF answered /\ outcome[p] = "exit 2" THEN "error" ELSE "pending",
       seen |-> IF report THEN results[p] ELSE {},
       new  |-> IF report THEN new[p] ELSE {}]

Ledger == INSTANCE BaselineLedger WITH
  KeyOf <- Key, ledger <- LedgerOf, answer <- [p \in Process |-> AnswerOf(p)]

ImplementsLedger == Ledger!LedgerSpec
=============================================================================
