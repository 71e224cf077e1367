------------------------------- MODULE Review -------------------------------
(***************************************************************************)
(* `pyvibe review` (_main_review in pyvibe/cli.py, analyze_file in         *)
(* pyvibe/analyzer.py): git is asked once which lines are new, then each   *)
(* changed file is read and analysed, and its findings are filtered by     *)
(* those line numbers.  The diff is the one DiffParser.tla shows to be     *)
(* exact.  An editor may save or remove files at any point, also between   *)
(* the question whether a file exists and its reading.                     *)
(***************************************************************************)
EXTENDS Naturals, Sequences, FiniteSets

CONSTANTS File,
          OldLine, NewLine,  \* lines of the base version, and lines added to it
          BadLine,           \* lines with a finding
          Worktrees,         \* states of the working tree a review may begin in
          Excluded,          \* files pyvibe.toml excludes
          MaxEdits           \* bound: edits while the review runs

AnyLine == OldLine \cup NewLine

\* One file of the working tree: is it there, does it parse, its lines.
Source == [present : BOOLEAN, parses : BOOLEAN, lines : Seq(AnyLine)]

ASSUME ReviewAssumption ==
  /\ BadLine \subseteq AnyLine /\ OldLine \cap NewLine = {} /\ Excluded \subseteq File
  /\ Worktrees \subseteq [File -> Source]

VARIABLES work,     \* the working tree
          stage,    \* "git", "config", "files" or "done"
          changed,  \* get_changed_python_files: new line numbers, per file
          todo,     \* the files of `changed` not looked at yet
          reading,  \* the file that exists() has found and read_text is to read
          results,  \* file_results, as <<file, line number, line>>
          exit,     \* the exit status
          edits,    \* counter for the bound
          dirty     \* history: the files edited after git was asked
vars == <<work, stage, changed, todo, reading, results, exit, edits, dirty>>

TypeOK ==
  /\ work \in [File -> Source]
  /\ stage \in {"git", "config", "files", "done"}
  /\ changed \in [File -> SUBSET Nat]
  /\ todo \subseteq {f \in File : changed[f] # {}}
  /\ reading \in {{}} \cup {{f} : f \in File}
  /\ results \subseteq File \X (Nat \X AnyLine)
  /\ exit \in {"none", "exit 0", "exit 1", "exit 2", "traceback"}
  /\ edits \in Nat
  /\ dirty \subseteq File

-----------------------------------------------------------------------------
\* git diff: a deleted file has no added lines.
AddedLines(src) ==
  IF src.present THEN {n \in 1..Len(src.lines) : src.lines[n] \in NewLine} ELSE {}

\* analyze_source on the file as it is now; a file that does not parse has no findings.
Findings(src) ==
  IF src.parses THEN {<<n, src.lines[n]>> : n \in {k \in 1..Len(src.lines) : src.lines[k] \in BadLine}}
                ELSE {}

MLineFilterIgnored(src, filter) == Findings(src)

\* [v for v in violations if v.line in line_filter]
AnalyzeFile(src, filter) == {v \in Findings(src) : v[1] \in filter}

Init ==
  /\ work \in Worktrees
  /\ stage = "git"
  /\ changed = [f \in File |-> {}]
  /\ todo = {} /\ reading = {} /\ results = {}
  /\ exit = "none"
  /\ edits = 0
  /\ dirty = {}

Fails == stage' = "done" /\ exit' = "exit 2"

MAskGitAllFiles ==
  /\ stage = "git"
  /\ \/ Fails /\ UNCHANGED <<changed, todo>>
     \/ /\ changed' = [f \in File |-> AddedLines(work[f])]
        /\ todo' = {f \in File : work[f].present}
        /\ stage' = "config"
        /\ UNCHANGED exit
  /\ UNCHANGED <<work, reading, results, edits, dirty>>

\* get_repo_root and get_git_diff: not a repository, no git, a bad ref, or the diff.
AskGit ==
  /\ stage = "git"
  /\ \/ Fails /\ UNCHANGED <<changed, todo>>
     \/ /\ changed' = [f \in File |-> AddedLines(work[f])]
        /\ todo' = {f \in File : AddedLines(work[f]) # {}}
        /\ stage' = "config"
        /\ UNCHANGED exit
  /\ UNCHANGED <<work, reading, results, edits, dirty>>

LoadConfig ==
  /\ stage = "config"
  /\ \/ Fails
     \/ stage' = "files" /\ UNCHANGED exit
  /\ UNCHANGED <<work, changed, todo, reading, results, edits, dirty>>

MReviewExcludedToo(f) ==
  /\ stage = "files" /\ reading = {} /\ f \in todo
  /\ todo' = todo \ {f}
  /\ reading' = IF ~work[f].present THEN {} ELSE {f}
  /\ UNCHANGED <<work, stage, changed, results, exit, edits, dirty>>

\* A turn of the loop over changed.items() begins: a file that is not there, or
\* is excluded, is passed over.
PickFile(f) ==
  /\ stage = "files" /\ reading = {} /\ f \in todo
  /\ todo' = todo \ {f}
  /\ reading' = IF ~work[f].present \/ f \in Excluded THEN {} ELSE {f}
  /\ UNCHANGED <<work, stage, changed, results, exit, edits, dirty>>

MReadRaisesOnSyntax(f) ==
  /\ stage = "files" /\ f \in reading
  /\ reading' = {}
  /\ IF work[f].present /\ work[f].parses
       THEN /\ results' = results \cup {<<f, v>> : v \in AnalyzeFile(work[f], changed[f])}
            /\ UNCHANGED <<stage, exit>>
       ELSE stage' = "done" /\ exit' = "traceback" /\ UNCHANGED results
  /\ UNCHANGED <<work, changed, todo, edits, dirty>>

\* ... and ends with analyze_file.  Nothing catches the FileNotFoundError of a
\* read_text whose file is gone: the command dies and prints no result at all.
ReadFile(f) ==
  /\ stage = "files" /\ f \in reading
  /\ reading' = {}
  /\ IF work[f].present
       THEN /\ results' = results \cup {<<f, v>> : v \in AnalyzeFile(work[f], changed[f])}
            /\ UNCHANGED <<stage, exit>>
       ELSE stage' = "done" /\ exit' = "traceback" /\ UNCHANGED results
  /\ UNCHANGED <<work, changed, todo, edits, dirty>>

\* sys.exit(1 if total_violations > 0 else 0)
Finish ==
  /\ stage = "files" /\ todo = {} /\ reading = {}
  /\ stage' = "done"
  /\ exit' = IF results # {} THEN "exit 1" ELSE "exit 0"
  /\ UNCHANGED <<work, changed, todo, reading, results, edits, dirty>>

\* The editor saves a file with one more line, or one line less.
Save(f) ==
  /\ stage # "done" /\ edits < MaxEdits /\ work[f].present
  /\ \E n \in 1..(Len(work[f].lines) + 1) :
       LET before == SubSeq(work[f].lines, 1, n - 1)
           after  == SubSeq(work[f].lines, n, Len(work[f].lines))
       IN  \/ \E l \in NewLine : work' = [work EXCEPT ![f].lines = before \o <<l>> \o after]
           \/ after # <<>> /\ work' = [work EXCEPT ![f].lines = before \o Tail(after)]
  /\ edits' = edits + 1
  /\ dirty' = IF stage = "git" THEN dirty ELSE dirty \cup {f}
  /\ UNCHANGED <<stage, changed, todo, reading, results, exit>>

Remove(f) ==
  /\ stage # "done" /\ edits < MaxEdits /\ work[f].present
  /\ work' = [work EXCEPT ![f].present = FALSE]
  /\ edits' = edits + 1
  /\ dirty' = IF stage = "git" THEN dirty ELSE dirty \cup {f}
  /\ UNCHANGED <<stage, changed, todo, reading, results, exit>>

Next == \/ AskGit \/ LoadConfig \/ Finish
        \/ \E f \in File : PickFile(f) \/ ReadFile(f) \/ Save(f) \/ Remove(f)

Spec == Init /\ [][Next]_vars

-----------------------------------------------------------------------------
(***************************************************************************)
(* Properties                                                              *)
(***************************************************************************)

\* The findings on new lines of a file that is present, parses and is not excluded.
NewFindings(f) ==
  IF work[f].present /\ f \notin Excluded
    THEN {v \in Findings(work[f]) : v[2] \in NewLine} ELSE {}

\* A review that comes to its report (the statuses 0 and 1 of cli.py:389; a traceback
\* is told apart) reports of each file nobody saved after git was asked all the
\* findings on new lines and no other one, whatever was done to the other files; an
\* exit status 0 means that there were none.
ReviewIsExact ==
  exit \in {"exit 0", "exit 1"} => \A f \in File \ dirty :
    /\ {r[2] : r \in {q \in results : q[1] = f}} = NewFindings(f)
    /\ exit = "exit 0" => NewFindings(f) = {}

\* Nothing but a removal while the review runs keeps it from its report (cli.py:353,
\* analyzer.py:286): not a file that was deleted before, that does not parse or that
\* is excluded, and not a save.  The one that stops it is a file of the diff.
OnlyARemovalStopsIt ==
  exit = "traceback" =>
    \E f \in dirty \ Excluded : changed[f] # {} /\ ~work[f].present

\* diff.py:3: "review only reports violations on lines that are actually part of
\* the diff".
OnlyLinesOfTheDiff == \A r \in results : r[2][2] \in NewLine
=============================================================================
