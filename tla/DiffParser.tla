----------------------------- MODULE DiffParser -----------------------------
(***************************************************************************)
(* parse_diff (pyvibe/diff.py) reading the output of `git diff <base> --   *)
(* '*.py'`.  git is the environment: it writes file after file, header     *)
(* lines first, then hunks, and knows the true number of every new line.   *)
(* The parser sees only the text.                                          *)
(***************************************************************************)
EXTENDS Integers

CONSTANTS Path,       \* the .py files of the repository
          Headers,    \* forms the "+++" line of a file takes
          Texts,      \* forms the text of a diff line takes
          MaxLine,    \* bound: line numbers of the new files
          MaxFiles    \* bound: files in one diff

ASSUME DiffAssumption ==
  /\ MaxLine \in Nat /\ MaxFiles \in Nat
  \* "plain"   +++ b/path          "devnull" +++ /dev/null, for a deleted file
  \* "quoted"  +++ "b/p\303\251"   a path git quotes
  \* "tabbed"  +++ b/a b.py<TAB>   a path with a blank
  /\ Headers \subseteq {"plain", "devnull", "quoted", "tabbed"}
  \* "splits"  the text holds a form feed or another character at which only
  \*           splitlines() breaks; "plusplus" the text starts with "++ "
  /\ Texts \subseteq {"plain", "splits", "plusplus"}

None   == "none"
NoLine == -1
ASSUME PathAssumption == None \notin Path

VARIABLES phase,   \* git: "between" files, in the "headers" of one, in its "body"
          path,    \* git: the file being written
          form,    \* git: the form of its "+++" line
          at,      \* git: the number of the next line of the new file
          count,   \* git: files written so far
          added,   \* history: the new lines git has marked "+", per file
          touched, \* history: the files a "diff --git" line was written for
          parser   \* parse_diff: current_file, current_line, files
gitVars == <<phase, path, form, at, count, added, touched>>
diffVars == <<gitVars, parser>>

Parser == [current_file : Path \cup {None}, current_line : Nat \cup {NoLine},
           files : [Path -> SUBSET Nat]]

ParserTypeOK ==
  /\ phase \in {"between", "headers", "body", "end"}
  /\ path \in Path \cup {None}
  /\ form \in Headers \cup {None}
  /\ at \in Nat /\ count \in Nat
  /\ added \in [Path -> SUBSET Nat]
  /\ touched \subseteq Path
  /\ parser \in Parser

-----------------------------------------------------------------------------
(***************************************************************************)
(* One turn of the loop of parse_diff, by the kind of line it is given.    *)
(* files is total: a path setdefault() has not met has no lines.           *)
(***************************************************************************)
ReadGitLine(s) == [s EXCEPT !.current_file = None, !.current_line = NoLine]

\* The path is kept only when the line matches _PLUS_PLUS_RE and ends with .py.
ReadPlusLine(s, p) == [s EXCEPT !.current_file = p, !.current_line = NoLine]

Skips(s) == s.current_file = None
InHunk(s) == ~Skips(s) /\ s.current_line # NoLine

ReadHunkLine(s, start) == IF Skips(s) THEN s ELSE [s EXCEPT !.current_line = start]

ReadAdded(s) ==
  IF InHunk(s)
    THEN [s EXCEPT !.files[s.current_file] = @ \cup {s.current_line},
                   !.current_line = @ + 1]
    ELSE s

MReadRemovedCounts(s) == IF InHunk(s) THEN [s EXCEPT !.current_line = @ + 1] ELSE s

MReadRemovedStepsBack(s) == [s EXCEPT !.current_line = @ - 1]

ReadRemoved(s) == s

\* "\ No newline at end of file"
ReadNoNewline(s) == s

\* Anything else is an unchanged line.
ReadOther(s) == IF InHunk(s) THEN [s EXCEPT !.current_line = @ + 1] ELSE s

\* splitlines() makes two lines of a text with a form feed; the second one has
\* no marker.
Then(s, text) == IF text = "splits" THEN ReadOther(s) ELSE s

-----------------------------------------------------------------------------
DiffInit ==
  /\ phase = "between" /\ path = None /\ form = None /\ at = 0 /\ count = 0
  /\ added = [p \in Path |-> {}]
  /\ touched = {}
  /\ parser = [current_file |-> None, current_line |-> NoLine, files |-> [p \in Path |-> {}]]

\* diff --git a/p b/p, and the index, mode and rename lines, which the parser
\* skips because it has no file yet.
GitLine(p) ==
  /\ phase \in {"between", "body"} /\ count < MaxFiles
  /\ p \notin touched
  /\ phase' = "headers" /\ path' = p /\ form' = None
  /\ count' = count + 1 /\ at' = 0
  /\ touched' = touched \cup {p}
  /\ parser' = ReadGitLine(parser)
  /\ UNCHANGED added

\* A pure rename or a mode change has no "---" and "+++" lines.
NoContent ==
  /\ phase = "headers"
  /\ phase' = "between"
  /\ UNCHANGED <<path, form, at, count, added, touched, parser>>

MPlusLineKeepsFile(h) ==
  /\ phase = "headers"
  /\ phase' = "body" /\ form' = h
  /\ parser' = IF h = "plain" THEN ReadPlusLine(parser, path) ELSE [parser EXCEPT !.current_line = NoLine]
  /\ UNCHANGED <<path, at, count, added, touched>>

\* --- a/p (skipped), then the "+++" line in form h.
PlusLine(h) ==
  /\ phase = "headers"
  /\ phase' = "body" /\ form' = h
  /\ parser' = ReadPlusLine(parser, IF h = "plain" THEN path ELSE None)
  /\ UNCHANGED <<path, at, count, added, touched>>

\* @@ -a,b +start,n @@: hunks are in order and do not overlap.  A deleted file's
\* hunk starts at line 0 and has removed lines only.
HunkLine(start) ==
  /\ phase = "body" /\ at <= start /\ start <= MaxLine
  /\ form = "devnull" => start = 0
  /\ at' = start
  /\ parser' = ReadHunkLine(parser, start)
  /\ UNCHANGED <<phase, path, form, count, added, touched>>

InBody == phase = "body" /\ at # 0 /\ at <= MaxLine

ContextLine(t) ==
  /\ InBody /\ t # "plusplus"
  /\ at' = at + 1
  /\ parser' = Then(ReadOther(parser), t)
  /\ UNCHANGED <<phase, path, form, count, added, touched>>

\* A "+" before "++ ..." reads as a file header without a path.
AddedLine(t) ==
  /\ InBody
  /\ at' = at + 1
  /\ added' = [added EXCEPT ![path] = @ \cup {at}]
  /\ parser' = IF t = "plusplus" THEN ReadPlusLine(parser, None)
                                 ELSE Then(ReadAdded(parser), t)
  /\ UNCHANGED <<phase, path, form, count, touched>>

\* Removed lines have no number in the new file; also those of a deleted file.
RemovedLine(t) ==
  /\ phase = "body" /\ t # "plusplus"
  /\ parser' = Then(ReadRemoved(parser), t)
  /\ UNCHANGED gitVars

NoNewlineLine ==
  /\ phase = "body"
  /\ parser' = ReadNoNewline(parser)
  /\ UNCHANGED gitVars

EndOfDiff ==
  /\ phase \in {"between", "body"}
  /\ phase' = "end"
  /\ UNCHANGED <<path, form, at, count, added, touched, parser>>

DiffNext == \/ \E p \in Path : GitLine(p)
        \/ \E h \in Headers : PlusLine(h)
        \/ \E n \in 0..MaxLine : HunkLine(n)
        \/ \E t \in Texts : ContextLine(t) \/ AddedLine(t) \/ RemovedLine(t)
        \/ NoContent \/ NoNewlineLine \/ EndOfDiff

DiffSpec == DiffInit /\ [][DiffNext]_diffVars

-----------------------------------------------------------------------------
(***************************************************************************)
(* Properties                                                              *)
(***************************************************************************)

\* The map the review filters by holds exactly the lines git marked as added,
\* file by file, whatever mix of hunks, removed, unchanged and "\" lines came
\* between them, and a deleted file or a rename adds nothing to its neighbours.
ExactLines == parser.files = added

\* diff.py:70: "Deleted lines and unchanged context lines never appear in the
\* result".
OnlyAddedLines == \A p \in Path : parser.files[p] \subseteq added[p]

\* diff.py:68: {file_path: {added_line_numbers}}: all of a file the parser knows.
AddedLinesAreFound == \A p \in Path : added[p] \subseteq parser.files[p]

\* diff.py:117: the map is "for every .py file touched"; at least for every one
\* that has an added line.
TouchedFilesAreReviewed ==
  phase = "end" => \A p \in touched : added[p] # {} => parser.files[p] # {}
=============================================================================
