----------------------------- MODULE ReviewProofs -----------------------------
(***************************************************************************)
(* Review mode: the diff parser, and the command on top of it.             *)
(*                                                                         *)
(* The parser, for any number of files, hunks and lines: as long as every  *)
(* "+++" line has the plain form and no text can be mistaken for anything  *)
(* else, it records exactly the added lines.  The command: what a report   *)
(* says of the files nobody saved meanwhile is exact, and only a removal   *)
(* keeps the command from its report.                                      *)
(***************************************************************************)
EXTENDS DiffParser, Review, SequenceTheorems, TLAPS

\* The diffs for which the parser is right; DiffParser_*.cfg show the others.
Simple == Headers \subseteq {"plain", "devnull"} /\ Texts \subseteq {"plain"}

\* What the parser must know of git's place in the diff to go on being right:
\* no file between the "diff --git" and the "+++" line, git's own line number
\* once a hunk of a file it knows is open, and nothing of a deleted file.
InStep ==
  /\ phase = "headers" => path # None /\ at = 0 /\ parser.current_file = None
  /\ phase = "body" => path # None /\ form \in {"plain", "devnull"}
  /\ phase = "body" /\ form = "plain" =>
       /\ parser.current_file = path
       /\ parser.current_line = at \/ (at = 0 /\ parser.current_line = NoLine)
  /\ phase = "body" /\ form = "devnull" => at = 0 /\ parser.current_file = None

ParserInv == ParserTypeOK /\ InStep /\ ExactLines

LEMMA InitParserInv == DiffInit => ParserInv
BY PathAssumption DEF DiffInit, ParserInv, ParserTypeOK, InStep, ExactLines, Parser, NoLine

\* Each line of the diff keeps the parser in step.
LEMMA StepParserInv == Simple /\ ParserInv /\ [DiffNext]_diffVars => ParserInv'
<1> SUFFICES ASSUME Simple, ParserInv, [DiffNext]_diffVars PROVE ParserInv'
  OBVIOUS
<1> USE DiffAssumption, PathAssumption
<1>1. ASSUME NEW p \in Path, GitLine(p) PROVE ParserInv'
  <2>1. parser' = [parser EXCEPT !.current_file = None, !.current_line = NoLine]
    BY <1>1 DEF GitLine, ReadGitLine
  <2>2. parser' \in Parser /\ parser'.files = parser.files /\ parser'.current_file = None
    BY <2>1 DEF ParserInv, ParserTypeOK, Parser
  <2> QED BY <1>1, <2>2 DEF GitLine, ParserInv, ParserTypeOK, InStep, ExactLines
<1>2. ASSUME NEW h \in Headers, PlusLine(h) PROVE ParserInv'
  <2> DEFINE p == IF h = "plain" THEN path ELSE None
  <2>1. parser' = [parser EXCEPT !.current_file = p, !.current_line = NoLine]
    BY <1>2 DEF PlusLine, ReadPlusLine
  <2>2. /\ parser' \in Parser /\ parser'.files = parser.files
        /\ parser'.current_file = p /\ parser'.current_line = NoLine
    BY <2>1 DEF ParserInv, ParserTypeOK, Parser
  <2> QED BY <1>2, <2>2 DEF PlusLine, ParserInv, ParserTypeOK, InStep, ExactLines, Simple
<1>3. ASSUME NEW n \in 0..MaxLine, HunkLine(n) PROVE ParserInv'
  <2>1. parser' = IF parser.current_file = None THEN parser
                  ELSE [parser EXCEPT !.current_line = n]
    BY <1>3 DEF HunkLine, ReadHunkLine, Skips
  <2>2. /\ parser' \in Parser /\ parser'.files = parser.files
        /\ parser'.current_file = parser.current_file
        /\ parser.current_file # None => parser'.current_line = n
    BY <2>1 DEF ParserInv, ParserTypeOK, Parser
  <2> QED BY <1>3, <2>2 DEF HunkLine, ParserInv, ParserTypeOK, InStep, ExactLines
<1>4. ASSUME NEW t \in Texts, ContextLine(t) PROVE ParserInv'
  <2>1. /\ phase = "body" /\ at # 0 /\ form = "plain"
        /\ parser.current_file = path /\ path # None /\ parser.current_line = at /\ at \in Nat
    BY <1>4 DEF ContextLine, InBody, ParserInv, ParserTypeOK, InStep
  <2>2. parser' = [parser EXCEPT !.current_line = at + 1]
    BY <1>4, <2>1 DEF ContextLine, Then, ReadOther, InHunk, Skips, Simple, NoLine
  <2>3. /\ parser' \in Parser /\ parser'.files = parser.files
        /\ parser'.current_file = parser.current_file /\ parser'.current_line = at + 1
    BY <2>1, <2>2 DEF ParserInv, ParserTypeOK, Parser
  <2> QED BY <1>4, <2>1, <2>3 DEF ContextLine, ParserInv, ParserTypeOK, InStep, ExactLines
<1>5. ASSUME NEW t \in Texts, AddedLine(t) PROVE ParserInv'
  <2>1. /\ phase = "body" /\ at # 0 /\ form = "plain"
        /\ parser.current_file = path /\ path # None /\ parser.current_line = at /\ at \in Nat
    BY <1>5 DEF AddedLine, InBody, ParserInv, ParserTypeOK, InStep
  <2> DEFINE marked == [parser.files EXCEPT ![path] = @ \cup {at}]
  <2>2. parser \in Parser /\ path \in Path /\ parser.files \in [Path -> SUBSET Nat]
    BY <2>1 DEF ParserInv, ParserTypeOK, Parser
  <2>3. marked \in [Path -> SUBSET Nat]
    BY <2>1, <2>2
  <2>4. parser' = [parser EXCEPT !.files[path] = @ \cup {at}, !.current_line = at + 1]
    BY <1>5, <2>1 DEF AddedLine, Then, ReadAdded, InHunk, Skips, Simple, NoLine
  <2>5. parser' = [current_file |-> path, current_line |-> at + 1, files |-> marked]
    BY <2>1, <2>2, <2>4 DEF Parser
  <2> HIDE DEF marked
  <2>6. /\ parser' \in Parser /\ parser'.files = marked
        /\ parser'.current_file = path /\ parser'.current_line = at + 1
    BY <2>1, <2>2, <2>3, <2>5 DEF Parser
  <2> QED BY <1>5, <2>1, <2>2, <2>6 DEF marked, AddedLine, ParserInv, ParserTypeOK, InStep, ExactLines
<1>6. ASSUME NEW t \in Texts, RemovedLine(t) PROVE ParserInv'
  BY <1>6 DEF RemovedLine, Then, ReadRemoved, gitVars, ParserInv, ParserTypeOK, InStep, ExactLines, Simple
<1>7. CASE NoContent
  BY <1>7 DEF NoContent, ParserInv, ParserTypeOK, InStep, ExactLines
<1>8. CASE NoNewlineLine
  BY <1>8 DEF NoNewlineLine, ReadNoNewline, gitVars, ParserInv, ParserTypeOK, InStep, ExactLines
<1>9. CASE EndOfDiff
  BY <1>9 DEF EndOfDiff, ParserInv, ParserTypeOK, InStep, ExactLines
<1>10. CASE UNCHANGED diffVars
  BY <1>10 DEF diffVars, gitVars, ParserInv, ParserTypeOK, InStep, ExactLines
<1> QED BY <1>1, <1>2, <1>3, <1>4, <1>5, <1>6, <1>7, <1>8, <1>9, <1>10 DEF DiffNext

\* parse_diff returns exactly the lines git marked as added, for every such
\* diff whatever the number of files, hunks and lines.
THEOREM ParserIsExact == Simple => (DiffSpec => []ExactLines)
<1> SUFFICES ASSUME Simple PROVE DiffSpec => []ExactLines
  OBVIOUS
<1>1. DiffInit => ParserInv
  BY InitParserInv
<1>2. ParserInv /\ [DiffNext]_diffVars => ParserInv'
  BY StepParserInv
<1>3. ParserInv => ExactLines
  BY DEF ParserInv
<1> QED BY <1>1, <1>2, <1>3, PTL DEF DiffSpec

-----------------------------------------------------------------------------
\* The types of the parser hold for every diff, also where the map goes wrong.
LEMMA TypesStep == ParserTypeOK /\ [DiffNext]_diffVars => ParserTypeOK'
<1> SUFFICES ASSUME ParserTypeOK, [DiffNext]_diffVars PROVE ParserTypeOK'
  OBVIOUS
<1> USE DiffAssumption, PathAssumption
<1>1. /\ parser \in Parser /\ path \in Path \cup {None} /\ at \in Nat /\ count \in Nat
      /\ added \in [Path -> SUBSET Nat]
  BY DEF ParserTypeOK
<1>2. ASSUME NEW s \in Parser, NEW p \in Path \cup {None}, NEW n \in Nat
      PROVE  ReadGitLine(s) \in Parser /\ ReadPlusLine(s, p) \in Parser /\ ReadHunkLine(s, n) \in Parser
  BY DEF ReadGitLine, ReadPlusLine, ReadHunkLine, Parser
<1>3. ASSUME NEW s \in Parser
      PROVE  ReadOther(s) \in Parser
  BY DEF ReadOther, InHunk, Parser, NoLine
<1>4. ASSUME NEW s \in Parser, NEW t
      PROVE  Then(s, t) \in Parser
  BY <1>3 DEF Then
<1>5. ASSUME NEW s \in Parser
      PROVE  ReadAdded(s) \in Parser
  <2>1. CASE InHunk(s)
    <3>1. s.current_file \in Path /\ s.current_line \in Nat
      BY <2>1 DEF InHunk, Skips, Parser
    <3> DEFINE marked == [s.files EXCEPT ![s.current_file] = @ \cup {s.current_line}]
    <3>2. marked \in [Path -> SUBSET Nat]
      BY <3>1 DEF Parser
    <3>3. ReadAdded(s) = [current_file |-> s.current_file, current_line |-> s.current_line + 1,
                          files |-> marked]
      BY <2>1 DEF ReadAdded, Parser
    <3> HIDE DEF marked
    <3> QED BY <3>1, <3>2, <3>3 DEF Parser
  <2>2. CASE ~InHunk(s)
    BY <2>2 DEF ReadAdded
  <2> QED BY <2>1, <2>2
<1>6. ASSUME NEW p \in Path, GitLine(p) PROVE ParserTypeOK'
  BY <1>1, <1>2, <1>6 DEF GitLine, ParserTypeOK
<1>7. ASSUME NEW h \in Headers, PlusLine(h) PROVE ParserTypeOK'
  BY <1>1, <1>2, <1>7 DEF PlusLine, ParserTypeOK
<1>8. ASSUME NEW n \in 0..MaxLine, HunkLine(n) PROVE ParserTypeOK'
  BY <1>1, <1>2, <1>8 DEF HunkLine, ParserTypeOK
<1>9. ASSUME NEW t \in Texts, ContextLine(t) PROVE ParserTypeOK'
  BY <1>1, <1>3, <1>4, <1>9 DEF ContextLine, ParserTypeOK
<1>10. ASSUME NEW t \in Texts, AddedLine(t) PROVE ParserTypeOK'
  <2>1. parser' \in Parser
    BY <1>1, <1>2, <1>4, <1>5, <1>10 DEF AddedLine
  <2>2. added' = [added EXCEPT ![path] = @ \cup {at}] /\ at' = at + 1
    BY <1>10 DEF AddedLine
  <2>3. added' \in [Path -> SUBSET Nat]
    BY <1>1, <2>2
  <2>4. at' \in Nat
    BY <1>1, <2>2
  <2> QED BY <1>10, <2>1, <2>3, <2>4 DEF AddedLine, ParserTypeOK
<1>11. ASSUME NEW t \in Texts, RemovedLine(t) PROVE ParserTypeOK'
  BY <1>1, <1>4, <1>11 DEF RemovedLine, ReadRemoved, gitVars, ParserTypeOK
<1>12. CASE NoContent \/ NoNewlineLine \/ EndOfDiff \/ UNCHANGED diffVars
  BY <1>12 DEF NoContent, NoNewlineLine, ReadNoNewline, EndOfDiff, diffVars, gitVars, ParserTypeOK
<1> QED BY <1>6, <1>7, <1>8, <1>9, <1>10, <1>11, <1>12 DEF DiffNext

\* The types of the parser's state, whatever git writes.
THEOREM ParserTypes == DiffSpec => []ParserTypeOK
<1>1. DiffInit => ParserTypeOK
  BY PathAssumption DEF DiffInit, ParserTypeOK, Parser, NoLine
<1> QED BY <1>1, TypesStep, PTL DEF DiffSpec

-----------------------------------------------------------------------------
\* What results holds of file f.
Reported(f) == {r[2] : r \in {q \in results : q[1] = f}}

\* The lines git gave for f are those of the file as it still is.
InDate(f) == changed[f] = AddedLines(work[f])

\* What a step of the editor on file f is to the review.
Edited(f) ==
  /\ stage # "done"
  /\ work' \in [File -> Source] /\ \A g \in File \ {f} : work'[g] = work[g]
  /\ edits' = edits + 1
  /\ dirty' = IF stage = "git" THEN dirty ELSE dirty \cup {f}
  /\ UNCHANGED <<stage, changed, todo, reading, results, exit>>

\* Why the properties hold: in each stage, for the files nobody has saved since git
\* was asked, the map is in date and the files out of `todo` and `reading` are
\* reported exactly; and a file that is being read was found there.
StageInv ==
  /\ stage # "files" => reading = {}
  /\ \A f \in reading : f \notin todo \cup Excluded /\ changed[f] # {}
  /\ \A f \in reading \ dirty : work[f].present
  /\ stage = "git" => dirty = {} /\ results = {} /\ exit = "none"
  /\ stage = "config" => /\ results = {} /\ exit = "none"
                         /\ todo = {f \in File : changed[f] # {}}
                         /\ \A f \in File \ dirty : InDate(f)
  /\ stage = "files" => /\ exit = "none"
                        /\ \A f \in File \ dirty :
                             /\ InDate(f)
                             /\ Reported(f) = IF f \in todo \cup reading THEN {} ELSE NewFindings(f)
  /\ stage = "done" => exit # "none"
  /\ exit \in {"exit 0", "exit 1"} => /\ stage = "done"
                                      /\ \A f \in File \ dirty : Reported(f) = NewFindings(f)
  /\ exit = "exit 0" => results = {}
  /\ exit = "traceback" => stage = "done"
  /\ OnlyARemovalStopsIt

RInv == TypeOK /\ StageInv

-----------------------------------------------------------------------------
\* The filter by line numbers is the filter by lines when the numbers are in date.
LEMMA FilterIsExact ==
  ASSUME NEW src \in Source, src.present
  PROVE  AnalyzeFile(src, AddedLines(src)) = {v \in Findings(src) : v[2] \in NewLine}
<1>1. \A v \in Findings(src) : v[1] \in 1..Len(src.lines) /\ v[2] = src.lines[v[1]]
  BY DEF Findings
<1> QED BY <1>1 DEF AnalyzeFile, AddedLines

\* The findings are pairs of a line number and a line.
LEMMA FindingsType ==
  ASSUME NEW src \in Source
  PROVE  Findings(src) \subseteq Nat \X AnyLine
BY DEF Findings, Source

\* A file without added lines has no findings on new lines.
LEMMA NothingNew ==
  ASSUME NEW f \in File, work[f] \in Source, AddedLines(work[f]) = {}
  PROVE  NewFindings(f) = {}
BY DEF NewFindings, Findings, AddedLines

\* A saved file is a file: with one more line, or one line less.
LEMMA SavedSource ==
  ASSUME NEW s \in Seq(AnyLine), NEW n \in 1..(Len(s) + 1), NEW l \in NewLine
  PROVE  /\ SubSeq(s, 1, n - 1) \o <<l>> \o SubSeq(s, n, Len(s)) \in Seq(AnyLine)
         /\ SubSeq(s, n, Len(s)) # <<>> =>
              SubSeq(s, 1, n - 1) \o Tail(SubSeq(s, n, Len(s))) \in Seq(AnyLine)
<1>1. SubSeq(s, 1, n - 1) \in Seq(AnyLine) /\ SubSeq(s, n, Len(s)) \in Seq(AnyLine)
  BY SubSeqProperties
<1>2. <<l>> \in Seq(AnyLine)
  BY DEF AnyLine
<1>3. SubSeq(s, 1, n - 1) \o <<l>> \in Seq(AnyLine)
  BY <1>1, <1>2, ConcatProperties
<1>4. SubSeq(s, n, Len(s)) # <<>> => Tail(SubSeq(s, n, Len(s))) \in Seq(AnyLine)
  BY <1>1, HeadTailProperties
<1> QED BY <1>1, <1>3, <1>4, ConcatProperties

-----------------------------------------------------------------------------
LEMMA InitRInv == Init => RInv
<1> SUFFICES ASSUME Init PROVE RInv
  OBVIOUS
<1>1. TypeOK
  BY ReviewAssumption DEF Init, TypeOK
<1> QED BY <1>1 DEF Init, RInv, StageInv, OnlyARemovalStopsIt

\* git answers for the tree as it is; nobody has saved anything since.
LEMMA AskGitInv == RInv /\ AskGit => RInv'
<1> SUFFICES ASSUME RInv, AskGit PROVE RInv'
  OBVIOUS
<1>1. /\ TypeOK /\ stage = "git" /\ dirty = {} /\ results = {} /\ exit = "none"
      /\ reading = {} /\ reading' = reading
      /\ work' = work /\ results' = results /\ edits' = edits /\ dirty' = dirty
  BY DEF RInv, StageInv, AskGit
<1>2. CASE Fails /\ UNCHANGED <<changed, todo>>
  BY <1>1, <1>2 DEF Fails, RInv, TypeOK, StageInv, OnlyARemovalStopsIt
<1>3. CASE /\ changed' = [f \in File |-> AddedLines(work[f])]
           /\ todo' = {f \in File : AddedLines(work[f]) # {}}
           /\ stage' = "config" /\ exit' = exit
  <2>1. \A f \in File : AddedLines(work[f]) \subseteq Nat
    BY DEF AddedLines
  <2>2. TypeOK'
    BY <1>1, <1>3, <2>1 DEF TypeOK
  <2>3. \A f \in File : InDate(f)'
    BY <1>1, <1>3 DEF InDate
  <2> QED BY <1>1, <1>3, <2>2, <2>3 DEF RInv, StageInv, OnlyARemovalStopsIt
<1> QED BY <1>2, <1>3 DEF AskGit

LEMMA LoadConfigInv == RInv /\ LoadConfig => RInv'
<1> SUFFICES ASSUME RInv, LoadConfig PROVE RInv'
  OBVIOUS
<1>1. /\ TypeOK /\ stage = "config" /\ reading = {} /\ results = {} /\ exit = "none"
      /\ todo = {f \in File : changed[f] # {}}
      /\ \A f \in File \ dirty : InDate(f)
      /\ UNCHANGED <<work, changed, todo, reading, results, edits, dirty>>
  BY DEF RInv, StageInv, LoadConfig
<1>2. CASE Fails
  BY <1>1, <1>2 DEF Fails, RInv, TypeOK, StageInv, OnlyARemovalStopsIt
<1>3. CASE stage' = "files" /\ exit' = exit
  <2>1. TypeOK'
    BY <1>1, <1>3 DEF TypeOK
  <2>2. ASSUME NEW f \in File \ dirty'
        PROVE  InDate(f)' /\ Reported(f)' = IF f \in todo' \cup reading' THEN {} ELSE NewFindings(f)'
    <3>1. InDate(f)' /\ InDate(f)
      BY <1>1 DEF InDate
    <3>2. Reported(f)' = {}
      BY <1>1 DEF Reported
    <3>3. f \notin todo => NewFindings(f) = {}
      BY <1>1, <3>1, NothingNew DEF InDate, TypeOK
    <3>4. NewFindings(f)' = NewFindings(f)
      BY <1>1 DEF NewFindings
    <3> QED BY <1>1, <3>1, <3>2, <3>3, <3>4
  <2> QED BY <1>1, <1>3, <2>1, <2>2 DEF RInv, StageInv, OnlyARemovalStopsIt
<1> QED BY <1>2, <1>3 DEF LoadConfig

\* A turn begins: the file goes from `todo` to `reading`, or is passed over and has
\* nothing to be reported.
LEMMA PickFileInv ==
  ASSUME RInv, NEW f \in File, PickFile(f)
  PROVE  RInv'
<1>1. /\ TypeOK /\ stage = "files" /\ exit = "none" /\ f \in todo /\ reading = {}
      /\ todo' = todo \ {f} /\ changed[f] # {}
      /\ reading' = IF ~work[f].present \/ f \in Excluded THEN {} ELSE {f}
      /\ UNCHANGED <<work, stage, changed, results, exit, edits, dirty>>
      /\ \A g \in File \ dirty : /\ InDate(g)
                                 /\ Reported(g) = IF g \in todo THEN {} ELSE NewFindings(g)
  BY DEF RInv, StageInv, PickFile, TypeOK
<1>2. TypeOK'
  BY <1>1 DEF TypeOK
<1>3. ASSUME NEW g \in File \ dirty'
      PROVE  InDate(g)' /\ Reported(g)' = IF g \in todo' \cup reading' THEN {} ELSE NewFindings(g)'
  <2>1. InDate(g)' /\ Reported(g)' = Reported(g) /\ NewFindings(g)' = NewFindings(g)
    BY <1>1 DEF InDate, Reported, NewFindings
  <2>2. f \notin reading' => NewFindings(f) = {}
    BY <1>1 DEF NewFindings
  <2> QED BY <1>1, <2>1, <2>2
<1> QED BY <1>1, <1>2, <1>3 DEF RInv, StageInv, OnlyARemovalStopsIt

\* The reading of file f adds the findings of f and changes no other file's, or finds
\* it removed.
LEMMA ReadFileInv ==
  ASSUME RInv, NEW f \in File, ReadFile(f)
  PROVE  RInv'
<1> DEFINE new == {<<f, v>> : v \in AnalyzeFile(work[f], changed[f])}
<1>1. /\ TypeOK /\ stage = "files" /\ exit = "none"
      /\ reading = {f} /\ reading' = {} /\ f \notin todo \cup Excluded /\ changed[f] # {}
      /\ f \notin dirty => work[f].present
      /\ UNCHANGED <<work, changed, todo, edits, dirty>>
      /\ work[f] \in Source
      /\ \A g \in File \ dirty :
           /\ InDate(g)
           /\ Reported(g) = IF g \in todo \cup reading THEN {} ELSE NewFindings(g)
  BY DEF RInv, StageInv, ReadFile, TypeOK
<1>2. CASE ~work[f].present
  <2>1. f \in dirty /\ stage' = "done" /\ exit' = "traceback" /\ results' = results
    BY <1>1, <1>2 DEF ReadFile
  <2>2. TypeOK'
    BY <1>1, <2>1 DEF TypeOK
  <2> QED BY <1>1, <1>2, <2>1, <2>2 DEF RInv, StageInv, OnlyARemovalStopsIt
<1>3. CASE work[f].present
  <2>1. results' = results \cup new /\ stage' = stage /\ exit' = exit
    BY <1>3 DEF ReadFile
  <2>2. new \subseteq File \X (Nat \X AnyLine)
    BY <1>1, FindingsType DEF AnalyzeFile
  <2>3. TypeOK'
    <3> HIDE DEF new
    <3> QED BY <1>1, <2>1, <2>2 DEF TypeOK
  <2>4. ASSUME NEW g \in File \ dirty, g # f
        PROVE  Reported(g)' = Reported(g)
    BY <2>1, <2>4 DEF Reported
  <2>5. ASSUME f \notin dirty
        PROVE  Reported(f)' = NewFindings(f)
    <3>1. Reported(f) = {} /\ changed[f] = AddedLines(work[f])
      BY <1>1, <2>5 DEF InDate
    <3>2. \A q \in results : q[1] # f
      BY <3>1 DEF Reported
    <3>3. {q \in results' : q[1] = f} = new
      BY <2>1, <3>2
    <3>4. Reported(f)' = {r[2] : r \in new}
      <4> HIDE DEF new
      <4> QED BY <3>3 DEF Reported
    <3>5. {r[2] : r \in new} = AnalyzeFile(work[f], changed[f])
      <4> DEFINE A == AnalyzeFile(work[f], changed[f])
      <4> HIDE DEF A
      <4> SUFFICES {r[2] : r \in {<<f, v>> : v \in A}} = A
        BY DEF A
      <4>1. \A v \in A : <<f, v>> \in {<<f, w>> : w \in A} /\ <<f, v>>[2] = v
        OBVIOUS
      <4>2. \A r \in {<<f, v>> : v \in A} : r[2] \in A
        OBVIOUS
      <4> QED BY <4>1, <4>2
    <3> QED BY <1>1, <1>3, <3>1, <3>4, <3>5, FilterIsExact DEF NewFindings
  <2>6. ASSUME NEW g \in File \ dirty'
        PROVE  /\ InDate(g)'
               /\ Reported(g)' = IF g \in todo' \cup reading' THEN {} ELSE NewFindings(g)'
    <3>1. InDate(g)' /\ NewFindings(g)' = NewFindings(g)
      BY <1>1 DEF InDate, NewFindings
    <3>2. CASE g = f
      BY <1>1, <2>5, <3>1, <3>2
    <3>3. CASE g # f
      BY <1>1, <2>4, <3>1, <3>3
    <3> QED BY <3>2, <3>3
  <2> QED BY <1>1, <2>1, <2>3, <2>6 DEF RInv, StageInv, OnlyARemovalStopsIt
<1> QED BY <1>2, <1>3

LEMMA FinishInv == RInv /\ Finish => RInv'
<1> SUFFICES ASSUME RInv, Finish PROVE RInv'
  OBVIOUS
<1>1. /\ TypeOK /\ stage = "files" /\ todo = {} /\ reading = {} /\ stage' = "done"
      /\ exit' = IF results # {} THEN "exit 1" ELSE "exit 0"
      /\ UNCHANGED <<work, changed, todo, reading, results, edits, dirty>>
      /\ \A f \in File \ dirty : Reported(f) = NewFindings(f)
  BY DEF RInv, StageInv, Finish
<1>2. TypeOK'
  BY <1>1 DEF TypeOK
<1>3. \A f \in File \ dirty' : Reported(f)' = NewFindings(f)'
  BY <1>1 DEF Reported, NewFindings
<1> QED BY <1>1, <1>2, <1>3 DEF RInv, StageInv, OnlyARemovalStopsIt

\* Whatever the editor does to f, the other files are as they were, and f is dirty
\* unless git is still to be asked.
LEMMA EditInv ==
  ASSUME RInv, NEW f \in File, Edited(f)
  PROVE  RInv'
<1>1. TypeOK'
  <2>1. edits' = edits + 1 /\ edits \in Nat
    BY DEF RInv, TypeOK, Edited
  <2>2. edits' \in Nat
    BY <2>1
  <2> QED BY <2>2 DEF RInv, TypeOK, Edited
<1>2. stage # "git" => dirty \subseteq dirty' /\ f \in dirty'
  BY DEF Edited
<1>3. ASSUME NEW g \in File \ dirty', stage # "git"
      PROVE  /\ InDate(g)' <=> InDate(g)
             /\ Reported(g)' = Reported(g) /\ NewFindings(g)' = NewFindings(g)
  <2>1. g # f /\ work'[g] = work[g]
    BY <1>2, <1>3 DEF Edited
  <2> QED BY <2>1 DEF InDate, Reported, NewFindings, Edited
<1>4. stage = "git" \/ stage = "config" \/ stage = "files"
  BY DEF RInv, TypeOK, Edited
<1>5. exit = "none"
  BY <1>4 DEF RInv, StageInv
<1>6. /\ stage' = stage /\ changed' = changed /\ todo' = todo
      /\ reading' = reading /\ results' = results /\ exit' = exit
      /\ stage # "files" => reading = {}
      /\ \A g \in reading : g \notin todo \cup Excluded /\ changed[g] # {}
  BY DEF RInv, StageInv, Edited
<1>7. CASE stage = "git"
  <2>1. dirty' = {} /\ results = {}
    BY <1>7 DEF RInv, StageInv, Edited
  <2> QED BY <1>1, <1>5, <1>6, <1>7, <2>1 DEF RInv, StageInv, OnlyARemovalStopsIt
<1>8. CASE stage = "config"
  <2>1. /\ results = {} /\ todo = {g \in File : changed[g] # {}}
        /\ \A g \in File \ dirty' : InDate(g)
    BY <1>2, <1>8 DEF RInv, StageInv
  <2>2. \A g \in File \ dirty' : InDate(g)'
    BY <1>3, <1>8, <2>1
  <2> QED BY <1>1, <1>5, <1>6, <1>8, <2>1, <2>2 DEF RInv, StageInv, OnlyARemovalStopsIt
<1>9. CASE stage = "files"
  <2>1. \A g \in File \ dirty' :
          InDate(g) /\ Reported(g) = IF g \in todo \cup reading THEN {} ELSE NewFindings(g)
    BY <1>2, <1>9 DEF RInv, StageInv
  <2>2. \A g \in File \ dirty' :
          InDate(g)' /\ Reported(g)' = IF g \in todo' \cup reading' THEN {} ELSE NewFindings(g)'
    BY <1>3, <1>6, <1>9, <2>1
  <2>3. \A g \in reading \ dirty' : work'[g].present
    BY <1>2, <1>9 DEF RInv, StageInv, Edited, TypeOK
  <2> QED BY <1>1, <1>5, <1>6, <1>9, <2>2, <2>3 DEF RInv, StageInv, OnlyARemovalStopsIt
<1> QED BY <1>4, <1>7, <1>8, <1>9

LEMMA SaveInv ==
  ASSUME RInv, NEW f \in File, Save(f)
  PROVE  RInv'
<1> DEFINE s == work[f].lines
<1>1. work \in [File -> Source] /\ s \in Seq(AnyLine) /\ stage # "done"
  BY DEF RInv, TypeOK, Source, Save
<1>2. ASSUME NEW t \in Seq(AnyLine)
      PROVE  /\ [work EXCEPT ![f].lines = t] \in [File -> Source]
             /\ \A g \in File \ {f} : [work EXCEPT ![f].lines = t][g] = work[g]
  BY <1>1 DEF Source
<1>3. PICK n \in 1..(Len(s) + 1) :
        \/ \E l \in NewLine : work' = [work EXCEPT ![f].lines =
                                         SubSeq(s, 1, n - 1) \o <<l>> \o SubSeq(s, n, Len(s))]
        \/ /\ SubSeq(s, n, Len(s)) # <<>>
           /\ work' = [work EXCEPT ![f].lines = SubSeq(s, 1, n - 1) \o Tail(SubSeq(s, n, Len(s)))]
  BY DEF Save
<1>4. \E t \in Seq(AnyLine) : work' = [work EXCEPT ![f].lines = t]
  <2> HIDE DEF s
  <2>1. CASE \E l \in NewLine : work' = [work EXCEPT ![f].lines =
                                           SubSeq(s, 1, n - 1) \o <<l>> \o SubSeq(s, n, Len(s))]
    BY <1>1, <2>1, SavedSource
  <2>2. CASE /\ SubSeq(s, n, Len(s)) # <<>>
             /\ work' = [work EXCEPT ![f].lines = SubSeq(s, 1, n - 1) \o Tail(SubSeq(s, n, Len(s)))]
    <3>1. SubSeq(s, 1, n - 1) \o Tail(SubSeq(s, n, Len(s))) \in Seq(AnyLine)
      <4>1. SubSeq(s, 1, n - 1) \in Seq(AnyLine) /\ SubSeq(s, n, Len(s)) \in Seq(AnyLine)
        BY <1>1, SubSeqProperties
      <4>2. Tail(SubSeq(s, n, Len(s))) \in Seq(AnyLine)
        BY <2>2, <4>1, HeadTailProperties
      <4> QED BY <4>1, <4>2, ConcatProperties
    <3> QED BY <2>2, <3>1
  <2> QED BY <1>3, <2>1, <2>2
<1>5. /\ edits' = edits + 1 /\ dirty' = IF stage = "git" THEN dirty ELSE dirty \cup {f}
      /\ UNCHANGED <<stage, changed, todo, reading, results, exit>>
  BY DEF Save
<1> QED BY <1>1, <1>2, <1>4, <1>5, EditInv DEF Edited

LEMMA RemoveInv ==
  ASSUME RInv, NEW f \in File, Remove(f)
  PROVE  RInv'
<1>1. work \in [File -> Source] /\ stage # "done"
  BY DEF RInv, TypeOK, Remove
<1>2. /\ work' \in [File -> Source]
      /\ \A g \in File \ {f} : work'[g] = work[g]
  BY <1>1 DEF Remove, Source
<1>3. /\ edits' = edits + 1 /\ dirty' = IF stage = "git" THEN dirty ELSE dirty \cup {f}
      /\ UNCHANGED <<stage, changed, todo, reading, results, exit>>
  BY DEF Remove
<1> QED BY <1>1, <1>2, <1>3, EditInv DEF Edited

LEMMA NextRInv == RInv /\ [Next]_vars => RInv'
<1> SUFFICES ASSUME RInv, [Next]_vars PROVE RInv'
  OBVIOUS
<1>1. CASE AskGit
  BY <1>1, AskGitInv
<1>2. CASE LoadConfig
  BY <1>2, LoadConfigInv
<1>3. CASE Finish
  BY <1>3, FinishInv
<1>4. ASSUME NEW f \in File, PickFile(f) \/ ReadFile(f) \/ Save(f) \/ Remove(f)
      PROVE  RInv'
  BY <1>4, PickFileInv, ReadFileInv, SaveInv, RemoveInv
<1>5. CASE UNCHANGED vars
  BY <1>5 DEF vars, RInv, TypeOK, StageInv, OnlyARemovalStopsIt, InDate, Reported, NewFindings
<1> QED BY <1>1, <1>2, <1>3, <1>4, <1>5 DEF Next

\* What is reported of the files nobody saved is what StageInv says at the end.
LEMMA RInvIsExact == RInv => ReviewIsExact
<1> SUFFICES ASSUME RInv, exit \in {"exit 0", "exit 1"}, NEW f \in File \ dirty
             PROVE  /\ {r[2] : r \in {q \in results : q[1] = f}} = NewFindings(f)
                    /\ exit = "exit 0" => NewFindings(f) = {}
  BY DEF ReviewIsExact
<1>1. Reported(f) = NewFindings(f) /\ (exit = "exit 0" => results = {})
  BY DEF RInv, StageInv
<1> QED BY <1>1 DEF Reported

\* The types of the review's state.
THEOREM ReviewTypes == Spec => []TypeOK
<1>1. RInv => TypeOK
  BY DEF RInv
<1> QED BY <1>1, InitRInv, NextRInv, PTL DEF Spec

\* A review that ended with 0 or 1 has reported, of every file nobody saved after git
\* was asked, exactly the findings on new lines (cli.py:343, analyzer.py:292),
\* whatever an editor did to the other files, and 0 means that there are none.
THEOREM ReviewReportsTheDiff == Spec => []ReviewIsExact
BY InitRInv, NextRInv, RInvIsExact, PTL DEF Spec

\* And a review that ends in a traceback instead has had a file of the diff removed
\* under it while it ran (cli.py:353, analyzer.py:286): no broken, excluded or deleted
\* file and no save brings it there.
THEOREM ReviewEndsInAReport == Spec => []OnlyARemovalStopsIt
<1>1. RInv => OnlyARemovalStopsIt
  BY DEF RInv, StageInv
<1> QED BY <1>1, InitRInv, NextRInv, PTL DEF Spec
=============================================================================
