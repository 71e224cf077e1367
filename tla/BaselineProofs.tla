--------------------------- MODULE BaselineProofs ---------------------------
(***************************************************************************)
(* The files that runs leave behind for later runs, through kills and      *)
(* processes at work at the same time.  Baseline mode: a scan never hides  *)
(* a finding nobody accepted, and the commands implement the ledger of     *)
(* BaselineLedger.tla.  The massive scan: clones are kept, and the books   *)
(* of every run that ends add up.                                          *)
(***************************************************************************)
EXTENDS Baseline, MassiveScan, FiniteSetTheorems, SequenceTheorems, TLAPS

\* Where a process is tells which command it runs.
OnItsWay ==
  \A p \in Process : /\ pc[p] = "check" => cmd[p].kind = "create"
                     /\ pc[p] \in {"open", "write"} => cmd[p].kind # "scan"
                     /\ pc[p] = "load" => cmd[p].kind = "scan"

\* A file that can be read holds a baseline some process has written in full.
WholeOrUnreadable == disk.kind = "json" => disk.entries \in written

Inv == TypeOK /\ OnItsWay /\ WholeOrUnreadable /\ HiddenOnlyIfAccepted

USE BaselineAssumption

-----------------------------------------------------------------------------
LEMMA UnreadType == Unread \in [File -> 0..NoVersion]
BY DEF Unread, NoVersion

LEMMA InitType == Init => TypeOK
<1> SUFFICES ASSUME Init PROVE TypeOK
  OBVIOUS
<1>1. (CHOOSE s \in Spelling : TRUE) \in Spelling /\ (CHOOSE c \in Commands : TRUE) \in Command
  OBVIOUS
<1>2. Unread \in [File -> 0..NoVersion]
  BY UnreadType
<1>3. disk \in Content
  BY <1>1, <1>2 DEF Init, Content
<1>4. /\ pc \in [Process -> Locations] /\ outcome \in [Process -> Outcomes]
      /\ cmd \in [Process -> Command]
  BY <1>1 DEF Init, Locations, Outcomes
<1>5. /\ todo \in [Process -> SUBSET File] /\ results \in [Process -> SUBSET Entry]
      /\ new \in [Process -> SUBSET Entry] /\ asof \in [Process -> [File -> 0..NoVersion]]
      /\ version \in [File -> 0..MaxEdits]
  BY <1>2 DEF Init
<1> QED BY <1>3, <1>4, <1>5 DEF Init, TypeOK

LEMMA EntriesType ==
  ASSUME TypeOK, NEW p \in Process, NEW f \in File
  PROVE  EntriesOf(p, f) \subseteq Entry
<1>1. cmd[p].spelling \in Spelling /\ tree[f] \subseteq Finding
  BY DEF TypeOK, Command
<1> QED BY <1>1 DEF EntriesOf, Reported, Entry, Path

\* Each step keeps the types.  Exits and Forget are the two ways a step changes
\* several variables of one process.
LEMMA ExitsType ==
  ASSUME TypeOK, NEW p \in Process, NEW status \in Outcomes, Exits(p, status)
  PROVE  /\ pc' \in [Process -> Locations] /\ outcome' \in [Process -> Outcomes]
         /\ pc' = [pc EXCEPT ![p] = "idle"] /\ outcome' = [outcome EXCEPT ![p] = status]
BY DEF TypeOK, Exits, Locations

LEMMA GotoType ==
  ASSUME TypeOK, NEW p \in Process, NEW loc \in Locations, Goto(p, loc)
  PROVE  pc' \in [Process -> Locations] /\ pc' = [pc EXCEPT ![p] = loc]
BY DEF TypeOK, Goto

LEMMA ForgetType ==
  ASSUME TypeOK, NEW p \in Process, Forget(p)
  PROVE  /\ todo' \in [Process -> SUBSET File] /\ results' \in [Process -> SUBSET Entry]
         /\ asof' \in [Process -> [File -> 0..NoVersion]]
BY UnreadType DEF TypeOK, Forget

LEMMA NextType == TypeOK /\ [Next]_vars => TypeOK'
<1> SUFFICES ASSUME TypeOK, [Next]_vars PROVE TypeOK'
  OBVIOUS
<1>1. ASSUME NEW f \in File, Edit(f) PROVE TypeOK'
  <2>1. edits' \in 0..MaxEdits
    BY <1>1 DEF Edit, TypeOK
  <2>2. version' \in [File -> 0..MaxEdits]
    BY <1>1, <2>1 DEF Edit, TypeOK
  <2> QED BY <1>1, <2>1, <2>2 DEF Edit, procVars, TypeOK
<1>2. ASSUME NEW p \in Process, Start(p) PROVE TypeOK'
  <2>1. PICK c \in Commands : /\ cmd' = [cmd EXCEPT ![p] = c]
                              /\ Goto(p, IF c.kind = "create" THEN "check" ELSE "inputs")
    BY <1>2 DEF Start
  <2>2. pc' \in [Process -> Locations] /\ cmd' \in [Process -> Command]
    BY <2>1, GotoType DEF TypeOK, Locations
  <2>3. /\ todo' \in [Process -> SUBSET File] /\ results' \in [Process -> SUBSET Entry]
        /\ new' \in [Process -> SUBSET Entry]
    BY <1>2 DEF Start, TypeOK
  <2>4. outcome' \in [Process -> Outcomes] /\ asof' \in [Process -> [File -> 0..NoVersion]]
    <3>1. "none" \in Outcomes /\ Unread \in [File -> 0..NoVersion]
      BY UnreadType DEF Outcomes
    <3> QED BY <1>2, <3>1 DEF Start, TypeOK
  <2>5. runs' \in 0..MaxRuns
    BY <1>2 DEF Start, TypeOK
  <2> QED BY <1>2, <2>2, <2>3, <2>4, <2>5 DEF Start, TypeOK
<1>3. ASSUME NEW p \in Process, CheckExists(p) PROVE TypeOK'
  <2>1. "exit 2" \in Outcomes /\ "inputs" \in Locations
    BY DEF Outcomes, Locations
  <2>2. pc' \in [Process -> Locations] /\ outcome' \in [Process -> Outcomes]
    BY <1>3, <2>1, ExitsType, GotoType DEF CheckExists, TypeOK
  <2> QED BY <1>3, <2>2 DEF CheckExists, TypeOK
<1>4. ASSUME NEW p \in Process, CheckInputs(p) PROVE TypeOK'
  <2>1. "exit 2" \in Outcomes /\ "analyze" \in Locations
    BY DEF Outcomes, Locations
  <2>2. pc' \in [Process -> Locations] /\ outcome' \in [Process -> Outcomes]
    BY <1>4, <2>1, ExitsType, GotoType DEF CheckInputs, TypeOK
  <2>3. cmd[p].selected \subseteq File
    BY DEF TypeOK, Command
  <2>4. todo' \in [Process -> SUBSET File]
    BY <1>4, <2>3 DEF CheckInputs, TypeOK
  <2> QED BY <1>4, <2>2, <2>4 DEF CheckInputs, TypeOK
<1>5. ASSUME NEW p \in Process, AnalyzeFile(p) PROVE TypeOK'
  <2>1. PICK f \in todo[p] :
          /\ results' = [results EXCEPT ![p] = @ \cup EntriesOf(p, f)]
          /\ asof' = [asof EXCEPT ![p][f] = version[f]]
          /\ todo' = [todo EXCEPT ![p] = @ \ {f}]
    BY <1>5 DEF AnalyzeFile
  <2>2. f \in File /\ EntriesOf(p, f) \subseteq Entry
    BY EntriesType DEF TypeOK
  <2>3. results' \in [Process -> SUBSET Entry] /\ todo' \in [Process -> SUBSET File]
    BY <2>1, <2>2 DEF TypeOK
  <2>4. asof' \in [Process -> [File -> 0..NoVersion]]
    <3>1. version[f] \in 0..NoVersion
      BY <2>2 DEF TypeOK, NoVersion
    <3> QED BY <2>1, <3>1 DEF TypeOK
  <2> QED BY <1>5, <2>3, <2>4 DEF AnalyzeFile, TypeOK
<1>6. ASSUME NEW p \in Process, AnalysisDone(p) PROVE TypeOK'
  <2>1. "load" \in Locations /\ "open" \in Locations
    BY DEF Locations
  <2>2. pc' \in [Process -> Locations]
    BY <1>6, <2>1, GotoType DEF AnalysisDone
  <2> QED BY <1>6, <2>2 DEF AnalysisDone, TypeOK
<1>7. ASSUME NEW p \in Process, OpenForWriting(p) PROVE TypeOK'
  <2>1. "write" \in Locations /\ Unread \in [File -> 0..NoVersion]
    BY UnreadType DEF Locations
  <2>2. pc' \in [Process -> Locations]
    BY <1>7, <2>1, GotoType DEF OpenForWriting
  <2>3. disk' \in Content
    BY <1>7, <2>1 DEF OpenForWriting, TypeOK, Content
  <2> QED BY <1>7, <2>2, <2>3 DEF OpenForWriting, TypeOK
<1>8. ASSUME NEW p \in Process, WriteText(p) PROVE TypeOK'
  <2>1. "exit 0" \in Outcomes
    BY DEF Outcomes
  <2>2. pc' \in [Process -> Locations] /\ outcome' \in [Process -> Outcomes]
    BY <1>8, <2>1, ExitsType DEF WriteText
  <2>3. /\ results[p] \in SUBSET Entry /\ asof[p] \in [File -> 0..NoVersion]
        /\ cmd[p].spelling \in Spelling
    BY DEF TypeOK, Command
  <2> DEFINE text(k) == [kind |-> k, entries |-> results[p], spelling |-> cmd[p].spelling,
                         asof |-> asof[p]]
  <2>a. disk' = text("json") \/ disk' = text("damaged")
    BY <1>8 DEF WriteText
  <2>b. text("json") \in Content /\ text("damaged") \in Content
    BY <2>3 DEF Content
  <2>4. disk' \in Content
    BY <2>a, <2>b
  <2>5. written' \subseteq SUBSET Entry
    BY <1>8, <2>3 DEF WriteText, TypeOK
  <2>6. /\ todo' \in [Process -> SUBSET File] /\ results' \in [Process -> SUBSET Entry]
        /\ asof' \in [Process -> [File -> 0..NoVersion]]
    BY <1>8, ForgetType DEF WriteText
  <2> QED BY <1>8, <2>2, <2>4, <2>5, <2>6 DEF WriteText, TypeOK
<1>9. ASSUME NEW p \in Process, LoadAndFilter(p) PROVE TypeOK'
  <2>1. {"exit 0", "exit 1", "exit 2"} \subseteq Outcomes
    BY DEF Outcomes
  <2>2. pc' \in [Process -> Locations] /\ outcome' \in [Process -> Outcomes]
    BY <1>9, <2>1, ExitsType DEF LoadAndFilter
  <2>3. FilterNew(results[p], disk.entries) \in SUBSET Entry
    BY DEF FilterNew, TypeOK
  <2>4. \/ new' = new
        \/ new' = [new EXCEPT ![p] = FilterNew(results[p], disk.entries)]
    BY <1>9 DEF LoadAndFilter
  <2>5. new' \in [Process -> SUBSET Entry]
    BY <2>3, <2>4 DEF TypeOK
  <2> QED BY <1>9, <2>2, <2>5 DEF LoadAndFilter, TypeOK
<1>10. ASSUME NEW p \in Process, Kill(p) PROVE TypeOK'
  <2>1. "killed" \in Outcomes /\ Unread \in [File -> 0..NoVersion]
    BY UnreadType DEF Outcomes
  <2>2. pc' \in [Process -> Locations] /\ outcome' \in [Process -> Outcomes]
    BY <1>10, <2>1, ExitsType DEF Kill
  <2>3. results[p] \in SUBSET Entry /\ disk \in Content
    BY DEF TypeOK
  <2>4. disk' \in Content
    BY <1>10, <2>1, <2>3 DEF Kill, Content
  <2>5. /\ todo' \in [Process -> SUBSET File] /\ results' \in [Process -> SUBSET Entry]
        /\ asof' \in [Process -> [File -> 0..NoVersion]]
    BY <1>10, ForgetType DEF Kill
  <2> QED BY <1>10, <2>2, <2>4, <2>5 DEF Kill, TypeOK
<1>11. CASE UNCHANGED vars
  BY <1>11 DEF vars, procVars, TypeOK
<1> QED BY <1>1, <1>2, <1>3, <1>4, <1>5, <1>6, <1>7, <1>8, <1>9, <1>10, <1>11 DEF Next, Step

-----------------------------------------------------------------------------
LEMMA InitInv == Init => Inv
<1> SUFFICES ASSUME Init PROVE Inv
  OBVIOUS
<1>1. OnItsWay /\ WholeOrUnreadable
  BY DEF Init, OnItsWay, WholeOrUnreadable
<1>2. HiddenOnlyIfAccepted
  BY DEF Init, HiddenOnlyIfAccepted, Judged
<1> QED BY <1>1, <1>2, InitType DEF Inv

LEMMA NextOnItsWay == Inv /\ [Next]_vars => OnItsWay'
<1> SUFFICES ASSUME Inv, [Next]_vars PROVE OnItsWay'
  OBVIOUS
<1> USE DEF OnItsWay
<1>1. TypeOK /\ OnItsWay
  BY DEF Inv
<1>2. ASSUME NEW p \in Process, Start(p) PROVE OnItsWay'
  <2>1. PICK c \in Commands : /\ cmd' = [cmd EXCEPT ![p] = c]
                              /\ Goto(p, IF c.kind = "create" THEN "check" ELSE "inputs")
    BY <1>2 DEF Start
  <2> QED BY <1>1, <2>1 DEF Goto, TypeOK
<1>3. ASSUME NEW p \in Process, Step(p) PROVE OnItsWay'
  <2>1. ASSUME NEW loc \in {"inputs", "analyze", "idle"}, pc' = [pc EXCEPT ![p] = loc], cmd' = cmd
        PROVE  OnItsWay'
    BY <1>1, <2>1 DEF TypeOK
  <2>2. CASE CheckExists(p)
    BY <2>1, <2>2 DEF CheckExists, Exits, Goto
  <2>3. CASE CheckInputs(p)
    BY <2>1, <2>3 DEF CheckInputs, Exits, Goto
  <2>4. CASE AnalyzeFile(p)
    BY <1>1, <2>4 DEF AnalyzeFile
  <2>5. CASE AnalysisDone(p)
    BY <1>1, <2>5 DEF AnalysisDone, Goto, TypeOK
  <2>6. CASE OpenForWriting(p)
    BY <1>1, <2>6 DEF OpenForWriting, Goto, TypeOK
  <2>7. CASE WriteText(p)
    BY <2>1, <2>7 DEF WriteText, Exits
  <2>8. CASE LoadAndFilter(p)
    BY <2>1, <2>8 DEF LoadAndFilter, Exits
  <2> QED BY <1>3, <2>2, <2>3, <2>4, <2>5, <2>6, <2>7, <2>8 DEF Step
<1>4. ASSUME NEW p \in Process, Kill(p) PROVE OnItsWay'
  BY <1>1, <1>4 DEF Kill, Exits, TypeOK
<1>5. ASSUME NEW f \in File, Edit(f) PROVE OnItsWay'
  BY <1>1, <1>5 DEF Edit, procVars
<1>6. CASE UNCHANGED vars
  BY <1>1, <1>6 DEF vars, procVars
<1> QED BY <1>2, <1>3, <1>4, <1>5, <1>6 DEF Next

\* The file is truncated before it is written, and what is in it until then,
\* or after a kill, cannot be read.
LEMMA NextWhole == Inv /\ [Next]_vars => WholeOrUnreadable' /\ written \subseteq written'
<1> SUFFICES ASSUME Inv, [Next]_vars PROVE WholeOrUnreadable' /\ written \subseteq written'
  OBVIOUS
<1>1. disk \in Content /\ WholeOrUnreadable
  BY DEF Inv, TypeOK
<1>2. CASE disk' = disk /\ written' = written
  BY <1>1, <1>2 DEF WholeOrUnreadable
<1>3. ASSUME NEW p \in Process, OpenForWriting(p)
      PROVE  WholeOrUnreadable' /\ written \subseteq written'
  <2>1. disk'.kind = "empty" /\ written' = written
    BY <1>1, <1>3 DEF OpenForWriting, Content
  <2> QED BY <2>1 DEF WholeOrUnreadable
<1>4. ASSUME NEW p \in Process, WriteText(p)
      PROVE  WholeOrUnreadable' /\ written \subseteq written'
  <2>1. disk'.entries = results[p]
    <3> DEFINE text(k) == [kind |-> k, entries |-> results[p], spelling |-> cmd[p].spelling,
                           asof |-> asof[p]]
    <3>1. disk' = text("json") \/ disk' = text("damaged")
      BY <1>4 DEF WriteText
    <3> QED BY <3>1
  <2>2. written' = written \cup {results[p]}
    BY <1>4 DEF WriteText
  <2> QED BY <2>1, <2>2 DEF WholeOrUnreadable
<1>5. ASSUME NEW p \in Process, Kill(p)
      PROVE  WholeOrUnreadable' /\ written \subseteq written'
  <2>1. written' = written /\ (disk' = disk \/ disk'.kind = "damaged")
    BY <1>1, <1>5 DEF Kill, Content
  <2> QED BY <1>1, <2>1 DEF WholeOrUnreadable
<1>6. ASSUME NEW f \in File, Edit(f) PROVE disk' = disk /\ written' = written
  BY <1>6 DEF Edit
<1>7. ASSUME NEW p \in Process,
             Start(p) \/ CheckExists(p) \/ CheckInputs(p) \/ AnalyzeFile(p)
               \/ AnalysisDone(p) \/ LoadAndFilter(p)
      PROVE  disk' = disk /\ written' = written
  BY <1>7 DEF Start, CheckExists, CheckInputs, AnalyzeFile, AnalysisDone, LoadAndFilter
<1>8. CASE UNCHANGED vars
  BY <1>2, <1>8 DEF vars
<1> QED BY <1>2, <1>3, <1>4, <1>5, <1>6, <1>7, <1>8 DEF Next, Step

LEMMA SameKeyAccepts ==
  ASSUME NEW k, NEW e, Key(k) = Key(e)
  PROVE  Accepts(k, e)
BY DEF Key, Accepts

\* The one step after which a scan has judged; every other step leaves a judged
\* scan's memory alone, or ends the judgement.
LEMMA NextHidden == Inv /\ [Next]_vars => HiddenOnlyIfAccepted'
<1> SUFFICES ASSUME Inv, [Next]_vars, NEW p \in Process, Judged(p)',
                    NEW e \in results'[p] \ new'[p]
             PROVE  \E S \in written' : \E k \in S : Accepts(k, e)
  BY DEF HiddenOnlyIfAccepted
<1>1. TypeOK /\ OnItsWay /\ WholeOrUnreadable /\ HiddenOnlyIfAccepted /\ written \subseteq written'
  BY NextWhole DEF Inv
<1>2. CASE Judged(p) /\ results'[p] = results[p] /\ new'[p] = new[p]
  BY <1>1, <1>2 DEF HiddenOnlyIfAccepted
<1>3. CASE LoadAndFilter(p)
  <2> DEFINE fresh == FilterNew(results[p], disk.entries)
  <2>1. disk.kind = "json"
    BY <1>1, <1>3 DEF LoadAndFilter, Exits, Judged, TypeOK
  <2>2. /\ new' = [new EXCEPT ![p] = fresh] /\ new \in [Process -> SUBSET Entry]
        /\ results' = results
    BY <1>1, <1>3, <2>1 DEF LoadAndFilter, TypeOK
  <2>3. e \in results[p] /\ e \notin fresh
    BY <2>2
  <2>4. Key(e) \in Keys(disk.entries)
    BY <2>3 DEF FilterNew
  <2>5. PICK k \in disk.entries : Key(k) = Key(e)
    BY <2>4 DEF Keys
  <2>6. disk.entries \in written'
    BY <1>1, <2>1 DEF WholeOrUnreadable
  <2> QED BY <2>5, <2>6, SameKeyAccepts
<1>4. CASE UNCHANGED <<pc, cmd, outcome, results, new>>
  BY <1>2, <1>4 DEF Judged
<1>5. ASSUME NEW q \in Process, q # p, Start(q) \/ Step(q) \/ Kill(q)
      PROVE  Judged(p) /\ results'[p] = results[p] /\ new'[p] = new[p]
  <2>1. pc'[p] = pc[p] /\ outcome'[p] = outcome[p]
    BY <1>1, <1>5 DEF TypeOK, Start, Step, Kill, CheckExists, CheckInputs, AnalyzeFile, AnalysisDone,
                      OpenForWriting, WriteText, LoadAndFilter, Exits, Goto
  <2>2. cmd'[p] = cmd[p] /\ results'[p] = results[p]
    BY <1>1, <1>5 DEF TypeOK, Start, Step, Kill, CheckExists, CheckInputs, AnalyzeFile, AnalysisDone,
                      OpenForWriting, WriteText, LoadAndFilter, Forget
  <2>3. new'[p] = new[p]
    BY <1>1, <1>5 DEF TypeOK, Start, Step, Kill, CheckExists, CheckInputs, AnalyzeFile, AnalysisDone,
                      OpenForWriting, WriteText, LoadAndFilter
  <2> QED BY <2>1, <2>2, <2>3 DEF Judged
<1>6. CASE Start(p) \/ Kill(p)
  BY <1>1, <1>6 DEF Start, Kill, Exits, Goto, Judged, TypeOK
<1>7. CASE CheckExists(p) \/ CheckInputs(p)
  BY <1>1, <1>7 DEF CheckExists, CheckInputs, Exits, Goto, Judged, TypeOK
<1>8. CASE AnalyzeFile(p) \/ AnalysisDone(p) \/ OpenForWriting(p)
  BY <1>1, <1>8 DEF AnalyzeFile, AnalysisDone, OpenForWriting, Goto, Judged, TypeOK
<1>9. CASE WriteText(p)
  BY <1>1, <1>9 DEF WriteText, OnItsWay, Judged
<1>10. ASSUME NEW f \in File, Edit(f) PROVE UNCHANGED <<pc, cmd, outcome, results, new>>
  BY <1>10 DEF Edit, procVars
<1>11. CASE UNCHANGED vars
  BY <1>4, <1>11 DEF vars, procVars
<1> QED BY <1>2, <1>3, <1>4, <1>5, <1>6, <1>7, <1>8, <1>9, <1>10, <1>11 DEF Next, Step

LEMMA NextInv == Inv /\ [Next]_vars => Inv'
BY NextType, NextOnItsWay, NextWhole, NextHidden DEF Inv

\* A scan hides a finding only if a baseline written in full lists one of the
\* same file, rule and line, whatever the number of processes, whoever is killed
\* in the middle of a write and however writes and scans overlap.
THEOREM HidesOnlyWhatWasAccepted == Spec => []HiddenOnlyIfAccepted
<1>1. Inv => HiddenOnlyIfAccepted
  BY DEF Inv
<1> QED BY <1>1, InitInv, NextInv, PTL DEF Spec

\* Type correctness: the file holds nothing, a part of a text, or a baseline some
\* command has computed.
THEOREM BaselineTypes == Spec => []TypeOK
<1>1. Inv => TypeOK
  BY DEF Inv
<1> QED BY <1>1, InitInv, NextInv, PTL DEF Spec

-----------------------------------------------------------------------------
(***************************************************************************)
(* Refinement.  Each step is a step of the ledger or leaves ledger and     *)
(* answers as they are.                                                    *)
(***************************************************************************)
Answers == [p \in Process |-> AnswerOf(p)]

\* What the ledger shows of a file, and of a process that has not answered.
LEMMA LedgerFacts ==
  /\ disk.kind = "json" => LedgerOf = Ledger!Readable(disk.entries) /\ LedgerOf.readable
  /\ disk.kind # "json" => LedgerOf = Ledger!Unreadable
BY DEF LedgerOf, Keys, Ledger!Readable, Ledger!Unreadable

LEMMA NotAnswered ==
  ASSUME NEW p, pc[p] # "idle" \/ cmd[p].kind # "scan" \/ outcome[p] \in {"none", "killed"}
  PROVE  AnswerOf(p) = Ledger!Pending
BY DEF AnswerOf, Ledger!Pending

LEMMA NotAnsweredNext ==
  ASSUME NEW p, pc'[p] # "idle" \/ cmd'[p].kind # "scan" \/ outcome'[p] \in {"none", "killed"}
  PROVE  AnswerOf(p)' = Ledger!Pending
BY DEF AnswerOf, Ledger!Pending

\* A step of one process leaves the others' answers alone.
LEMMA OneAnswer ==
  ASSUME TypeOK, NEW p \in Process, Start(p) \/ Step(p) \/ Kill(p)
  PROVE  \A q \in Process : q # p => AnswerOf(q)' = AnswerOf(q)
<1> SUFFICES ASSUME NEW q \in Process, q # p PROVE AnswerOf(q)' = AnswerOf(q)
  OBVIOUS
<1>1. pc'[q] = pc[q] /\ outcome'[q] = outcome[q]
  BY DEF TypeOK, Start, Step, Kill, CheckExists, CheckInputs, AnalyzeFile, AnalysisDone,
         OpenForWriting, WriteText, LoadAndFilter, Exits, Goto
<1>2. cmd'[q] = cmd[q] /\ results'[q] = results[q]
  BY DEF TypeOK, Start, Step, Kill, CheckExists, CheckInputs, AnalyzeFile, AnalysisDone,
         OpenForWriting, WriteText, LoadAndFilter, Forget
<1>3. new'[q] = new[q]
  BY DEF TypeOK, Start, Step, Kill, CheckExists, CheckInputs, AnalyzeFile, AnalysisDone,
         OpenForWriting, WriteText, LoadAndFilter
<1> QED BY <1>1, <1>2, <1>3 DEF AnswerOf

LEMMA AnswersChange ==
  ASSUME NEW p \in Process, \A q \in Process : q # p => AnswerOf(q)' = AnswerOf(q)
  PROVE  /\ Answers' = [Answers EXCEPT ![p] = AnswerOf(p)']
         /\ Answers[p] = AnswerOf(p)
         /\ AnswerOf(p)' = AnswerOf(p) => Answers' = Answers
BY DEF Answers

LEMMA LedgerStep == Inv /\ [Next]_vars => [Ledger!LedgerNext]_(Ledger!ledgerVars)
<1> SUFFICES ASSUME Inv, [Next]_vars PROVE Ledger!LedgerNext \/ UNCHANGED <<LedgerOf, Answers>>
  BY DEF Ledger!ledgerVars, Answers
<1> DEFINE Same == LedgerOf' = LedgerOf /\ Answers' = Answers
<1>1. TypeOK /\ OnItsWay
  BY DEF Inv
<1>2. ASSUME NEW p \in Process, Start(p) PROVE Ledger!LedgerNext
  <2>1. LedgerOf' = LedgerOf
    BY <1>2 DEF Start, LedgerOf
  <2>2. pc'[p] # "idle"
    BY <1>1, <1>2 DEF Start, Goto, TypeOK
  <2>3. Answers' = [Answers EXCEPT ![p] = Ledger!Pending]
    BY <1>1, <1>2, <2>2, OneAnswer, AnswersChange, NotAnsweredNext
  <2>4. Ledger!Ask(p)
    BY <2>1, <2>3 DEF Ledger!Ask, Answers
  <2> QED BY <2>4 DEF Ledger!LedgerNext
<1>3. ASSUME NEW p \in Process, CheckExists(p) \/ AnalyzeFile(p) \/ AnalysisDone(p) PROVE Same
  <2>1. LedgerOf' = LedgerOf
    BY <1>3 DEF CheckExists, AnalyzeFile, AnalysisDone, LedgerOf
  <2>2. AnswerOf(p) = Ledger!Pending
    BY <1>3, NotAnswered DEF CheckExists, AnalyzeFile, AnalysisDone
  <2>3. pc'[p] # "idle" \/ cmd'[p].kind # "scan"
    BY <1>1, <1>3 DEF CheckExists, AnalyzeFile, AnalysisDone, Goto, TypeOK, OnItsWay
  <2>4. AnswerOf(p)' = Ledger!Pending
    BY <2>3, NotAnsweredNext
  <2> QED BY <1>1, <1>3, <2>1, <2>2, <2>4, OneAnswer, AnswersChange DEF Step
<1>4. ASSUME NEW p \in Process, OpenForWriting(p) PROVE Ledger!LedgerNext
  <2>1. LedgerOf' = Ledger!Unreadable
    BY <1>1, <1>4 DEF OpenForWriting, LedgerOf, Ledger!Unreadable, TypeOK, Content
  <2>2. AnswerOf(p) = Ledger!Pending
    BY <1>4, NotAnswered DEF OpenForWriting
  <2>3. pc'[p] # "idle"
    BY <1>1, <1>4 DEF OpenForWriting, Goto, TypeOK
  <2>4. Answers' = Answers
    BY <1>1, <1>4, <2>2, <2>3, NotAnsweredNext, OneAnswer, AnswersChange DEF Step
  <2>5. Ledger!Lose
    BY <2>1, <2>4 DEF Ledger!Lose, Answers
  <2> QED BY <2>5 DEF Ledger!LedgerNext
<1>5. ASSUME NEW p \in Process, WriteText(p) PROVE Ledger!LedgerNext \/ Same
  <2>1. AnswerOf(p) = Ledger!Pending
    BY <1>5, NotAnswered DEF WriteText
  <2>2. cmd'[p].kind # "scan"
    BY <1>1, <1>5 DEF WriteText, OnItsWay
  <2>3. Answers' = Answers
    BY <1>1, <1>5, <2>1, <2>2, NotAnsweredNext, OneAnswer, AnswersChange DEF Step
  <2> DEFINE text(k) == [kind |-> k, entries |-> results[p], spelling |-> cmd[p].spelling,
                         asof |-> asof[p]]
  <2>4. disk' = text("json") \/ disk' = text("damaged")
    BY <1>5 DEF WriteText
  <2>5. CASE disk' = text("json")
    <3>1. LedgerOf' = Ledger!Readable(results[p]) /\ LedgerOf'.readable
      BY <2>5 DEF LedgerOf, Keys, Ledger!Readable
    <3>2. results[p] \in SUBSET Entry
      BY <1>1 DEF TypeOK
    <3>3. CASE LedgerOf' # LedgerOf
      BY <2>3, <3>1, <3>2, <3>3 DEF Ledger!LedgerNext, Ledger!Adopt, Answers
    <3>4. CASE LedgerOf' = LedgerOf
      BY <2>3, <3>4
    <3> QED BY <3>3, <3>4
  <2>6. CASE disk' = text("damaged")
    <3>1. LedgerOf' = Ledger!Unreadable
      BY <2>6 DEF LedgerOf, Ledger!Unreadable
    <3> QED BY <2>3, <3>1 DEF Ledger!LedgerNext, Ledger!Lose, Answers
  <2> QED BY <2>4, <2>5, <2>6
\* A command gives up: a scan's caller is told, another command's answer is not
\* one the ledger knows.
<1>6. ASSUME NEW p \in Process, Exits(p, "exit 2"), LedgerOf' = LedgerOf, cmd' = cmd,
             AnswerOf(p) = Ledger!Pending,
             \A q \in Process : q # p => AnswerOf(q)' = AnswerOf(q)
      PROVE  Ledger!LedgerNext \/ Same
  <2>1. pc'[p] = "idle" /\ outcome'[p] = "exit 2"
    BY <1>1, <1>6 DEF Exits, TypeOK
  <2>2. CASE cmd[p].kind = "scan"
    <3>1. AnswerOf(p)' = Ledger!Error
      BY <1>6, <2>1, <2>2 DEF AnswerOf, Ledger!Error
    <3>2. Answers' = [Answers EXCEPT ![p] = Ledger!Error] /\ Answers[p] = Ledger!Pending
      BY <1>6, <3>1, AnswersChange
    <3> QED BY <1>6, <3>2 DEF Ledger!LedgerNext, Ledger!Fail, Answers
  <2>3. CASE cmd[p].kind # "scan"
    BY <1>6, <2>3, NotAnsweredNext, AnswersChange
  <2> QED BY <2>2, <2>3
<1>7. ASSUME NEW p \in Process, CheckInputs(p) PROVE Ledger!LedgerNext \/ Same
  <2>1. LedgerOf' = LedgerOf /\ cmd' = cmd
    BY <1>7 DEF CheckInputs, LedgerOf
  <2>2. AnswerOf(p) = Ledger!Pending
    BY <1>7, NotAnswered DEF CheckInputs
  <2>3. \A q \in Process : q # p => AnswerOf(q)' = AnswerOf(q)
    BY <1>1, <1>7, OneAnswer DEF Step
  <2>4. CASE Exits(p, "exit 2")
    BY <1>6, <2>1, <2>2, <2>3, <2>4
  <2>5. CASE Goto(p, "analyze")
    <3>1. pc'[p] # "idle"
      BY <1>1, <2>5 DEF Goto, TypeOK
    <3> QED BY <2>1, <2>2, <2>3, <3>1, NotAnsweredNext, AnswersChange
  <2> QED BY <1>7, <2>4, <2>5 DEF CheckInputs
<1>8. ASSUME NEW p \in Process, LoadAndFilter(p) PROVE Ledger!LedgerNext \/ Same
  <2>1. LedgerOf' = LedgerOf /\ cmd' = cmd /\ results' = results
    BY <1>8 DEF LoadAndFilter, LedgerOf
  <2>2. AnswerOf(p) = Ledger!Pending
    BY <1>8, NotAnswered DEF LoadAndFilter
  <2>3. \A q \in Process : q # p => AnswerOf(q)' = AnswerOf(q)
    BY <1>1, <1>8, OneAnswer DEF Step
  <2>4. CASE disk.kind # "json"
    BY <1>6, <1>8, <2>1, <2>2, <2>3, <2>4 DEF LoadAndFilter
  <2>5. CASE disk.kind = "json"
    <3> DEFINE fresh == FilterNew(results[p], disk.entries)
    <3>1. /\ new'[p] = fresh /\ pc'[p] = "idle" /\ outcome'[p] \in {"exit 0", "exit 1"}
          /\ cmd'[p].kind = "scan"
      BY <1>1, <1>8, <2>1, <2>5 DEF LoadAndFilter, Exits, TypeOK, OnItsWay
    <3>2. AnswerOf(p)' = Ledger!Report(results[p], fresh)
      BY <2>1, <3>1 DEF AnswerOf, Ledger!Report
    <3>3. fresh = {e \in results[p] : Key(e) \notin LedgerOf.keys}
      BY <2>5 DEF FilterNew, LedgerOf
    <3>4. results[p] \in SUBSET Entry /\ LedgerOf.readable
      BY <1>1, <2>5 DEF TypeOK, LedgerOf
    <3> HIDE DEF fresh
    <3>5. /\ Answers' = [Answers EXCEPT ![p] = Ledger!Report(results[p], fresh)]
          /\ Answers[p] = Ledger!Pending
      BY <2>2, <2>3, <3>2, AnswersChange
    <3>6. Answers' # Answers
      <4>1. Answers'[p] = Ledger!Report(results[p], fresh)
        BY <3>5 DEF Answers
      <4>2. Ledger!Report(results[p], fresh) # Ledger!Pending
        BY DEF Ledger!Report, Ledger!Pending
      <4> QED BY <3>5, <4>1, <4>2
    <3>7. Ledger!Decide(p)
      BY <2>1, <3>3, <3>4, <3>5, <3>6 DEF Ledger!Decide, Answers
    <3> QED BY <3>7 DEF Ledger!LedgerNext
  <2> QED BY <2>4, <2>5
<1>9. ASSUME NEW p \in Process, Kill(p) PROVE Ledger!LedgerNext \/ Same
  <2>1. AnswerOf(p) = Ledger!Pending /\ outcome'[p] = "killed"
    BY <1>1, <1>9, NotAnswered DEF Kill, Exits, TypeOK
  <2>2. Answers' = Answers
    BY <1>1, <1>9, <2>1, NotAnsweredNext, OneAnswer, AnswersChange
  <2>3. LedgerOf' = LedgerOf \/ LedgerOf' = Ledger!Unreadable
    BY <1>1, <1>9 DEF Kill, LedgerOf, Ledger!Unreadable, TypeOK, Content
  <2> QED BY <2>2, <2>3 DEF Ledger!LedgerNext, Ledger!Lose, Answers
<1>10. ASSUME NEW f \in File, Edit(f) PROVE Same
  BY <1>10 DEF Edit, procVars, LedgerOf, Answers, AnswerOf
<1>11. CASE UNCHANGED vars
  BY <1>11 DEF vars, procVars, LedgerOf, Answers, AnswerOf
<1> QED BY <1>2, <1>3, <1>4, <1>5, <1>7, <1>8, <1>9, <1>10, <1>11 DEF Next, Step

LEMMA LedgerInitially == Init => Ledger!LedgerInit
<1> SUFFICES ASSUME Init PROVE Ledger!LedgerInit
  OBVIOUS
<1>1. LedgerOf = Ledger!Unreadable
  <2>1. disk.kind = "missing"
    BY DEF Init
  <2> QED BY <2>1, LedgerFacts
<1>2. ASSUME NEW p \in Process PROVE AnswerOf(p) = Ledger!Pending
  BY NotAnswered DEF Init
<1> QED BY <1>1, <1>2 DEF Ledger!LedgerInit

\* Behind files, walks, kills and overlapping commands there is one ledger, and
\* a scan decides by it at one instant.
THEOREM BaselineImplementsLedger == Spec => ImplementsLedger
BY InitInv, NextInv, LedgerStep, LedgerInitially, PTL
   DEF Spec, ImplementsLedger, Ledger!LedgerSpec

-----------------------------------------------------------------------------
(***************************************************************************)
(* A scan and the files that are as they were when its baseline was taken. *)
(* The versions of a file are gone; what is left of one are the findings   *)
(* that the processes and the baseline remember of it, and these agree.    *)
(***************************************************************************)

\* What somebody has read, and which version of each file it was.
ReadingOf(p) == [asof |-> asof[p], spelling |-> cmd[p].spelling, entries |-> results[p]]
OnDisk   == [asof |-> disk.asof, spelling |-> disk.spelling, entries |-> disk.entries]
Readings == {ReadingOf(p) : p \in Process} \cup {OnDisk}

\* The findings a reading has of a file, those apart that need the flag.
Seen(r, f) == {v \in Finding \ OptIn : <<<<r.spelling, f>>, v>> \in r.entries}
IsCurrent(r, f) == r.asof[f] = version[f] /\ Seen(r, f) = tree[f] \ OptIn

\* Two readings of one version of a file agree, and one of its present version is right.
Snapshots ==
  /\ \A f \in File : version[f] <= edits
  /\ \A r \in Readings, f \in File : r.asof[f] # NoVersion =>
       r.asof[f] <= edits /\ (r.asof[f] = version[f] => IsCurrent(r, f))
  /\ \A r, s \in Readings, f \in File :
       r.asof[f] = s.asof[f] /\ r.asof[f] # NoVersion => Seen(r, f) = Seen(s, f)

\* Where one process has got to: what it has of a file it has read.
OnCourse(p) ==
  /\ pc[p] \in {"check", "inputs"} => results[p] = {}
  /\ pc[p] \in {"open", "write", "load"} => todo[p] = {}
  /\ pc[p] # "idle" => outcome[p] = "none"
  /\ todo[p] \subseteq cmd[p].selected
  /\ \A e \in results[p] : /\ e[1][1] = cmd[p].spelling /\ e[1][2] \in cmd[p].selected \ todo[p]
                           /\ cmd[p].broad \/ e[2] \notin OptIn

Progress == \A p \in Process : OnCourse(p)

SnapInv == TypeOK /\ Progress /\ Snapshots

LEMMA InitSnap == Init => SnapInv
<1> SUFFICES ASSUME Init PROVE SnapInv
  OBVIOUS
<1>1. Progress
  BY DEF Init, Progress, OnCourse
<1>2. \A r \in Readings, f \in File : r.asof[f] = NoVersion
  BY DEF Init, Readings, ReadingOf, OnDisk, Unread
<1>3. \A f \in File : version[f] <= edits
  BY DEF Init
<1> QED BY <1>1, <1>2, <1>3, InitType DEF SnapInv, Snapshots

\* A step of one process leaves the others' memory alone.
LEMMA OthersStay ==
  ASSUME TypeOK, NEW p \in Process, Start(p) \/ Step(p) \/ Kill(p), NEW q \in Process, q # p
  PROVE  /\ pc'[q] = pc[q] /\ outcome'[q] = outcome[q] /\ cmd'[q] = cmd[q]
         /\ results'[q] = results[q] /\ todo'[q] = todo[q] /\ asof'[q] = asof[q]
<1>1. pc'[q] = pc[q] /\ outcome'[q] = outcome[q]
  BY DEF TypeOK, Start, Step, Kill, CheckExists, CheckInputs, AnalyzeFile, AnalysisDone,
         OpenForWriting, WriteText, LoadAndFilter, Exits, Goto
<1>2. cmd'[q] = cmd[q] /\ results'[q] = results[q]
  BY DEF TypeOK, Start, Step, Kill, CheckExists, CheckInputs, AnalyzeFile, AnalysisDone,
         OpenForWriting, WriteText, LoadAndFilter, Forget
<1>3. todo'[q] = todo[q] /\ asof'[q] = asof[q]
  BY DEF TypeOK, Start, Step, Kill, CheckExists, CheckInputs, AnalyzeFile, AnalysisDone,
         OpenForWriting, WriteText, LoadAndFilter, Forget
<1> QED BY <1>1, <1>2, <1>3

LEMMA StepOnCourse ==
  ASSUME TypeOK, NEW p \in Process, OnCourse(p), Start(p) \/ Step(p) \/ Kill(p)
  PROVE  OnCourse(p)'
<1> USE DEF OnCourse
<1>1. CASE Start(p)
  BY <1>1 DEF Start, Goto, TypeOK
<1>2. CASE CheckExists(p)
  BY <1>2 DEF CheckExists, Exits, Goto, TypeOK
<1>3. CASE CheckInputs(p)
  BY <1>3 DEF CheckInputs, Exits, Goto, TypeOK
<1>4. CASE AnalyzeFile(p)
  <2>1. PICK f \in todo[p] : /\ results' = [results EXCEPT ![p] = @ \cup EntriesOf(p, f)]
                             /\ todo' = [todo EXCEPT ![p] = @ \ {f}]
    BY <1>4 DEF AnalyzeFile
  <2>2. /\ results'[p] = results[p] \cup EntriesOf(p, f) /\ todo'[p] = todo[p] \ {f}
        /\ cmd' = cmd /\ pc' = pc /\ outcome' = outcome /\ pc[p] = "analyze"
    BY <1>4, <2>1 DEF AnalyzeFile, TypeOK
  <2>3. f \in cmd[p].selected
    OBVIOUS
  <2>4. \A e \in EntriesOf(p, f) : /\ e[1][1] = cmd[p].spelling /\ e[1][2] = f
                                   /\ cmd[p].broad \/ e[2] \notin OptIn
    BY DEF EntriesOf, Reported
  <2>5. \A e \in results'[p] : /\ e[1][1] = cmd[p].spelling /\ e[1][2] \in cmd[p].selected \ todo'[p]
                               /\ cmd[p].broad \/ e[2] \notin OptIn
    BY <2>2, <2>3, <2>4
  <2> QED BY <2>2, <2>5
<1>5. CASE AnalysisDone(p)
  BY <1>5 DEF AnalysisDone, Goto, TypeOK
<1>6. CASE OpenForWriting(p)
  BY <1>6 DEF OpenForWriting, Goto, TypeOK
<1>7. CASE WriteText(p)
  BY <1>7 DEF WriteText, Exits, Forget, TypeOK
<1>8. CASE LoadAndFilter(p)
  BY <1>8 DEF LoadAndFilter, Exits, TypeOK
<1>9. CASE Kill(p)
  BY <1>9 DEF Kill, Exits, Forget, TypeOK
<1> QED BY <1>1, <1>2, <1>3, <1>4, <1>5, <1>6, <1>7, <1>8, <1>9 DEF Step

LEMMA NextProgress == TypeOK /\ Progress /\ [Next]_vars => Progress'
<1> SUFFICES ASSUME TypeOK, Progress, [Next]_vars PROVE Progress'
  OBVIOUS
<1>1. ASSUME NEW p \in Process, Start(p) \/ Step(p) \/ Kill(p) PROVE Progress'
  <2> SUFFICES ASSUME NEW q \in Process PROVE OnCourse(q)'
    BY DEF Progress
  <2>1. OnCourse(q) /\ OnCourse(p)
    BY DEF Progress
  <2>2. CASE q = p
    BY <1>1, <2>1, <2>2, StepOnCourse
  <2>3. CASE q # p
    BY <1>1, <2>1, <2>3, OthersStay DEF OnCourse
  <2> QED BY <2>2, <2>3
<1>2. ASSUME UNCHANGED procVars PROVE Progress'
  BY <1>2 DEF Progress, OnCourse, procVars
<1>3. ASSUME NEW f \in File, Edit(f) PROVE UNCHANGED procVars
  BY <1>3 DEF Edit
<1>4. UNCHANGED vars => UNCHANGED procVars
  BY DEF vars
<1> QED BY <1>1, <1>2, <1>3, <1>4 DEF Next

\* r tells of file f what a reading of before did, nothing, or how the file is.
Sound(r, f) ==
  \/ \E s \in Readings : r.asof[f] = s.asof[f] /\ Seen(r, f) = Seen(s, f)
  \/ r.asof[f] = NoVersion
  \/ IsCurrent(r, f)

\* A step that only adds sound readings keeps the rest.
LEMMA SnapshotsKept ==
  ASSUME Snapshots, edits' = edits, tree' = tree, version' = version,
         \A r \in Readings', f \in File : Sound(r, f)
  PROVE  Snapshots'
<1>1. \A r, f : (IsCurrent(r, f)' <=> IsCurrent(r, f)) /\ Seen(r, f)' = Seen(r, f)
  BY DEF IsCurrent, Seen
<1>2. ASSUME NEW r \in Readings', NEW f \in File, r.asof[f] # NoVersion
      PROVE  r.asof[f] <= edits /\ (r.asof[f] = version[f] => IsCurrent(r, f))
  BY <1>2 DEF Snapshots, Sound, IsCurrent
<1>3. ASSUME NEW r \in Readings', NEW s \in Readings', NEW f \in File,
             r.asof[f] = s.asof[f], r.asof[f] # NoVersion
      PROVE  Seen(r, f) = Seen(s, f)
  <2>1. CASE IsCurrent(r, f) \/ IsCurrent(s, f)
    <3>1. IsCurrent(r, f) /\ IsCurrent(s, f)
      BY <1>2, <1>3, <2>1 DEF IsCurrent
    <3> QED BY <3>1 DEF IsCurrent
  <2>2. CASE ~IsCurrent(r, f) /\ ~IsCurrent(s, f)
    <3>1. PICK r0 \in Readings : r.asof[f] = r0.asof[f] /\ Seen(r, f) = Seen(r0, f)
      BY <1>3, <2>2 DEF Sound
    <3>2. PICK s0 \in Readings : s.asof[f] = s0.asof[f] /\ Seen(s, f) = Seen(s0, f)
      BY <1>3, <2>2 DEF Sound
    <3> QED BY <1>3, <3>1, <3>2 DEF Snapshots
  <2> QED BY <2>1, <2>2
<1>4. NoVersion' = NoVersion
  BY DEF NoVersion
<1> QED BY <1>1, <1>2, <1>3, <1>4 DEF Snapshots

\* What a process reads of one file adds the present version of that file to what it
\* has, and leaves what it has of the others.
LEMMA AnalyzeSound ==
  ASSUME SnapInv, NEW p \in Process, AnalyzeFile(p), NEW g \in File
  PROVE  Sound(ReadingOf(p)', g)
<1>1. TypeOK /\ OnCourse(p)
  BY DEF SnapInv, Progress
<1>2. PICK f \in todo[p] :
        /\ results' = [results EXCEPT ![p] = @ \cup EntriesOf(p, f)]
        /\ asof' = [asof EXCEPT ![p][f] = version[f]]
  BY DEF AnalyzeFile
<1>3. f \in File /\ tree[f] \subseteq Finding
  BY <1>1 DEF TypeOK
<1>4. /\ results'[p] = results[p] \cup EntriesOf(p, f) /\ cmd' = cmd
      /\ asof'[p] = [asof[p] EXCEPT ![f] = version[f]] /\ asof[p] \in [File -> 0..NoVersion]
  BY <1>1, <1>2 DEF AnalyzeFile, TypeOK
<1> DEFINE sp == cmd[p].spelling
           r  == ReadingOf(p)'
<1>5. r.asof = asof'[p] /\ r.spelling = sp /\ r.entries = results[p] \cup EntriesOf(p, f)
  BY <1>4 DEF ReadingOf
<1>6. Seen(r, g) = {v \in Finding \ OptIn : <<<<sp, g>>, v>> \in results[p] \cup EntriesOf(p, f)}
  BY <1>5 DEF Seen
<1>7. CASE g = f
  <2>1. \A v : <<<<sp, f>>, v>> \notin results[p]
    <3>1. \A e \in results[p] : e[1][2] \notin todo[p]
      BY <1>1 DEF OnCourse
    <3> QED BY <3>1
  <2>2. \A v : v \notin OptIn => (<<<<sp, f>>, v>> \in EntriesOf(p, f) <=> v \in tree[f])
    BY DEF EntriesOf, Reported
  <2>3. Seen(r, f) = tree[f] \ OptIn
    BY <1>3, <1>6, <1>7, <2>1, <2>2
  <2>4. r.asof[f] = version[f]
    BY <1>3, <1>4, <1>5
  <2> QED BY <1>7, <2>3, <2>4 DEF Sound, IsCurrent
<1>8. CASE g # f
  <2>1. \A v : <<<<sp, g>>, v>> \notin EntriesOf(p, f)
    BY <1>8 DEF EntriesOf
  <2>2. Seen(r, g) = Seen(ReadingOf(p), g)
    BY <1>6, <2>1 DEF Seen, ReadingOf
  <2>3. r.asof[g] = ReadingOf(p).asof[g]
    BY <1>4, <1>5, <1>8 DEF ReadingOf
  <2> QED BY <2>2, <2>3 DEF Sound, Readings
<1> QED BY <1>7, <1>8

\* What each step does to the readings.
LEMMA NextSnapshots == SnapInv /\ [Next]_vars => Snapshots'
<1> SUFFICES ASSUME SnapInv, [Next]_vars PROVE Snapshots'
  OBVIOUS
<1>1. TypeOK /\ Progress /\ Snapshots
  BY DEF SnapInv
<1>2. ASSUME UNCHANGED <<disk, procVars>> PROVE Readings' = Readings
  BY <1>2 DEF Readings, ReadingOf, OnDisk, procVars
<1>3. ASSUME NEW f \in File, Edit(f) PROVE Snapshots'
  <2>1. /\ Readings' = Readings /\ edits' = edits + 1 /\ edits < MaxEdits /\ edits \in Nat
        /\ version' = [version EXCEPT ![f] = edits + 1] /\ version \in [File -> 0..MaxEdits]
        /\ \A g \in File : g # f => tree'[g] = tree[g]
    BY <1>1, <1>2, <1>3 DEF Edit, TypeOK
  <2>2. \A r \in Readings, g \in File : r.asof[g] \in 0..NoVersion
    <3>1. disk.asof \in [File -> 0..NoVersion] /\ \A p \in Process : asof[p] \in [File -> 0..NoVersion]
      BY <1>1 DEF TypeOK, Content
    <3>2. \A r \in Readings : r.asof = disk.asof \/ \E p \in Process : r.asof = asof[p]
      BY DEF Readings, ReadingOf, OnDisk
    <3> QED BY <3>1, <3>2
  <2>3. NoVersion' = NoVersion /\ \A r, g : Seen(r, g)' = Seen(r, g)
    BY DEF NoVersion, Seen
  <2>4. \A g \in File : version'[g] <= edits'
    BY <1>1, <2>1 DEF Snapshots
  <2>5. ASSUME NEW r \in Readings, NEW g \in File, r.asof[g] # NoVersion
        PROVE  r.asof[g] <= edits' /\ (r.asof[g] = version'[g] => IsCurrent(r, g)')
    <3>1. r.asof[g] <= edits /\ r.asof[g] \in 0..NoVersion
      BY <1>1, <2>2, <2>5 DEF Snapshots
    <3>2. CASE g = f
      <4>1. version'[g] = edits + 1
        BY <2>1, <3>2
      <4> QED BY <2>1, <3>1, <4>1
    <3>3. CASE g # f
      <4>1. version'[g] = version[g] /\ tree'[g] = tree[g]
        BY <2>1, <3>3
      <4>2. r.asof[g] = version[g] => IsCurrent(r, g)
        BY <1>1, <2>5 DEF Snapshots
      <4> QED BY <2>1, <2>3, <3>1, <4>1, <4>2 DEF IsCurrent
    <3> QED BY <3>2, <3>3
  <2> QED BY <1>1, <2>1, <2>3, <2>4, <2>5 DEF Snapshots
<1>4. ASSUME NEW p \in Process, Start(p) \/ Step(p) \/ Kill(p) PROVE Snapshots'
  <2>1. tree' = tree /\ edits' = edits /\ version' = version
    BY <1>4 DEF Start, Step, Kill, CheckExists, CheckInputs, AnalyzeFile, AnalysisDone,
                OpenForWriting, WriteText, LoadAndFilter
  <2>2. \A f \in File : Unread[f] = NoVersion
    BY DEF Unread
  <2>3. ASSUME NEW q \in Process, q # p, NEW f \in File PROVE Sound(ReadingOf(q)', f)
    <3>1. ReadingOf(q)' = ReadingOf(q)
      BY <1>1, <1>4, <2>3, OthersStay DEF ReadingOf
    <3> QED BY <3>1 DEF Sound, Readings
  <2>4. ASSUME NEW f \in File PROVE Sound(OnDisk', f)
    <3>1. CASE disk' = disk
      <4>1. OnDisk' = OnDisk
        BY <3>1 DEF OnDisk
      <4> QED BY <4>1 DEF Sound, Readings
    <3>2. CASE OpenForWriting(p)
      <4>1. disk'.asof = Unread
        BY <1>1, <3>2 DEF OpenForWriting, TypeOK, Content
      <4> QED BY <2>2, <4>1 DEF OnDisk, Sound
    <3>3. CASE WriteText(p)
      <4> DEFINE text(k) == [kind |-> k, entries |-> results[p], spelling |-> cmd[p].spelling,
                             asof |-> asof[p]]
      <4>1. disk' = text("json") \/ disk' = text("damaged")
        BY <3>3 DEF WriteText
      <4>2. /\ disk'.asof = asof[p] /\ disk'.spelling = cmd[p].spelling
            /\ disk'.entries = results[p]
        BY <4>1
      <4>3. OnDisk' = ReadingOf(p)
        BY <4>2 DEF OnDisk, ReadingOf
      <4> QED BY <4>3 DEF Sound, Readings
    <3>4. CASE Kill(p) /\ disk' # disk
      <4>1. disk'.asof = Unread
        BY <1>1, <3>4 DEF Kill, TypeOK, Content
      <4> QED BY <2>2, <4>1 DEF OnDisk, Sound
    <3>5. Start(p) \/ CheckExists(p) \/ CheckInputs(p) \/ AnalyzeFile(p) \/ AnalysisDone(p)
            \/ LoadAndFilter(p) => disk' = disk
      BY DEF Start, CheckExists, CheckInputs, AnalyzeFile, AnalysisDone, LoadAndFilter
    <3> QED BY <1>4, <3>1, <3>2, <3>3, <3>4, <3>5 DEF Step
  <2>5. ASSUME NEW f \in File PROVE Sound(ReadingOf(p)', f)
    <3>1. CASE Start(p) \/ WriteText(p) \/ Kill(p)
      <4>1. asof'[p] = Unread
        BY <1>1, <3>1 DEF Start, WriteText, Kill, Forget, TypeOK
      <4> QED BY <2>2, <4>1 DEF ReadingOf, Sound
    <3>2. CASE CheckExists(p) \/ CheckInputs(p) \/ AnalysisDone(p) \/ OpenForWriting(p)
                 \/ LoadAndFilter(p)
      <4>1. ReadingOf(p)' = ReadingOf(p)
        BY <3>2 DEF CheckExists, CheckInputs, AnalysisDone, OpenForWriting, LoadAndFilter, ReadingOf
      <4> QED BY <4>1 DEF Sound, Readings
    <3>3. CASE AnalyzeFile(p)
      BY <3>3, AnalyzeSound
    <3> QED BY <1>4, <3>1, <3>2, <3>3 DEF Step
  <2>6. \A r \in Readings' : (\E q \in Process : r = ReadingOf(q)') \/ r = OnDisk'
    BY DEF Readings
  <2>7. \A r \in Readings', f \in File : Sound(r, f)
    BY <2>3, <2>4, <2>5, <2>6
  <2> QED BY <1>1, <2>1, <2>7, SnapshotsKept
<1>5. CASE UNCHANGED vars
  <2>1. Readings' = Readings /\ tree' = tree /\ edits' = edits /\ version' = version
    BY <1>2, <1>5 DEF vars
  <2> QED BY <1>1, <2>1, SnapshotsKept DEF Sound
<1> QED BY <1>3, <1>4, <1>5 DEF Next

LEMMA NextSnap == SnapInv /\ [Next]_vars => SnapInv'
BY NextType, NextProgress, NextSnapshots DEF SnapInv

\* Of an unchanged file every finding has its entry, except the ones the flag adds.
LEMMA NothingNewSinceSnapshot ==
  ASSUME SnapInv, NEW p \in Process, cmd[p].spelling = disk.spelling,
         NEW e \in FilterNew(results[p], disk.entries), Unchanged(p, e[1][2])
  PROVE  cmd[p].broad /\ e[2] \in OptIn
<1>1. TypeOK /\ OnCourse(p) /\ Snapshots
  BY DEF SnapInv, Progress
<1>2. e \in results[p] /\ Key(e) \notin Keys(disk.entries)
  BY DEF FilterNew
<1>3. /\ e \in Entry /\ e[1][1] = cmd[p].spelling
      /\ cmd[p].broad \/ e[2] \notin OptIn
  BY <1>1, <1>2 DEF TypeOK, OnCourse
<1> SUFFICES ASSUME e[2] \notin OptIn PROVE FALSE
  BY <1>3
<1> DEFINE f == e[1][2]
           v == e[2]
<1>4. e = <<<<cmd[p].spelling, f>>, v>> /\ v \in Finding \ OptIn /\ f \in File
  BY <1>3 DEF Entry, Path
<1>5. /\ ReadingOf(p) \in Readings /\ OnDisk \in Readings
      /\ ReadingOf(p).asof[f] = OnDisk.asof[f] /\ ReadingOf(p).asof[f] # NoVersion
  BY DEF Readings, ReadingOf, OnDisk, Unchanged
<1>6. Seen(ReadingOf(p), f) = Seen(OnDisk, f)
  BY <1>1, <1>4, <1>5 DEF Snapshots
<1> HIDE DEF f, v
<1>7. v \in Seen(ReadingOf(p), f)
  BY <1>2, <1>4 DEF Seen, ReadingOf
<1>8. <<<<disk.spelling, f>>, v>> \in disk.entries
  BY <1>6, <1>7 DEF Seen, OnDisk
<1>9. e \in disk.entries
  BY <1>4, <1>8
<1> QED BY <1>2, <1>9 DEF Keys

LEMMA CleanStep ==
  ASSUME SnapInv, [Next]_vars, NEW p \in Process,
         pc[p] = "load", outcome'[p] \in {"exit 0", "exit 1", "exit 2"},
         disk.kind = "json", cmd[p].spelling = disk.spelling
  PROVE  /\ \A e \in new'[p] : Unchanged(p, e[1][2]) => cmd[p].broad /\ e[2] \in OptIn
         /\ ~cmd[p].broad /\ (\A f \in cmd[p].selected : Unchanged(p, f))
              => outcome'[p] = "exit 0"
<1>1. TypeOK /\ OnCourse(p) /\ outcome[p] = "none"
  BY DEF SnapInv, Progress, OnCourse
<1>2. outcome'[p] # outcome[p]
  BY <1>1
<1>3. ~(UNCHANGED vars) /\ \A f \in File : ~Edit(f)
  BY <1>2 DEF vars, procVars, Edit
<1>4. PICK q \in Process : Start(q) \/ Step(q) \/ Kill(q)
  BY <1>3 DEF Next
<1>5. q = p
  BY <1>1, <1>2, <1>4, OthersStay
<1>6. Start(p) \/ Step(p) \/ Kill(p)
  BY <1>4, <1>5
<1>7. ~Start(p) /\ ~Kill(p)
  BY <1>1 DEF Start, Kill, Exits, TypeOK
<1>8. LoadAndFilter(p)
  BY <1>6, <1>7 DEF Step, CheckExists, CheckInputs, AnalyzeFile, AnalysisDone, OpenForWriting, WriteText
<1> DEFINE fresh == FilterNew(results[p], disk.entries)
<1>9. new'[p] = fresh /\ outcome'[p] = IF fresh # {} THEN "exit 1" ELSE "exit 0"
  BY <1>1, <1>8 DEF LoadAndFilter, Exits, TypeOK
<1>10. \A e \in fresh : Unchanged(p, e[1][2]) => cmd[p].broad /\ e[2] \in OptIn
  BY NothingNewSinceSnapshot
<1>11. \A e \in fresh : e[1][2] \in cmd[p].selected
  BY <1>1 DEF FilterNew, OnCourse
<1> HIDE DEF fresh
<1> QED BY <1>9, <1>10, <1>11

\* "An unchanged baseline produces exit code 0" (README.md:283), for any number of
\* processes, files and edits, whatever happened in between: of a file that is as it
\* was when the baseline was taken, a scan spelled the same way reports nothing new but
\* what --report-broad-except adds (cli.py:177), and without that flag a scan of
\* unchanged files ends with 0.
THEOREM UnchangedFilesScanClean == Spec => UnchangedFilesAreClean
<1>1. SnapInv /\ [Next]_vars =>
        [\A p \in Process :
           /\ pc[p] = "load" /\ outcome'[p] \in {"exit 0", "exit 1", "exit 2"}
           /\ disk.kind = "json" /\ cmd[p].spelling = disk.spelling
           => /\ \A e \in new'[p] : Unchanged(p, e[1][2]) => cmd[p].broad /\ e[2] \in OptIn
              /\ ~cmd[p].broad /\ (\A f \in cmd[p].selected : Unchanged(p, f))
                   => outcome'[p] = "exit 0"]_vars
  BY CleanStep
<1> QED BY <1>1, InitSnap, NextSnap, PTL DEF Spec, UnchangedFilesAreClean

-----------------------------------------------------------------------------
(***************************************************************************)
(* The massive scan.  What a run starts from: the names it takes from the  *)
(* directories, and the repositories it adds to them.                      *)
(***************************************************************************)
HIDE BaselineAssumption

LEMMA HitFacts ==
  ASSUME NEW i \in 1..Len(Hits)
  PROVE  Hits[i] \in Seq(STRING) /\ DOMAIN Hits[i] = 1..Len(Hits[i])
<1>1. Hits[i] \in Seq(STRING)
  BY ScanAssumption
<1> QED BY <1>1

LEMMA DirFacts ==
  ASSUME NEW d \in Dir
  PROVE  /\ DirOf(NameOf(d)) = d
         /\ \E i \in 1..Len(Hits) : d = DirOf(Hits[i])
<1>1. PICK i \in 1..Len(Hits) : d = DirOf(Hits[i])
  BY DEF Dir
<1> DEFINE h == Hits[i]
           n == NameOf(d)
<1>2. d = [j \in DOMAIN h |-> IF h[j] = "/" THEN "__" ELSE h[j]]
  BY <1>1 DEF DirOf
<1> HIDE DEF h
<1>3. DOMAIN d = DOMAIN h /\ \A j \in DOMAIN h : d[j] # "/"
  BY <1>2
<1>4. n = [j \in DOMAIN h |-> IF d[j] = "__" THEN "/" ELSE d[j]]
  BY <1>3 DEF NameOf
<1> HIDE DEF n
<1>5. DirOf(n) = [j \in DOMAIN h |-> IF n[j] = "/" THEN "__" ELSE n[j]]
  BY <1>4 DEF DirOf
<1>6. \A j \in DOMAIN h : DirOf(n)[j] = d[j]
  BY <1>3, <1>4, <1>5
<1>7. DirOf(n) = d
  BY <1>2, <1>5, <1>6
<1> QED BY <1>1, <1>7 DEF n

LEMMA DirectoryOfName ==
  ASSUME NEW n \in FullName
  PROVE  DirOf(n) \in Dir
<1>1. CASE \E i \in 1..Len(Hits) : n = Hits[i]
  BY <1>1 DEF Dir
<1>2. CASE \E d \in Dir : n = NameOf(d)
  BY <1>2, DirFacts
<1> QED BY <1>1, <1>2 DEF FullName

\* A name without "__" is read back from its directory.
Plain == \A i \in 1..Len(Hits) : \A j \in DOMAIN Hits[i] : Hits[i][j] # "__"

LEMMA PlainNames ==
  ASSUME Plain, NEW i \in 1..Len(Hits)
  PROVE  NameOf(DirOf(Hits[i])) = Hits[i]
<1> DEFINE h == Hits[i]
           d == DirOf(h)
<1>1. h \in Seq(STRING) /\ h = [j \in DOMAIN h |-> h[j]] /\ \A j \in DOMAIN h : h[j] # "__"
  BY HitFacts DEF Plain
<1> HIDE DEF h
<1>2. d = [j \in DOMAIN h |-> IF h[j] = "/" THEN "__" ELSE h[j]]
  BY DEF DirOf
<1> HIDE DEF d
<1>3. NameOf(d) = [j \in DOMAIN h |-> IF d[j] = "__" THEN "/" ELSE d[j]]
  BY <1>2 DEF NameOf
<1>4. \A j \in DOMAIN h : NameOf(d)[j] = h[j]
  BY <1>1, <1>2, <1>3
<1>5. NameOf(d) = h
  BY <1>1, <1>3, <1>4
<1> QED BY <1>5 DEF d, h

\* The directories that are there, as names: each once.
LEMMA ExistingFacts ==
  /\ Existing \in Seq(FullName)
  /\ \A k, l \in 1..Len(Existing) : k # l => DirOf(Existing[k]) # DirOf(Existing[l])
  /\ \A k \in 1..Len(Existing) : Existing[k] = NameOf(DirOf(Existing[k])) /\ DirOf(Existing[k]) \in Dir
<1> DEFINE here == {e \in Dir : clones[e] # "absent"}
           names == {NameOf(d) : d \in here}
<1>1. Existing = SetToSeq(names)
  BY DEF Existing
<1>2. IsFiniteSet(Dir)
  <2>1. Len(Hits) \in Nat
    BY ScanAssumption
  <2>2. IsFiniteSet(1..Len(Hits))
    BY <2>1, FS_Interval
  <2> DEFINE f == [i \in 1..Len(Hits) |-> DirOf(Hits[i])]
  <2>3. f \in Surjection(1..Len(Hits), Dir)
    BY DEF Surjection, Dir
  <2> HIDE DEF f
  <2> QED BY <2>2, <2>3, FS_Surjection
<1>3. IsFiniteSet(names)
  <2>1. IsFiniteSet(here)
    BY <1>2, FS_Subset
  <2> HIDE DEF here
  <2> DEFINE f == [d \in here |-> NameOf(d)]
  <2>2. f \in Surjection(here, names)
    BY DEF Surjection
  <2> HIDE DEF f, names
  <2> QED BY <2>1, <2>2, FS_Surjection
<1> HIDE DEF names
<1>4. Cardinality(names) \in Nat /\ \E f \in [1..Cardinality(names) -> names] : IsInjective(f)
  BY <1>3, FS_CardinalityType DEF ExistsBijection, Bijection, Injection
<1>5. Existing \in [1..Cardinality(names) -> names] /\ IsInjective(Existing)
  BY <1>1, <1>4 DEF SetToSeq
<1>6. \A n \in names : n \in FullName /\ \E d \in Dir : n = NameOf(d) /\ DirOf(n) = d
  BY DirFacts DEF names, FullName
<1>7. Existing \in Seq(FullName) /\ Len(Existing) = Cardinality(names)
  BY <1>4, <1>5, <1>6
<1>8. \A k, l \in 1..Len(Existing) : k # l => Existing[k] # Existing[l]
  BY <1>5, <1>7 DEF IsInjective
<1>9. \A k \in 1..Len(Existing) : Existing[k] \in names
  BY <1>5, <1>7
<1>10. \A k \in 1..Len(Existing) : Existing[k] = NameOf(DirOf(Existing[k])) /\ DirOf(Existing[k]) \in Dir
  BY <1>6, <1>9
<1>11. ASSUME NEW k \in 1..Len(Existing), NEW l \in 1..Len(Existing), k # l
       PROVE  DirOf(Existing[k]) # DirOf(Existing[l])
  BY <1>8, <1>10, <1>11
<1> QED BY <1>7, <1>10, <1>11

LEMMA FewHits ==
  ASSUME NEW S, S \subseteq 1..Len(Hits)
  PROVE  IsFiniteSet(S) /\ Cardinality(S) \in Nat /\ S \subseteq Nat
<1>1. Len(Hits) \in Nat
  BY ScanAssumption
<1>2. IsFiniteSet(1..Len(Hits))
  BY <1>1, FS_Interval
<1>3. IsFiniteSet(S)
  BY <1>2, FS_Subset
<1> QED BY <1>1, <1>3, FS_CardinalityType

\* Every rank is somebody's.
LEMMA RankedFacts ==
  ASSUME NEW S, S \subseteq 1..Len(Hits), NEW n \in 1..Cardinality(S)
  PROVE  Ranked(S, n) \in S /\ Cardinality({j \in S : j <= Ranked(S, n)}) = n
<1>1. S \subseteq Nat
  BY FewHits
<1>2. IsFiniteSet(S) /\ Cardinality(S) \in Nat
  BY FewHits
<1> DEFINE upTo(i) == {j \in S : j <= i}
           rank == [i \in S |-> Cardinality(upTo(i))]
           N == 1..Cardinality(S)
<1>3. ASSUME NEW i \in S PROVE IsFiniteSet(upTo(i)) /\ rank[i] \in N
  <2>1. upTo(i) \in SUBSET S /\ i \in upTo(i)
    BY <1>1
  <2>2. IsFiniteSet(upTo(i)) /\ Cardinality(upTo(i)) <= Cardinality(S)
    BY <1>2, <2>1, FS_Subset
  <2>3. Cardinality(upTo(i)) \in Nat /\ Cardinality(upTo(i)) # 0
    BY <2>1, <2>2, FS_CardinalityType, FS_EmptySet
  <2> HIDE DEF upTo
  <2> QED BY <1>2, <2>2, <2>3
<1>4. ASSUME NEW i \in S, NEW k \in S, rank[i] = rank[k] PROVE i = k
  <2>1. ASSUME NEW a \in S, NEW b \in S, a < b, rank[a] = rank[b] PROVE FALSE
    <3>1. upTo(a) \in SUBSET upTo(b) /\ b \in upTo(b) /\ b \notin upTo(a)
      <4>1. a \in Nat /\ b \in Nat /\ a < b /\ \A j \in S : j \in Nat
        BY <1>1, <2>1
      <4>2. \A j \in Nat : j <= a => j <= b
        BY <4>1
      <4>3. b <= b /\ ~(b <= a)
        BY <4>1
      <4> QED BY <4>1, <4>2, <4>3
    <3>2. Cardinality(upTo(a)) = Cardinality(upTo(b))
      BY <2>1
    <3>3. upTo(b) = upTo(a)
      BY <1>3, <3>1, <3>2, FS_Subset
    <3> QED BY <3>1, <3>3
  <2>2. i \in Nat /\ k \in Nat
    BY <1>1
  <2> HIDE DEF rank
  <2> QED BY <1>4, <2>1, <2>2
<1>5. rank \in Injection(S, N)
  <2>1. rank \in [S -> N] /\ DOMAIN rank = S
    BY <1>3
  <2> HIDE DEF rank
  <2> QED BY <1>4, <2>1 DEF Injection, IsInjective
<1>6. IsFiniteSet(N) /\ Cardinality(N) = Cardinality(S)
  BY <1>2, FS_Interval
<1>7. rank \in Surjection(S, N)
  <2> HIDE DEF rank, N
  <2> QED BY <1>5, <1>6, FS_Injection
<1>8. \E i \in S : Cardinality({j \in S : j <= i}) = n
  BY <1>7 DEF Surjection
<1> QED BY <1>8 DEF Ranked

\* The best are as many hits as are wanted, each once.
LEMMA BestFacts ==
  ASSUME NEW S, S \subseteq 1..Len(Hits), NEW needed \in Nat
  PROVE  /\ Best(S, needed) \in Seq(FullName)
         /\ \A n \in 1..Len(Best(S, needed)) : \E i \in S : Best(S, needed)[n] = Hits[i]
         /\ \A n, m \in 1..Len(Best(S, needed)) : n # m => Best(S, needed)[n] # Best(S, needed)[m]
<1>2. Cardinality(S) \in Nat
  BY FewHits
<1> DEFINE k == IF needed < Cardinality(S) THEN needed ELSE Cardinality(S)
           b == Best(S, needed)
<1>3. k \in Nat /\ \A n \in 1..k : n \in 1..Cardinality(S)
  BY <1>2
<1>4. b = [n \in 1..k |-> Hits[Ranked(S, n)]]
  BY DEF Best
<1> HIDE DEF k, b
<1>5. \A n \in 1..k : Ranked(S, n) \in S /\ Cardinality({j \in S : j <= Ranked(S, n)}) = n
  BY <1>3, RankedFacts
<1>6. \A i \in S : Hits[i] \in FullName
  BY DEF FullName
<1>7. b \in [1..k -> FullName]
  BY <1>4, <1>5, <1>6
<1>8. b \in Seq(FullName) /\ Len(b) = k
  BY <1>3, <1>7
<1>9. \A n, m \in 1..k : Ranked(S, n) = Ranked(S, m) => n = m
  BY <1>5
<1>10. \A i, j \in S : Hits[i] = Hits[j] => i = j
  BY ScanAssumption
<1>11. \A n, m \in 1..k : n # m => b[n] # b[m]
  BY <1>4, <1>5, <1>9, <1>10
<1>12. \A n \in 1..k : \E i \in S : b[n] = Hits[i]
  BY <1>4, <1>5
<1> QED BY <1>8, <1>11, <1>12 DEF b

\* What a run sets out to scan; under plain names, in so many directories.
LEMMA PlannedFacts ==
  ASSUME NEW answered, NEW known \in BOOLEAN
  PROVE  LET planned == Existing \o (IF known THEN <<>> ELSE NewRepos(answered)) IN
         /\ planned \in Seq(FullName)
         /\ Plain => \A i, j \in 1..Len(planned) : i # j => DirOf(planned[i]) # DirOf(planned[j])
<1> DEFINE e == Existing
           n == IF known THEN <<>> ELSE NewRepos(answered)
           fresh == {i \in Candidates(answered) : Hits[i] \notin ToSet(Existing)}
<1>1. /\ e \in Seq(FullName) /\ Len(e) \in Nat
      /\ \A k, l \in 1..Len(e) : k # l => DirOf(e[k]) # DirOf(e[l])
      /\ \A k \in 1..Len(e) : e[k] = NameOf(DirOf(e[k]))
  BY ExistingFacts
<1>2. fresh \subseteq 1..Len(Hits) /\ \A i \in fresh, k \in 1..Len(e) : Hits[i] # e[k]
  BY DEF Candidates, ToSet
<1>3. /\ n \in Seq(FullName)
      /\ \A k \in 1..Len(n) : \E i \in fresh : n[k] = Hits[i]
      /\ \A k, l \in 1..Len(n) : k # l => n[k] # n[l]
  <2>1. CASE n = <<>>
    <3> HIDE DEF n, fresh
    <3>1. n \in Seq(FullName) /\ Len(n) = 0
      BY <2>1
    <3> QED BY <3>1
  <2>2. CASE n # <<>>
    <3> DEFINE t == Target - Len(e)
    <3>1. t \in Nat /\ n = Best(fresh, t)
      BY <1>1, <2>2, ScanAssumption DEF NewRepos
    <3> HIDE DEF n, fresh, e, t
    <3>2. /\ Best(fresh, t) \in Seq(FullName)
          /\ \A k \in 1..Len(Best(fresh, t)) : \E i \in fresh : Best(fresh, t)[k] = Hits[i]
          /\ \A k, l \in 1..Len(Best(fresh, t)) : k # l => Best(fresh, t)[k] # Best(fresh, t)[l]
      BY <1>2, <3>1, BestFacts
    <3> QED BY <3>1, <3>2
  <2> QED BY <2>1, <2>2
<1> HIDE DEF n, fresh, e
<1> DEFINE r == e \o n
<1>4. /\ r \in Seq(FullName) /\ Len(r) = Len(e) + Len(n) /\ Len(n) \in Nat
      /\ \A i \in 1..Len(r) : r[i] = IF i <= Len(e) THEN e[i] ELSE n[i - Len(e)]
  BY <1>1, <1>3, ConcatProperties
<1> HIDE DEF r
<1>5. ASSUME Plain PROVE \A i, j \in 1..Len(r) : i # j => DirOf(r[i]) # DirOf(r[j])
  <2>1. ASSUME NEW k \in 1..Len(n), NEW l \in 1..Len(e) PROVE DirOf(n[k]) # DirOf(e[l])
    <3>1. PICK i \in fresh : n[k] = Hits[i]
      BY <1>3
    <3>2. NameOf(DirOf(n[k])) = n[k] /\ n[k] # e[l]
      BY <1>2, <1>5, <3>1, PlainNames
    <3> QED BY <1>1, <3>2
  <2>2. ASSUME NEW k \in 1..Len(n), NEW l \in 1..Len(n), k # l PROVE DirOf(n[k]) # DirOf(n[l])
    <3>1. /\ \E i \in fresh : n[k] = Hits[i]
          /\ \E i \in fresh : n[l] = Hits[i]
      BY <1>3
    <3>2. NameOf(DirOf(n[k])) = n[k] /\ NameOf(DirOf(n[l])) = n[l]
      BY <1>2, <1>5, <3>1, PlainNames
    <3> QED BY <1>3, <2>2, <3>2
  <2>3. ASSUME NEW i \in 1..Len(r), NEW j \in 1..Len(r), i < j PROVE DirOf(r[i]) # DirOf(r[j])
    <3>1. CASE j <= Len(e)
      <4>1. i \in 1..Len(e) /\ j \in 1..Len(e) /\ i # j
        BY <1>1, <2>3, <3>1
      <4> QED BY <1>1, <1>4, <4>1
    <3>2. CASE i <= Len(e) /\ Len(e) < j
      <4>1. i \in 1..Len(e) /\ j - Len(e) \in 1..Len(n) /\ ~(j <= Len(e))
        BY <1>1, <1>4, <3>2
      <4> QED BY <1>4, <2>1, <4>1
    <3>3. CASE Len(e) < i
      <4>1. /\ i - Len(e) \in 1..Len(n) /\ j - Len(e) \in 1..Len(n) /\ i - Len(e) # j - Len(e)
            /\ ~(i <= Len(e)) /\ ~(j <= Len(e))
        BY <1>1, <1>4, <2>3, <3>3
      <4> QED BY <1>4, <2>2, <4>1
    <3> QED BY <1>1, <3>1, <3>2, <3>3
  <2>4. \A i, j \in 1..Len(r) : i \in Nat /\ j \in Nat
    BY <1>4
  <2> QED BY <2>3, <2>4
<1> QED BY <1>4, <1>5 DEF r, e, n

-----------------------------------------------------------------------------
(***************************************************************************)
(* The massive scan: what is true of the run that is on.                   *)
(***************************************************************************)

\* A run is at one of its repositories; a git it waits for is at work there.
InStep ==
  /\ stage \in {"clone", "scan", "save"} => idx <= Len(repos)
  /\ stage = "save" => Len(scan_results) >= 1
  /\ stage = "clone" => clones[Directory] = "growing"
  /\ failed < idx

ScanInv == ScanTypeOK /\ InStep

LEMMA AtTheRepo ==
  ASSUME ScanInv, stage \in {"clone", "scan", "save"} \/ idx <= Len(repos)
  PROVE  /\ idx \in 1..Len(repos) /\ repos[idx] \in FullName /\ repos[idx] \in ToSet(repos)
         /\ Directory \in Dir /\ Len(repos) \in Nat
<1>1. Len(repos) \in Nat /\ idx \in 1..Len(repos)
  BY DEF ScanInv, ScanTypeOK, InStep
<1>2. repos[idx] \in FullName
  BY <1>1 DEF ScanInv, ScanTypeOK
<1>3. repos[idx] \in ToSet(repos)
  BY <1>1 DEF ToSet
<1> QED BY <1>1, <1>2, <1>3, DirectoryOfName DEF Directory

LEMMA InitScan == ScanInit => ScanInv
<1> SUFFICES ASSUME ScanInit PROVE ScanInv
  OBVIOUS
<1>1. Repo(scan_results) = {}
  BY DEF ScanInit, Repo, ToSet
<1>2. repos \in Seq(FullName) /\ scan_results \in Seq(Result) /\ aggregate \in Seq(Result) /\ Len(repos) = 0
  BY DEF ScanInit
<1>3. 0 \in 0..Runs
  BY ScanAssumption
<1>4. idx \in 1..(Len(repos) + 1) /\ failed \in 0..Len(repos) /\ failed < idx
  BY <1>2 DEF ScanInit
<1>5. ScanTypeOK
  BY <1>1, <1>2, <1>3, <1>4 DEF ScanInit, ScanTypeOK, Clone, Found, Stage, Resting
<1> QED BY <1>4, <1>5 DEF ScanInit, ScanInv, InStep

LEMMA StartScan == ScanInv /\ StartScript => ScanInv'
<1> SUFFICES ASSUME ScanInv, StartScript PROVE ScanInv'
  OBVIOUS
<1>1. repos' \in Seq(FullName)
  <2>1. PICK s \in BOOLEAN, answered \in SUBSET ToSet(Hits) :
          repos' = Existing \o (IF s THEN <<>> ELSE NewRepos(answered))
    BY DEF StartScript
  <2> QED BY <2>1, PlannedFacts
<1>2. Len(repos') \in Nat /\ idx' = 1 /\ failed' = 0 /\ scan_results' = <<>>
  BY <1>1 DEF StartScript
<1>3. Repo(scan_results') = {}
  BY <1>2 DEF Repo, ToSet
<1>4. started' \in 0..Runs /\ skip' \in BOOLEAN
  BY ScanAssumption DEF ScanInv, ScanTypeOK, StartScript
<1>5. ScanTypeOK'
  BY <1>1, <1>2, <1>3, <1>4 DEF ScanInv, ScanTypeOK, StartScript, Stage
<1> QED BY <1>2, <1>5 DEF ScanInv, InStep, StartScript

LEMMA CloneStepsScan == ScanInv /\ (NextRepo \/ CloneFails \/ CloneSucceeds) => ScanInv'
<1> SUFFICES ASSUME ScanInv, NextRepo \/ CloneFails \/ CloneSucceeds PROVE ScanInv'
  OBVIOUS
<1>1. /\ idx \in 1..Len(repos) /\ Directory \in Dir /\ Len(repos) \in Nat
      /\ idx <= Len(repos)
  BY AtTheRepo DEF NextRepo, CloneFails, CloneSucceeds
<1>2. /\ run' = run /\ raw' = raw /\ aggregate' = aggregate /\ scan_results' = scan_results
      /\ idx' \in {idx, idx + 1} /\ failed' \in {failed, failed + 1}
      /\ failed' = failed \/ (failed' = failed + 1 /\ idx' = idx + 1)
  BY DEF NextRepo, CloneFails, CloneSucceeds, run
<1>3. repos' = repos /\ skip' = skip /\ started' = started
  BY <1>2 DEF run
<1>4. clones' \in [Dir -> Clone]
  BY <1>1 DEF NextRepo, CloneFails, CloneSucceeds, ScanInv, ScanTypeOK, Clone
<1>5. failed \in Nat /\ failed < idx /\ idx \in Nat
  BY <1>1 DEF ScanInv, ScanTypeOK, InStep
<1>6. idx' \in 1..(Len(repos) + 1) /\ failed' \in 0..Len(repos) /\ failed' < idx'
  BY <1>1, <1>2, <1>5
<1>7. stage' \in {"next", "clone", "scan"} /\ (stage' \in {"clone", "scan"} => idx' = idx)
  BY DEF NextRepo, CloneFails, CloneSucceeds, ScanInv, ScanTypeOK
<1>8. ScanTypeOK'
  BY <1>2, <1>3, <1>4, <1>6, <1>7 DEF ScanInv, ScanTypeOK, Stage, Resting
<1>9. stage' = "clone" => clones'[Directory] = "growing" /\ Directory' = Directory
  BY <1>1, <1>3, <1>7 DEF NextRepo, CloneFails, CloneSucceeds, ScanInv, ScanTypeOK, Directory
<1> QED BY <1>1, <1>3, <1>6, <1>7, <1>8, <1>9 DEF ScanInv, InStep

LEMMA ScanScan == ScanInv /\ Scan => ScanInv'
<1> SUFFICES ASSUME ScanInv, Scan PROVE ScanInv'
  OBVIOUS
<1>1. /\ idx \in 1..Len(repos) /\ repos[idx] \in FullName /\ repos[idx] \in ToSet(repos)
      /\ Directory \in Dir /\ Len(repos) \in Nat
  BY AtTheRepo DEF Scan
<1>2. PICK f \in Found : scan_results' = Append(scan_results, [repo |-> repos[idx], found |-> f])
  BY DEF Scan
<1> DEFINE r == [repo |-> repos[idx], found |-> f]
<1>3. r \in Result /\ r.repo = repos[idx]
  BY <1>1 DEF Result
<1> HIDE DEF r
<1>4. scan_results \in Seq(Result) /\ scan_results' = Append(scan_results, r)
  BY <1>2 DEF r, ScanInv, ScanTypeOK
<1>5. /\ scan_results' \in Seq(Result) /\ Len(scan_results') = Len(scan_results) + 1
      /\ Len(scan_results) \in Nat
      /\ \A k \in 1..Len(scan_results') : scan_results'[k] = r \/ scan_results'[k] \in ToSet(scan_results)
  BY <1>3, <1>4 DEF ToSet
<1>6. Repo(scan_results') \subseteq ToSet(repos)
  <2>1. \A q \in ToSet(scan_results') : q = r \/ q \in ToSet(scan_results)
    BY <1>5 DEF ToSet
  <2> QED BY <1>1, <1>3, <2>1 DEF Repo, ScanInv, ScanTypeOK
<1>7. run' = run /\ UNCHANGED <<repos, skip, started, idx, clones, aggregate, failed>> /\ stage' = "save"
  BY DEF Scan, run
<1>8. raw' \in [Dir -> Found \cup {"absent", "damaged"}]
  BY DEF Scan, ScanInv, ScanTypeOK
<1>9. ScanTypeOK'
  BY <1>5, <1>6, <1>7, <1>8 DEF ScanInv, ScanTypeOK, Stage
<1> QED BY <1>1, <1>5, <1>7, <1>9 DEF ScanInv, InStep

LEMMA LastResult ==
  ASSUME ScanInv, stage = "save"
  PROVE  /\ Len(scan_results) \in Nat \ {0} /\ Last(scan_results) = scan_results[Len(scan_results)]
         /\ Last(scan_results) \in Result
BY DEF ScanInv, ScanTypeOK, InStep, Last

LEMMA SaveScan == ScanInv /\ Save => ScanInv'
<1> SUFFICES ASSUME ScanInv, Save PROVE ScanInv'
  OBVIOUS
<1>1. idx \in 1..Len(repos) /\ Directory \in Dir /\ Len(repos) \in Nat
  BY AtTheRepo DEF Save
<1>2. Last(scan_results).found \in Found
  BY LastResult DEF Save, Result
<1>3. raw' \in [Dir -> Found \cup {"absent", "damaged"}]
  BY <1>2 DEF Save, ScanInv, ScanTypeOK
<1>4. UNCHANGED <<repos, skip, started, clones, aggregate, scan_results, failed>>
  BY DEF Save, run
<1>5. idx' = idx + 1 /\ stage' \in {"checkpoint", "next"}
  BY DEF Save
<1>6. idx' \in 1..(Len(repos) + 1) /\ failed < idx' /\ failed \in Nat
  BY <1>1, <1>5 DEF ScanInv, ScanTypeOK, InStep
<1>7. ScanTypeOK'
  BY <1>3, <1>4, <1>5, <1>6 DEF ScanInv, ScanTypeOK, Stage
<1> QED BY <1>4, <1>5, <1>6, <1>7 DEF ScanInv, InStep

LEMMA WriteScan == ScanInv /\ (Truncate \/ Write) => ScanInv'
<1> SUFFICES ASSUME ScanInv, Truncate \/ Write PROVE ScanInv'
  OBVIOUS
<1>1. UNCHANGED <<repos, skip, started, idx, clones, raw, scan_results, failed>>
  BY DEF Truncate, Write, run
<1>2. aggregate' = Damaged \/ aggregate' \in Seq(Result)
  BY DEF Truncate, Write, ScanInv, ScanTypeOK
<1>3. stage' \in {"write", "finish", "next", "done"}
  BY DEF Truncate, Write
<1> QED BY <1>1, <1>2, <1>3 DEF ScanInv, ScanTypeOK, InStep, Stage, Resting

LEMMA KillScan == ScanInv /\ (KillScript \/ GitEnds) => ScanInv'
<1> SUFFICES ASSUME ScanInv, KillScript \/ GitEnds PROVE ScanInv'
  OBVIOUS
<1>1. UNCHANGED <<repos, skip, started, idx, raw, aggregate, scan_results, failed>>
  BY DEF KillScript, GitEnds, run
<1>2. clones' \in [Dir -> Clone]
  BY DEF KillScript, GitEnds, ScanInv, ScanTypeOK, Clone
<1>3. stage' = "killed" \/ (stage' = stage /\ GitEnds)
  BY DEF KillScript, GitEnds
<1>4. GitEnds /\ stage = "clone" => clones'[Directory] = clones[Directory]
  BY DEF GitEnds, ScanInv, ScanTypeOK
<1>5. Directory' = Directory
  BY <1>1 DEF Directory
<1> QED BY <1>1, <1>2, <1>3, <1>4, <1>5 DEF ScanInv, ScanTypeOK, InStep, Stage, Resting

LEMMA NextScan == ScanInv /\ [ScanNext]_scanVars => ScanInv'
<1> SUFFICES ASSUME ScanInv, [ScanNext]_scanVars PROVE ScanInv'
  OBVIOUS
<1>1. CASE UNCHANGED scanVars
  BY <1>1 DEF scanVars, run, ScanInv, ScanTypeOK, InStep, Directory
<1> QED BY <1>1, StartScan, CloneStepsScan, ScanScan, SaveScan, WriteScan, KillScan DEF ScanNext, ScriptStep

\* Type correctness over any number of runs: every result is of a repository the run
\* set out to scan, and no more clones fail than it has been at.
THEOREM ScanTypes == ScanSpec => []ScanTypeOK
<1>1. ScanInv => ScanTypeOK
  BY DEF ScanInv
<1> QED BY <1>1, InitScan, NextScan, PTL DEF ScanSpec

LEMMA CloneKept ==
  ASSUME ScanInv, [ScanNext]_scanVars, NEW d \in Dir, clones'[d] # clones[d]
  PROVE  clones[d] \in {"absent", "growing"}
<1>1. clones \in [Dir -> Clone]
  BY DEF ScanInv, ScanTypeOK
<1>2. clones' # clones
  OBVIOUS
<1>3. CASE NextRepo
  <2>1. clones[Directory] = "absent" /\ clones' = [clones EXCEPT ![Directory] = "growing"]
    BY <1>2, <1>3 DEF NextRepo
  <2> QED BY <1>1, <2>1
<1>4. CASE CloneFails \/ CloneSucceeds \/ (KillScript /\ stage = "clone")
  <2>1. clones[Directory] = "growing" /\ \E c : clones' = [clones EXCEPT ![Directory] = c]
    BY <1>4 DEF CloneFails, CloneSucceeds, KillScript, ScanInv, InStep
  <2> QED BY <1>1, <2>1
<1>5. CASE GitEnds
  BY <1>1, <1>5 DEF GitEnds
<1>6. CASE StartScript \/ Scan \/ Save \/ Truncate \/ Write \/ (KillScript /\ stage # "clone") \/ UNCHANGED scanVars
  BY <1>2, <1>6 DEF StartScript, Scan, Save, Truncate, Write, KillScript, scanVars
<1> QED BY <1>3, <1>4, <1>5, <1>6 DEF ScanNext, ScriptStep

\* No git is ever started over a directory that is there, and no clone is lost but by
\* the git that made it: over any number of runs, failures and kills.
THEOREM ClonesStay == ScanSpec => ClonesAreKept
<1>1. ScanInv /\ [ScanNext]_scanVars =>
        [\A d \in Dir : clones'[d] # clones[d] => clones[d] \in {"absent", "growing"}]_clones
  BY CloneKept
<1> QED BY <1>1, InitScan, NextScan, PTL DEF ScanSpec, ClonesAreKept

-----------------------------------------------------------------------------
(***************************************************************************)
(* Why a run ends: each step leaves it fewer to take.  RunEnds follows from *)
(* this and from the fairness of the steps, one of which can be taken in    *)
(* every stage that is not a resting one.                                   *)
(***************************************************************************)
\* The most steps a run can take before its next result or failed clone.
AtThisRepo == [checkpoint |-> 5, write |-> 4, next |-> 3, clone |-> 2, scan |-> 1, finish |-> 1,
               save |-> 0, idle |-> 0, done |-> 0, killed |-> 0]

StepsLeft == 10 * (Len(repos) + 1 - idx) + AtThisRepo[stage]

LEMMA StepsLeftIsNat == ScanTypeOK => StepsLeft \in Nat
<1> SUFFICES ASSUME ScanTypeOK PROVE StepsLeft \in Nat
  OBVIOUS
<1>1. Len(repos) \in Nat /\ idx \in 1..(Len(repos) + 1)
  BY DEF ScanTypeOK
<1>2. AtThisRepo[stage] \in Nat
  BY DEF ScanTypeOK, Stage, Resting, AtThisRepo
<1> QED BY <1>1, <1>2 DEF StepsLeft

LEMMA StepCounts == ScanInv /\ ScriptStep => StepsLeft' < StepsLeft
<1> SUFFICES ASSUME ScanInv, ScriptStep PROVE StepsLeft' < StepsLeft
  OBVIOUS
<1>1. Len(repos) \in Nat /\ idx \in 1..(Len(repos) + 1) /\ repos' = repos
  BY DEF ScanInv, ScanTypeOK, ScriptStep, NextRepo, CloneFails, CloneSucceeds, Scan, Save, Truncate,
         Write, run
<1>2. CASE idx' = idx + 1
  <2>1. stage \in {"next", "clone", "save"} /\ stage' \in {"next", "checkpoint"}
    BY <1>1, <1>2 DEF ScriptStep, NextRepo, CloneFails, CloneSucceeds, Scan, Save, Truncate, Write
  <2>2. AtThisRepo[stage] \in 0..3 /\ AtThisRepo[stage'] \in 3..5
    BY <2>1 DEF AtThisRepo
  <2> QED BY <1>1, <1>2, <2>2 DEF StepsLeft
<1>3. CASE idx' = idx
  <2>1. <<stage, stage'>> \in {<<"next", "scan">>, <<"next", "clone">>, <<"clone", "scan">>,
          <<"scan", "save">>, <<"checkpoint", "write">>, <<"next", "finish">>,
          <<"write", "next">>, <<"finish", "done">>}
    BY <1>1, <1>3 DEF ScriptStep, NextRepo, CloneFails, CloneSucceeds, Scan, Save, Truncate, Write
  <2>2. /\ AtThisRepo[stage] \in Nat /\ AtThisRepo[stage'] \in Nat
        /\ AtThisRepo[stage'] < AtThisRepo[stage]
    BY <2>1 DEF AtThisRepo
  <2> QED BY <1>1, <1>3, <2>2 DEF StepsLeft
<1> QED BY <1>2, <1>3 DEF ScriptStep, NextRepo, CloneFails, CloneSucceeds, Scan, Save, Truncate, Write

\* No step of the script is taken for nothing: the number of steps a run has before it
\* is finite and each step makes it smaller, however many clones fail or time out.
THEOREM RunGetsOn == ScanSpec => [][ScriptStep => StepsLeft' \in Nat /\ StepsLeft' < StepsLeft]_scanVars
<1>1. ScanInv /\ [ScanNext]_scanVars =>
        [ScriptStep => StepsLeft' \in Nat /\ StepsLeft' < StepsLeft]_scanVars
  <2>1. ScanTypeOK' => (StepsLeft \in Nat)'
    BY StepsLeftIsNat, PTL
  <2> QED BY <2>1, StepCounts, NextScan DEF ScanInv
<1> QED BY <1>1, InitScan, NextScan, PTL DEF ScanSpec

-----------------------------------------------------------------------------
(***************************************************************************)
(* The books of a run: what it has behind it was scanned, once, or failed. *)
(***************************************************************************)
Behind == IF stage = "save" THEN idx ELSE idx - 1

\* The k-th result is of a repository behind the loop, and the raw file agrees with it
\* unless it is the one being written.
Listed(k) ==
  IF stage = "save" /\ k = Len(scan_results) THEN scan_results[k].repo = repos[idx]
  ELSE /\ \E i \in 1..(idx - 1) : scan_results[k].repo = repos[i]
       /\ raw[DirOf(scan_results[k].repo)] = scan_results[k].found

Once == \A k, l \in 1..Len(scan_results) :
          k # l => DirOf(scan_results[k].repo) # DirOf(scan_results[l].repo)

Books ==
  /\ ~skip => Len(scan_results) + failed = Behind
  /\ \A k \in 1..Len(scan_results) : Listed(k)
  /\ Once
  /\ stage \in {"finish", "done"} => idx > Len(repos)
  /\ stage = "done" => aggregate = scan_results

Apart == \A i, j \in 1..Len(repos) : i # j => DirOf(repos[i]) # DirOf(repos[j])

BooksInv == ScanInv /\ Apart /\ (stage \notin {"idle", "killed"} => Books)

LEMMA InitBooks == ScanInit => BooksInv
<1> SUFFICES ASSUME ScanInit PROVE BooksInv
  OBVIOUS
<1>1. Len(repos) = 0 /\ stage = "idle"
  BY DEF ScanInit
<1> QED BY <1>1, InitScan DEF BooksInv, Apart

LEMMA StartBooks == Plain /\ BooksInv /\ StartScript => BooksInv'
<1> SUFFICES ASSUME Plain, BooksInv, StartScript PROVE BooksInv'
  OBVIOUS
<1>1. ScanInv'
  BY StartScan DEF BooksInv
<1>2. Apart'
  <2>1. PICK s \in BOOLEAN, answered \in SUBSET ToSet(Hits) :
          repos' = Existing \o (IF s THEN <<>> ELSE NewRepos(answered))
    BY DEF StartScript
  <2> DEFINE planned == Existing \o (IF s THEN <<>> ELSE NewRepos(answered))
  <2>2. \A i, j \in 1..Len(planned) : i # j => DirOf(planned[i]) # DirOf(planned[j])
    BY PlannedFacts
  <2>3. repos' = planned
    BY <2>1
  <2> HIDE DEF planned
  <2> QED BY <2>2, <2>3 DEF Apart
<1>3. Len(scan_results') = 0 /\ idx' = 1 /\ failed' = 0 /\ stage' = "next"
  BY DEF StartScript
<1>4. Books'
  BY <1>3 DEF Books, Once, Behind
<1> QED BY <1>1, <1>2, <1>4 DEF BooksInv

LEMMA StillBehind ==
  ASSUME NEW a \in Nat, NEW b \in Nat, a <= b
  PROVE  \A i \in 1..(a - 1) : i \in 1..(b - 1)
OBVIOUS

\* What the steps between two results leave alone.
LEMMA BooksGoOn ==
  ASSUME BooksInv, stage \notin {"idle", "killed", "save"}, ScanInv',
         UNCHANGED <<repos, skip, raw, scan_results>>,
         stage' \notin {"save", "finish", "done"},
         \/ idx' = idx /\ failed' = failed
         \/ idx' = idx + 1 /\ failed' = failed + 1
         \/ idx' = idx + 1 /\ skip
  PROVE  BooksInv'
<1>1. /\ idx \in Nat /\ idx' \in Nat /\ failed \in Nat /\ Len(scan_results) \in Nat
      /\ idx <= idx'
  BY DEF BooksInv, ScanInv, ScanTypeOK
<1>2. Books
  BY DEF BooksInv
<1>3. ~skip' => Len(scan_results') + failed' = Behind'
  BY <1>1, <1>2 DEF Books, Behind
<1>4. ASSUME NEW k \in 1..Len(scan_results') PROVE Listed(k)'
  <2>1. Listed(k)
    BY <1>2 DEF Books
  <2>2. /\ \E i \in 1..(idx - 1) : scan_results[k].repo = repos[i]
        /\ raw[DirOf(scan_results[k].repo)] = scan_results[k].found
    BY <2>1 DEF Listed
  <2>3. \A i \in 1..(idx - 1) : i \in 1..(idx' - 1)
    BY <1>1, StillBehind
  <2>4. /\ \E i \in 1..(idx' - 1) : scan_results'[k].repo = repos'[i]
        /\ raw'[DirOf(scan_results'[k].repo)] = scan_results'[k].found
    BY <2>2, <2>3
  <2> QED BY <2>4 DEF Listed
<1>5. Once'
  BY <1>2 DEF Books, Once
<1>6. Apart'
  BY DEF BooksInv, Apart
<1> QED BY <1>3, <1>4, <1>5, <1>6 DEF BooksInv, Books

LEMMA CloneBooks == BooksInv /\ (NextRepo \/ CloneFails \/ CloneSucceeds) => BooksInv'
<1> SUFFICES ASSUME BooksInv, NextRepo \/ CloneFails \/ CloneSucceeds PROVE BooksInv'
  OBVIOUS
<1>1. ScanInv'
  BY CloneStepsScan DEF BooksInv
<1>2. UNCHANGED <<repos, skip, raw, scan_results>>
  BY DEF NextRepo, CloneFails, CloneSucceeds, run
<1>3. stage \in {"next", "clone"} /\ stage' \in {"next", "clone", "scan"}
  BY DEF NextRepo, CloneFails, CloneSucceeds
<1>4. \/ idx' = idx /\ failed' = failed
      \/ idx' = idx + 1 /\ failed' = failed + 1
      \/ idx' = idx + 1 /\ skip
  BY DEF NextRepo, CloneFails, CloneSucceeds
<1> QED BY <1>1, <1>2, <1>3, <1>4, BooksGoOn

LEMMA ScanBooks == BooksInv /\ Scan => BooksInv'
<1> SUFFICES ASSUME BooksInv, Scan PROVE BooksInv'
  OBVIOUS
<1>1. ScanInv /\ Apart /\ Books /\ stage = "scan" /\ stage' = "save"
  BY DEF BooksInv, Scan
<1>2. ScanInv'
  BY <1>1, ScanScan
<1>3. UNCHANGED <<repos, skip, idx, failed>>
  BY DEF Scan, run
<1>4. idx \in 1..Len(repos) /\ Len(repos) \in Nat /\ Directory \in Dir
  BY <1>1, AtTheRepo
<1>5. PICK f \in Found : scan_results' = Append(scan_results, [repo |-> repos[idx], found |-> f])
  BY DEF Scan
<1> DEFINE n == Len(scan_results)
<1>6. scan_results \in Seq(Result) /\ n \in Nat
  BY <1>1 DEF ScanInv, ScanTypeOK
<1>7. /\ Len(scan_results') = n + 1 /\ scan_results'[n + 1].repo = repos[idx]
      /\ \A k \in 1..n : scan_results'[k] = scan_results[k]
  BY <1>5, <1>6
<1> HIDE DEF n
<1>8. ASSUME NEW k \in 1..n
      PROVE  /\ \E i \in 1..(idx - 1) : scan_results[k].repo = repos[i]
             /\ raw[DirOf(scan_results[k].repo)] = scan_results[k].found
             /\ DirOf(scan_results[k].repo) # Directory
  <2>1. Listed(k)
    BY <1>1 DEF Books, n
  <2>2. PICK i \in 1..(idx - 1) : scan_results[k].repo = repos[i]
    BY <1>1, <2>1 DEF Listed
  <2>3. i \in 1..Len(repos) /\ i # idx
    BY <1>4
  <2> QED BY <1>1, <1>4, <2>1, <2>2, <2>3 DEF Listed, Apart, Directory
<1>9. raw' = [raw EXCEPT ![Directory] = "damaged"]
  BY DEF Scan
<1>10. \A k \in 1..n : raw'[DirOf(scan_results[k].repo)] = raw[DirOf(scan_results[k].repo)]
  BY <1>1, <1>8, <1>9 DEF ScanInv, ScanTypeOK
<1>11. ASSUME NEW k \in 1..Len(scan_results') PROVE Listed(k)'
  <2>1. CASE k = n + 1
    BY <1>1, <1>3, <1>7, <2>1 DEF Listed
  <2>2. CASE k \in 1..n
    <3>1. k # n + 1
      BY <1>6, <2>2 DEF n
    <3>2. /\ \E i \in 1..(idx' - 1) : scan_results'[k].repo = repos'[i]
          /\ raw'[DirOf(scan_results'[k].repo)] = scan_results'[k].found
      BY <1>3, <1>7, <1>8, <1>10, <2>2
    <3> QED BY <1>7, <3>1, <3>2 DEF Listed
  <2> QED BY <1>6, <1>7, <2>1, <2>2 DEF n
<1>12. Once'
  <2>1. ASSUME NEW k \in 1..n, NEW l \in 1..n, k # l
        PROVE  DirOf(scan_results[k].repo) # DirOf(scan_results[l].repo)
    BY <1>1, <2>1 DEF Books, Once, n
  <2>2. \A k \in 1..(n + 1) : k = n + 1 \/ k \in 1..n
    BY <1>6 DEF n
  <2>3. DirOf(scan_results'[n + 1].repo) = Directory
    BY <1>7 DEF Directory
  <2> QED BY <1>7, <1>8, <2>1, <2>2, <2>3 DEF Once
<1>13. ~skip' => Len(scan_results') + failed' = Behind'
  BY <1>1, <1>3, <1>4, <1>6, <1>7 DEF Books, Behind, n, ScanInv, ScanTypeOK
<1>14. Apart'
  BY <1>1, <1>3 DEF Apart
<1> QED BY <1>1, <1>2, <1>11, <1>12, <1>13, <1>14 DEF BooksInv, Books

LEMMA SaveBooks == BooksInv /\ Save => BooksInv'
<1> SUFFICES ASSUME BooksInv, Save PROVE BooksInv'
  OBVIOUS
<1>1. ScanInv /\ Apart /\ Books /\ stage = "save" /\ stage' \in {"checkpoint", "next"}
  BY DEF BooksInv, Save
<1>2. ScanInv'
  BY <1>1, SaveScan
<1>3. UNCHANGED <<repos, skip, failed, scan_results>> /\ idx' = idx + 1
  BY DEF Save, run
<1>4. idx \in 1..Len(repos) /\ Len(repos) \in Nat /\ Directory \in Dir
  BY <1>1, AtTheRepo
<1> DEFINE n == Len(scan_results)
<1>5. n \in Nat \ {0} /\ raw' = [raw EXCEPT ![Directory] = scan_results[n].found]
  BY <1>1, LastResult DEF Save
<1>6. Listed(n) /\ \A k \in 1..n : Listed(k)
  BY <1>1, <1>5 DEF Books
<1>7. scan_results[n].repo = repos[idx] /\ DirOf(scan_results[n].repo) = Directory
  BY <1>1, <1>6 DEF Listed, Directory
<1>8. raw'[Directory] = scan_results[n].found
  BY <1>1, <1>4, <1>5 DEF ScanInv, ScanTypeOK
<1>9. ASSUME NEW k \in 1..n
      PROVE  /\ \E i \in 1..(idx' - 1) : scan_results[k].repo = repos[i]
             /\ raw'[DirOf(scan_results[k].repo)] = scan_results[k].found
  <2>1. CASE k = n
    <3>1. idx \in 1..(idx' - 1)
      BY <1>3, <1>4
    <3> QED BY <1>7, <1>8, <2>1, <3>1
  <2>2. CASE k # n
    <3>1. /\ \E i \in 1..(idx - 1) : scan_results[k].repo = repos[i]
          /\ raw[DirOf(scan_results[k].repo)] = scan_results[k].found
      BY <1>6, <2>2 DEF Listed
    <3>2. \A i \in 1..(idx - 1) : i \in 1..(idx' - 1)
      BY <1>3, <1>4
    <3>3. n \in 1..n
      BY <1>5
    <3>4. DirOf(scan_results[k].repo) # Directory
      BY <1>1, <1>7, <2>2, <3>3 DEF Books, Once
    <3>5. raw'[DirOf(scan_results[k].repo)] = raw[DirOf(scan_results[k].repo)]
      BY <1>1, <1>5, <3>4 DEF ScanInv, ScanTypeOK
    <3> QED BY <3>1, <3>2, <3>5
  <2> QED BY <2>1, <2>2
<1>10. \A k \in 1..Len(scan_results') : Listed(k)'
  BY <1>1, <1>3, <1>9 DEF Listed
<1>11. Once' /\ Apart'
  BY <1>1, <1>3 DEF Books, Once, Apart
<1>12. ~skip' => Len(scan_results') + failed' = Behind'
  BY <1>1, <1>3, <1>4 DEF Books, Behind
<1> QED BY <1>1, <1>2, <1>10, <1>11, <1>12 DEF BooksInv, Books

LEMMA WriteBooks == BooksInv /\ (Truncate \/ Write) => BooksInv'
<1> SUFFICES ASSUME BooksInv, Truncate \/ Write PROVE BooksInv'
  OBVIOUS
<1>1. /\ ScanInv /\ Apart /\ Books /\ stage # "save"
      /\ stage' \in {"write", "finish", "next", "done"}
  BY DEF BooksInv, Truncate, Write
<1>2. ScanInv'
  BY <1>1, WriteScan
<1>3. UNCHANGED <<repos, skip, idx, failed, raw, scan_results>>
  BY DEF Truncate, Write, run
<1>4. stage' \in {"finish", "done"} => idx' > Len(repos')
  BY <1>1, <1>3 DEF Truncate, Write, Books
<1>5. stage' = "done" => aggregate' = scan_results'
  BY <1>3 DEF Truncate, Write
<1>6. \A k \in 1..Len(scan_results') : Listed(k)'
  BY <1>1, <1>3 DEF Books, Listed
<1>7. Once' /\ Apart' /\ (~skip' => Len(scan_results') + failed' = Behind')
  BY <1>1, <1>3 DEF Books, Once, Apart, Behind
<1> QED BY <1>2, <1>4, <1>5, <1>6, <1>7 DEF BooksInv, Books

LEMMA RestBooks == BooksInv /\ (KillScript \/ GitEnds \/ UNCHANGED scanVars) => BooksInv'
<1> SUFFICES ASSUME BooksInv, KillScript \/ GitEnds \/ UNCHANGED scanVars PROVE BooksInv'
  OBVIOUS
<1>1. ScanInv'
  BY NextScan DEF BooksInv, ScanNext
<1>2. UNCHANGED <<repos, skip, idx, raw, aggregate, scan_results, failed>>
  BY DEF KillScript, GitEnds, scanVars, run
<1>3. stage' \in {"killed", stage}
  BY DEF KillScript, GitEnds, scanVars
<1>4. Apart'
  BY <1>2 DEF BooksInv, Apart
<1>5. stage' = stage /\ Books => Books'
  BY <1>2 DEF Books, Listed, Once, Behind
<1> QED BY <1>1, <1>3, <1>4, <1>5 DEF BooksInv

LEMMA BooksAddUp == BooksInv => FinishedRunAddsUp
<1> SUFFICES ASSUME BooksInv, stage = "done" PROVE FinishedRunAddsUp
  BY DEF FinishedRunAddsUp
<1>1. ScanInv /\ Books
  BY DEF BooksInv
<1>2. idx = Len(repos) + 1 /\ Len(repos) \in Nat
  BY <1>1 DEF Books, ScanInv, ScanTypeOK
<1>3. ~skip => Len(scan_results) + failed = Len(repos)
  BY <1>1, <1>2 DEF Books, Behind
<1>4. ASSUME NEW r \in ToSet(scan_results) PROVE raw[DirOf(r.repo)] = r.found
  <2>1. PICK k \in 1..Len(scan_results) : scan_results[k] = r
    BY <1>1 DEF ToSet, ScanInv, ScanTypeOK
  <2> QED BY <1>1, <2>1 DEF Books, Listed
<1> QED BY <1>1, <1>3, <1>4 DEF FinishedRunAddsUp, Books, Once

\* Where no repository's name has "__" in it, a run that ends has counted every
\* repository it set out to scan once, as a result or as a failed clone, and the
\* aggregate and the raw files agree; after any failures, timeouts and kills before.
\* (The premise is needed: a name read back from a directory is another one then.)
THEOREM RunsAddUp == Plain => (ScanSpec => []FinishedRunAddsUp)
<1> SUFFICES ASSUME Plain PROVE ScanSpec => []FinishedRunAddsUp
  OBVIOUS
<1>1. BooksInv /\ [ScanNext]_scanVars => BooksInv'
  BY StartBooks, CloneBooks, ScanBooks, SaveBooks, WriteBooks, RestBooks DEF ScanNext, ScriptStep
<1> QED BY <1>1, InitBooks, BooksAddUp, PTL DEF ScanSpec
=============================================================================
