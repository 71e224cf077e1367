----------------------------- MODULE AuditProofs -----------------------------
(***************************************************************************)
(* For files of any length and lines of any text the two loops of          *)
(* parse_inline_suppressions together compute InlineSuppressions, the map  *)
(* stated without a loop.  For any file, configuration, number of rules    *)
(* and number of findings the stages of analyze_source_full lose no        *)
(* finding, give each one the severity the documents promise, and report   *)
(* in a fixed order.  For any policy the audit keeps that, an orphan is a  *)
(* comment that no finding needs and that can be struck out, and an exit   *)
(* status of 0 means what the flags say.                                   *)
(***************************************************************************)
EXTENDS Audit, Suppressions, FiniteSetTheorems, WellFoundedInduction, TLAPS

(***************************************************************************)
(* What the regexes and the target rule do, for lines of any text: the     *)
(* facts on which the proofs about the loops and about the audit rest.     *)
(***************************************************************************)
\* The least-number principle, from the well-foundedness of < on Nat.
LEMMA LeastElement ==
  ASSUME NEW T \in SUBSET Nat, T # {}
  PROVE  \E m \in T : \A k \in T : m <= k
<1>1. PICK m \in T : \A k \in T : <<k, m>> \notin OpToRel(<, Nat)
  BY NatLessThanWellFounded, WFMin
<1>2. \A k \in T : ~ (k < m)
  BY <1>1 DEF OpToRel
<1> QED BY <1>2

\* A line that matches has a first keyword, so MatchStart is what its
\* description says: re.search finds the leftmost one.
LEMMA FirstMatch ==
  ASSUME NEW ln \in Line, Matches(ln)
  PROVE  /\ MatchStart(ln) \in 1..Len(ln.text)
         /\ ln.text[MatchStart(ln)] \in Keyword
<1>1. ln.text \in Seq(Token) /\ Len(ln.text) \in Nat
  BY DEF Line
<1> DEFINE T == {i \in 1..Len(ln.text) : ln.text[i] \in Keyword}
<1>2. T \in SUBSET Nat /\ T # {}
  BY <1>1 DEF Matches
<1> HIDE DEF T
<1>3. PICK m \in T : \A k \in T : m <= k
  BY <1>2, LeastElement
<1>4. \A j \in 1..(m - 1) : ln.text[j] \notin Keyword
  BY <1>1, <1>2, <1>3 DEF T
<1>5. m \in 1..Len(ln.text) /\ ln.text[m] \in Keyword
  BY <1>3 DEF T
<1> QED BY <1>4, <1>5 DEF MatchStart

\* A directive is what suppressions.py says a SuppressionDirective is.
LEMMA DirectiveType ==
  ASSUME NEW ln \in Line, NEW n \in Nat, IsDirective(ln)
  PROVE  DirectiveOf(ln, n) \in SuppressionDirective /\ TargetLine(ln, n) \in {n, n + 1}
<1>1. ln.text[MatchStart(ln)] \in Keyword
  BY FirstMatch DEF IsDirective
<1>2. TargetLine(ln, n) \in {n, n + 1}
  BY DEF TargetLine
<1>3. RuleIds(ln) \subseteq Rule /\ Justified(ln) \in BOOLEAN
  BY DEF RuleIds, Justified
<1> QED BY <1>1, <1>2, <1>3 DEF DirectiveOf, SuppressionDirective

\* Where a directive aims, in the words of InlineSuppressions.
LEMMA WhereItAims ==
  ASSUME NEW ln \in Line, NEW k \in Nat, IsDirective(ln)
  PROVE  /\ TargetLine(ln, k) = k <=> AimsAtItself(ln)
         /\ TargetLine(ln, k) = k + 1 <=> AimsBelow(ln)
<1>1. ln.text[MatchStart(ln)] \in {Ignore, IgnoreNextLine}
  BY FirstMatch DEF IsDirective, Keyword
<1>2. Ignore # IgnoreNextLine /\ k # k + 1
  BY DEF Ignore, IgnoreNextLine
<1> QED BY <1>1, <1>2 DEF TargetLine, AimsAtItself, AimsBelow

\* The rules suppressed on the line a directive aims at include those it names.
LEMMA NamedIsSuppressed ==
  ASSUME NEW file \in Seq(Line), NEW k \in 1..Len(file), IsDirective(file[k]),
         NEW r \in RuleIds(file[k])
  PROVE  r \in InlineSuppressions(file, TargetLine(file[k], k))
<1> DEFINE n == TargetLine(file[k], k)
<1>1. file[k] \in Line /\ k \in Nat /\ Len(file) \in Nat
  OBVIOUS
<1>2. n \in {k, k + 1} /\ (n = k <=> AimsAtItself(file[k])) /\ (n = k + 1 <=> AimsBelow(file[k]))
  BY <1>1, DirectiveType, WhereItAims
<1>3. r \in Rule
  BY DEF RuleIds
<1> SUFFICES r \in InlineSuppressions(file, n)
  OBVIOUS
<1> HIDE DEF n
<1>4. CASE n = k
  BY <1>2, <1>3, <1>4 DEF InlineSuppressions
<1>5. CASE n = k + 1
  <2>1. n - 1 = k
    BY <1>1, <1>5
  <2> QED BY <1>2, <1>3, <1>5, <2>1 DEF InlineSuppressions
<1> QED BY <1>2, <1>4, <1>5

-----------------------------------------------------------------------------
(***************************************************************************)
(* The two loops                                                           *)
(***************************************************************************)

\* Line k has been read and holds a directive.
Read(k) == k < lineno /\ IsDirective(source[k])

\* The first loop has collected the directives of the lines it has read, those
\* only; the second has folded those before `next`, into the lines they aim at.
Collected ==
  /\ \A i \in 1..Len(directives) :
       \E k \in 1..Len(source) : Read(k) /\ directives[i] = DirectiveOf(source[k], k)
  /\ \A k \in 1..Len(source) :
       Read(k) => \E i \in 1..Len(directives) : directives[i] = DirectiveOf(source[k], k)

FoldedAt(n, r) ==
  \E i \in 1..(folding - 1) : directives[i].target_line = n /\ r \in directives[i].rule_ids

Folded ==
  /\ folding > 1 => Parsed
  /\ \A n \in Targets : \A r \in Rule : r \in suppressions[n] <=> FoldedAt(n, r)

Inv == SuppressionsTypeOK /\ Collected /\ Folded

LEMMA SourceType == SuppressionsTypeOK => source \in Seq(Line) /\ Len(source) \in Nat
BY FilesAssumption DEF SuppressionsTypeOK

LEMMA InitInv == SuppressionsInit => Inv
<1> SUFFICES ASSUME SuppressionsInit PROVE Inv
  OBVIOUS
<1>1. source \in Seq(Line) /\ Len(source) \in Nat
  BY FilesAssumption DEF SuppressionsInit
<1>2. directives \in Seq(SuppressionDirective) /\ Len(directives) = 0
  BY DEF SuppressionsInit
<1>3. SuppressionsTypeOK
  BY <1>1, <1>2 DEF SuppressionsInit, SuppressionsTypeOK, Targets
<1>4. Collected
  BY <1>1, <1>2 DEF SuppressionsInit, Collected, Read
<1>5. Folded
  BY <1>1, <1>2 DEF SuppressionsInit, Folded, FoldedAt, Targets
<1> QED BY <1>3, <1>4, <1>5 DEF Inv

\* The first loop: the line read next.
LEMMA ParseLineInv == Inv /\ ParseLine => Inv'
<1> SUFFICES ASSUME Inv, ParseLine PROVE Inv'
  OBVIOUS
<1> DEFINE ln == source[lineno]
           d  == DirectiveOf(ln, lineno)
<1>1. /\ source \in Seq(Line) /\ Len(source) \in Nat
      /\ lineno \in 1..Len(source) /\ ln \in Line
      /\ directives \in Seq(SuppressionDirective) /\ Len(directives) \in Nat
      /\ folding = 1 /\ source' = source /\ lineno' = lineno + 1
      /\ folding' = folding /\ suppressions' = suppressions
  BY SourceType DEF Inv, SuppressionsTypeOK, Folded, ParseLine, Parsed
<1>2. SuppressionsTypeOK' /\ Collected'
  <2>1. CASE IsDirective(ln)
    <3>1. d \in SuppressionDirective
      BY <1>1, <2>1, DirectiveType
    <3>2. directives' = Append(directives, d)
      BY <2>1 DEF ParseLine
    <3> HIDE DEF d
    <3>3. /\ directives' \in Seq(SuppressionDirective) /\ Len(directives') = Len(directives) + 1
          /\ directives'[Len(directives) + 1] = d
          /\ \A i \in 1..Len(directives) : directives'[i] = directives[i]
      BY <1>1, <3>1, <3>2
    <3>4. SuppressionsTypeOK'
      BY <1>1, <3>3 DEF Inv, SuppressionsTypeOK, Targets
    <3>5. \A i \in 1..Len(directives') :
            \E k \in 1..Len(source) : Read(k)' /\ directives'[i] = DirectiveOf(source[k], k)
      <4>1. ASSUME NEW i \in 1..Len(directives)
            PROVE  \E k \in 1..Len(source) : Read(k)' /\ directives'[i] = DirectiveOf(source[k], k)
        BY <1>1, <3>3 DEF Inv, Collected, Read
      <4>2. ASSUME NEW k \in 1..Len(source), k = lineno
            PROVE  Read(k)' /\ directives'[Len(directives) + 1] = DirectiveOf(source[k], k)
        BY <1>1, <2>1, <3>3, <4>2 DEF Read, d
      <4>3. \E k \in 1..Len(source) :
              Read(k)' /\ directives'[Len(directives) + 1] = DirectiveOf(source[k], k)
        BY <1>1, <4>2
      <4>4. \A i \in 1..Len(directives') : i \in 1..Len(directives) \/ i = Len(directives) + 1
        BY <1>1, <3>3
      <4> QED BY <4>1, <4>3, <4>4
    <3>6. \A k \in 1..Len(source) :
            Read(k)' => \E i \in 1..Len(directives') : directives'[i] = DirectiveOf(source[k], k)
      <4> SUFFICES ASSUME NEW k \in 1..Len(source), Read(k)'
                   PROVE  \E i \in 1..Len(directives') : directives'[i] = DirectiveOf(source[k], k)
        OBVIOUS
      <4>1. CASE k = lineno
        BY <1>1, <3>3, <4>1 DEF d
      <4>2. CASE k # lineno
        <5>1. Read(k)
          BY <1>1, <4>2 DEF Read
        <5>2. PICK i \in 1..Len(directives) : directives[i] = DirectiveOf(source[k], k)
          BY <5>1 DEF Inv, Collected
        <5> QED BY <1>1, <3>3, <5>2
      <4> QED BY <4>1, <4>2
    <3> QED BY <1>1, <3>4, <3>5, <3>6 DEF Collected
  <2>2. CASE ~IsDirective(ln)
    <3>1. directives' = directives
      BY <2>2 DEF ParseLine
    <3>2. \A k \in 1..Len(source) : Read(k)' <=> Read(k)
      BY <1>1, <2>2 DEF Read
    <3> QED BY <1>1, <3>1, <3>2 DEF Inv, SuppressionsTypeOK, Targets, Collected
  <2> QED BY <2>1, <2>2
<1>3. Folded'
  BY <1>1 DEF Inv, Folded, FoldedAt, Targets, SuppressionsTypeOK
<1> QED BY <1>2, <1>3 DEF Inv

\* The second loop: the directive folded next.
LEMMA FoldDirectiveInv == Inv /\ FoldDirective => Inv'
<1> SUFFICES ASSUME Inv, FoldDirective PROVE Inv'
  OBVIOUS
<1> DEFINE d == directives[folding]
<1>1. /\ source \in Seq(Line) /\ Len(source) \in Nat
      /\ Parsed /\ folding \in 1..Len(directives) /\ Len(directives) \in Nat
      /\ source' = source /\ lineno' = lineno /\ directives' = directives /\ folding' = folding + 1
      /\ suppressions \in [Targets -> SUBSET Rule]
      /\ suppressions' = [suppressions EXCEPT ![d.target_line] = @ \cup d.rule_ids]
  BY SourceType DEF Inv, SuppressionsTypeOK, FoldDirective, Done
<1>2. d.target_line \in Targets /\ d.rule_ids \subseteq Rule
  <2>1. PICK k \in 1..Len(source) : Read(k) /\ d = DirectiveOf(source[k], k)
    BY <1>1 DEF Inv, Collected
  <2>2. d \in SuppressionDirective /\ d.target_line \in {k, k + 1}
    BY <1>1, <2>1, DirectiveType DEF Read, DirectiveOf
  <2> QED BY <1>1, <2>2 DEF SuppressionDirective, Targets
<1> HIDE DEF d
<1>3. SuppressionsTypeOK'
  <2>1. Targets' = Targets
    BY <1>1 DEF Targets
  <2>2. suppressions[d.target_line] \cup d.rule_ids \in SUBSET Rule
    BY <1>1, <1>2
  <2>3. suppressions' \in [Targets -> SUBSET Rule]
    BY <1>1, <1>2, <2>2
  <2>4. folding' \in 1..(Len(directives') + 1)
    BY <1>1
  <2> QED BY <1>1, <2>1, <2>3, <2>4 DEF Inv, SuppressionsTypeOK
<1>4. Collected'
  BY <1>1 DEF Inv, Collected, Read
<1>5. Folded'
  <2> SUFFICES ASSUME NEW n \in Targets, NEW r \in Rule
               PROVE  r \in suppressions'[n] <=> FoldedAt(n, r)'
    BY <1>1 DEF Folded, Targets, Parsed
  <2>1. r \in suppressions'[n] <=> FoldedAt(n, r) \/ (d.target_line = n /\ r \in d.rule_ids)
    BY <1>1, <1>2 DEF Inv, Folded
  <2>2. FoldedAt(n, r)' <=> FoldedAt(n, r) \/ (d.target_line = n /\ r \in d.rule_ids)
    BY <1>1 DEF FoldedAt, d
  <2> QED BY <2>1, <2>2
<1> QED BY <1>3, <1>4, <1>5 DEF Inv

LEMMA StutterInv == Inv /\ UNCHANGED suppressionsVars => Inv'
<1> SUFFICES ASSUME Inv, UNCHANGED suppressionsVars PROVE Inv'
  OBVIOUS
<1>1. SuppressionsTypeOK'
  BY DEF suppressionsVars, Inv, SuppressionsTypeOK, Targets
<1>2. Collected'
  BY DEF suppressionsVars, Inv, Collected, Read
<1>3. Folded'
  BY DEF suppressionsVars, Inv, Folded, FoldedAt, Targets, Parsed
<1> QED BY <1>1, <1>2, <1>3 DEF Inv

\* When both loops are over the map is the one InlineSuppressions describes.
LEMMA InvIsComplete == Inv => MapIsComplete
<1> SUFFICES ASSUME Inv, Done, NEW n \in Targets
             PROVE  suppressions[n] = InlineSuppressions(source, n)
  BY DEF MapIsComplete
<1>1. /\ source \in Seq(Line) /\ Len(source) \in Nat /\ lineno = Len(source) + 1
      /\ Len(directives) \in Nat /\ folding = Len(directives) + 1
      /\ suppressions[n] \subseteq Rule
  BY SourceType DEF Inv, SuppressionsTypeOK, Done, Parsed
<1>2. \A k \in 1..Len(source) : Read(k) <=> IsDirective(source[k])
  BY <1>1 DEF Read
<1>3. ASSUME NEW r \in Rule
      PROVE  FoldedAt(n, r) <=>
               \E k \in 1..Len(source) : /\ IsDirective(source[k]) /\ r \in RuleIds(source[k])
                                        /\ TargetLine(source[k], k) = n
  <2>1. \A k \in 1..Len(source) : /\ DirectiveOf(source[k], k).target_line = TargetLine(source[k], k)
                                 /\ DirectiveOf(source[k], k).rule_ids = RuleIds(source[k])
    BY DEF DirectiveOf
  <2>2. FoldedAt(n, r) <=> \E i \in 1..Len(directives) :
                              directives[i].target_line = n /\ r \in directives[i].rule_ids
    BY <1>1 DEF FoldedAt
  <2> QED BY <1>2, <2>1, <2>2 DEF Inv, Collected
<1>4. ASSUME NEW r \in Rule
      PROVE  r \in InlineSuppressions(source, n) <=>
               \E k \in 1..Len(source) : /\ IsDirective(source[k]) /\ r \in RuleIds(source[k])
                                        /\ TargetLine(source[k], k) = n
  <2> DEFINE Hit(k) == /\ IsDirective(source[k]) /\ r \in RuleIds(source[k])
                       /\ TargetLine(source[k], k) = n
  <2>1. ASSUME NEW k \in 1..Len(source)
        PROVE  Hit(k) <=> /\ r \in RuleIds(source[k])
                          /\ (k = n /\ AimsAtItself(source[k])) \/ (k = n - 1 /\ AimsBelow(source[k]))
    <3>1. source[k] \in Line /\ k \in Nat /\ n \in Nat
      BY <1>1 DEF Targets
    <3>2. ~IsDirective(source[k]) => ~AimsAtItself(source[k]) /\ ~AimsBelow(source[k])
      BY DEF AimsAtItself, AimsBelow
    <3>3. IsDirective(source[k]) =>
            /\ TargetLine(source[k], k) = k <=> AimsAtItself(source[k])
            /\ TargetLine(source[k], k) = k + 1 <=> AimsBelow(source[k])
            /\ TargetLine(source[k], k) \in {k, k + 1}
      BY <3>1, WhereItAims, DirectiveType
    <3> QED BY <3>1, <3>2, <3>3
  <2>2. n \in Nat /\ n - 1 \in Nat
    BY <1>1 DEF Targets
  <2>3. (\E k \in 1..Len(source) : Hit(k)) <=>
          \/ n \in 1..Len(source) /\ AimsAtItself(source[n]) /\ r \in RuleIds(source[n])
          \/ n - 1 \in 1..Len(source) /\ AimsBelow(source[n - 1]) /\ r \in RuleIds(source[n - 1])
    <3> HIDE DEF Hit
    <3> QED BY <2>1, <2>2
  <2> QED BY <2>3 DEF InlineSuppressions
<1>5. InlineSuppressions(source, n) \subseteq Rule
  BY DEF InlineSuppressions
<1>6. \A r \in Rule : r \in suppressions[n] <=> FoldedAt(n, r)
  BY DEF Inv, Folded
<1> QED BY <1>1, <1>3, <1>4, <1>5, <1>6

\* The map a file's comments are turned into is complete and has nothing else,
\* for every file.
THEOREM SuppressionsAreComplete == SuppressionsSpec => []MapIsComplete
<1>1. Inv /\ [SuppressionsNext]_suppressionsVars => Inv'
  BY ParseLineInv, FoldDirectiveInv, StutterInv DEF SuppressionsNext
<1> QED BY <1>1, InitInv, InvIsComplete, PTL DEF SuppressionsSpec

\* Type correctness of the two loops, on every file.
THEOREM SuppressionsTypes == SuppressionsSpec => []SuppressionsTypeOK
<1>1. Inv /\ [SuppressionsNext]_suppressionsVars => Inv'
  BY ParseLineInv, FoldDirectiveInv, StutterInv DEF SuppressionsNext
<1>2. Inv => SuppressionsTypeOK
  BY DEF Inv
<1> QED BY <1>1, <1>2, InitInv, PTL DEF SuppressionsSpec

-----------------------------------------------------------------------------
(***************************************************************************)
(* The stages of the analysis                                              *)
(***************************************************************************)
\* The severity a raised finding has at the present stage.
EntrySeverity(v) == IF EntryDowngraded(program, v) THEN "WARNING" ELSE v.severity
PathSeverity(v)  == IF EntryDowngraded(program, v) \/ PathDowngraded(program, downgrade, v)
                      THEN "WARNING" ELSE v.severity
SeverityNow(v) == CASE stage \in {"parse", "rules", "entry"} -> v.severity
                    [] stage = "path"                        -> EntrySeverity(v)
                    [] stage = "config"                      -> PathSeverity(v)
                    [] stage \in {"sort", "classify", "done"} -> FinalSeverity(v)

\* v is a raised finding, with the severity it has now.
Genuine(v) == /\ v.id \in 1..Len(raised) /\ SameFinding(v, raised[v.id])
              /\ v.severity = SeverityNow(raised[v.id])

Numbered == \A i \in 1..Len(raised) : raised[i].id = i

\* The list holds the raised findings, each of them once.
Complete ==
  /\ Len(violations) = Len(raised)
  /\ \A i \in 1..Len(violations) : Genuine(violations[i])
  /\ \A k \in 1..Len(raised) : \E i \in 1..Len(violations) : violations[i].id = k

Before(v, w) == v.line < w.line \/ (v.line = w.line /\ v.id < w.id)

Sorting == stage \notin {"classify", "done"}

\* In the order they were raised before the sort, in line order after it.
Ordered ==
  /\ Sorting => \A i \in 1..Len(violations) : violations[i].id = i
  /\ ~Sorting => \A i, j \in 1..Len(violations) : i < j => Before(violations[i], violations[j])

\* The last loop has put each finding it has looked at into one of its lists.
Hushed(v) == v.rule_id \in InlineSuppressions(program.lines, v.line)
Placed ==
  /\ Sorting => next = 1 /\ Len(reported) = 0 /\ Len(suppressed) = 0
  /\ stage = "done" => next = Len(violations) + 1
  /\ Len(reported) + Len(suppressed) = next - 1
  /\ \A i \in 1..(next - 1) : violations[i] \in Reported \cup Suppressed
  /\ \A i \in 1..Len(reported) :
       /\ \E k \in 1..(next - 1) : reported[i] = violations[k]
       /\ ~Hushed(reported[i])
  /\ \A i \in 1..Len(suppressed) :
       /\ \E k \in 1..(next - 1) : suppressed[i].v = violations[k]
       /\ suppressed[i].reason = "inline" <=> Hushed(suppressed[i].v)

Unstarted == stage = "parse" => Len(raised) = 0

StagesInv == /\ TypeOK /\ Numbered /\ Complete /\ Ordered /\ Placed
             /\ ReportOrder /\ Unstarted

\* The sequences of the state, as the provers need them.
LEMMA Sizes ==
  TypeOK => /\ Len(raised) \in Nat /\ Len(violations) \in Nat
            /\ Len(reported) \in Nat /\ Len(suppressed) \in Nat
            /\ \A i \in 1..Len(raised) : raised[i] \in Violation
            /\ \A i \in 1..Len(violations) : violations[i] \in Violation
            /\ \A i \in 1..Len(reported) : reported[i] \in Violation
            /\ \A i \in 1..Len(suppressed) : suppressed[i].v \in Violation
<1> SUFFICES ASSUME TypeOK
             PROVE  /\ Len(raised) \in Nat /\ Len(violations) \in Nat
                    /\ Len(reported) \in Nat /\ Len(suppressed) \in Nat
                    /\ \A i \in 1..Len(raised) : raised[i] \in Violation
                    /\ \A i \in 1..Len(violations) : violations[i] \in Violation
                    /\ \A i \in 1..Len(reported) : reported[i] \in Violation
                    /\ \A i \in 1..Len(suppressed) : suppressed[i].v \in Violation
  OBVIOUS
<1> DEFINE Entry == [v : Violation, reason : {"inline", "config"}]
<1>1. /\ raised \in Seq(Violation) /\ violations \in Seq(Violation) /\ reported \in Seq(Violation)
      /\ suppressed \in Seq(Entry)
  BY DEF TypeOK
<1> HIDE DEF Entry
<1>2. /\ Len(raised) \in Nat /\ Len(violations) \in Nat
      /\ Len(reported) \in Nat /\ Len(suppressed) \in Nat
  BY <1>1
<1>3. \A i \in 1..Len(suppressed) : suppressed[i] \in Entry
  BY <1>1
<1>4. \A i \in 1..Len(suppressed) : suppressed[i].v \in Violation
  BY <1>3 DEF Entry
<1>5. /\ \A i \in 1..Len(raised) : raised[i] \in Violation
      /\ \A i \in 1..Len(violations) : violations[i] \in Violation
      /\ \A i \in 1..Len(reported) : reported[i] \in Violation
  BY <1>1
<1> QED BY <1>2, <1>4, <1>5

LEMMA InputTypes ==
  TypeOK => /\ program \in Program /\ config \in Config /\ downgrade \subseteq Rule
            /\ \A r \in DOMAIN config.severity : config.severity[r] \in Severity
<1> SUFFICES ASSUME TypeOK
             PROVE  /\ program \in Program /\ config \in Config /\ downgrade \subseteq Rule
                    /\ \A r \in DOMAIN config.severity : config.severity[r] \in Severity
  OBVIOUS
<1>1. program \in Program /\ config \in Config /\ downgrade \subseteq Rule
  BY InputAssumption, AnalyzerAssumption DEF TypeOK
<1>2. PICK D \in SUBSET Rule : config.severity \in [D -> Severity]
  BY <1>1 DEF Config
<1> QED BY <1>1, <1>2

LEMMA InitStages == Init => StagesInv
<1> SUFFICES ASSUME Init PROVE StagesInv
  OBVIOUS
<1>1. /\ Len(raised) = 0 /\ Len(violations) = 0 /\ Len(reported) = 0 /\ Len(suppressed) = 0
      /\ next = 1 /\ stage = "parse"
  BY DEF Init
<1>2. TypeOK
  BY <1>1, AnalyzerAssumption DEF Init, TypeOK, Stages
<1>3. Numbered /\ Complete /\ Ordered /\ Placed /\ ReportOrder /\ Unstarted
  BY <1>1 DEF Numbered, Complete, Ordered, Sorting, Placed, ReportOrder, Unstarted
<1> QED BY <1>2, <1>3 DEF StagesInv

-----------------------------------------------------------------------------
\* A step that moves on and touches no list.
LEMMA MoveOn ==
  StagesInv /\ UNCHANGED <<args, raised, violations, next, reported, suppressed>>
    /\ stage' \in Stages /\ rule' \in 1..Len(AllRules)
    /\ (stage' \in {"parse", "rules", "entry"} <=> stage \in {"parse", "rules", "entry"})
    /\ (stage' # stage => stage \in {"parse", "rules"}) /\ stage' # "parse"
  => StagesInv'
<1> SUFFICES ASSUME StagesInv, UNCHANGED <<args, raised, violations, next, reported, suppressed>>,
                    stage' \in Stages, rule' \in 1..Len(AllRules),
                    stage' \in {"parse", "rules", "entry"} <=> stage \in {"parse", "rules", "entry"},
                    stage' # stage => stage \in {"parse", "rules"}, stage' # "parse"
             PROVE  StagesInv'
  OBVIOUS
<1>1. TypeOK'
  BY DEF StagesInv, TypeOK, args
<1>2. stage' \in {"parse", "rules", "entry"} \/ stage' = stage
  BY DEF StagesInv, TypeOK, Stages
<1>3. \A v : SeverityNow(v)' = SeverityNow(v)
  BY <1>2 DEF SeverityNow, EntrySeverity, PathSeverity, FinalSeverity, args
<1>4. Numbered' /\ Complete'
  BY <1>3 DEF StagesInv, Numbered, Complete, Genuine, SameFinding
<1>5. Sorting' = Sorting /\ (stage' = "done" <=> stage = "done")
  BY <1>2 DEF Sorting
<1>6. Ordered' /\ ReportOrder' /\ Unstarted'
  BY <1>5 DEF StagesInv, Ordered, Before, ReportOrder, Unstarted
<1>7. Placed'
  BY <1>5 DEF StagesInv, Placed, Hushed, Reported, Suppressed, args
<1> QED BY <1>1, <1>4, <1>6, <1>7 DEF StagesInv

\* except SyntaxError: nothing has been raised, and nothing is returned.
LEMMA ParseFailsStages == StagesInv /\ ParseFails => StagesInv'
<1> SUFFICES ASSUME StagesInv, ParseFails PROVE StagesInv'
  OBVIOUS
<1>1. /\ stage = "parse" /\ stage' = "done"
      /\ UNCHANGED <<args, rule, raised, violations, next, reported, suppressed>>
  BY DEF ParseFails
<1>2. /\ Len(raised) = 0 /\ Len(violations) = 0 /\ Len(reported) = 0 /\ Len(suppressed) = 0
      /\ next = 1
  BY <1>1 DEF StagesInv, Unstarted, Complete, Placed, Sorting
<1>3. TypeOK'
  BY <1>1 DEF StagesInv, TypeOK, Stages, args
<1>4. Numbered' /\ Complete' /\ Ordered' /\ Placed' /\ ReportOrder' /\ Unstarted'
  BY <1>1, <1>2 DEF Numbered, Complete, Ordered, Sorting, Placed, ReportOrder, Unstarted
<1> QED BY <1>3, <1>4 DEF StagesInv

LEMMA ParseSucceedsStages == StagesInv /\ ParseSucceeds => StagesInv'
<1> SUFFICES ASSUME StagesInv, ParseSucceeds PROVE StagesInv'
  OBVIOUS
<1>1. rule' \in 1..Len(AllRules) /\ stage = "parse" /\ stage' = "rules"
  BY DEF StagesInv, TypeOK, ParseSucceeds
<1> QED BY <1>1, MoveOn DEF ParseSucceeds, Stages

LEMMA NextRuleStages == StagesInv /\ NextRule => StagesInv'
<1> SUFFICES ASSUME StagesInv, NextRule PROVE StagesInv'
  OBVIOUS
<1>1. AllRules \in Seq(Rule) /\ Len(AllRules) \in Nat /\ rule \in 1..Len(AllRules)
  BY AnalyzerAssumption DEF StagesInv, TypeOK
<1>2. rule' \in 1..Len(AllRules) /\ stage = "rules" /\ stage' \in {"rules", "entry"}
  BY <1>1 DEF NextRule
<1> QED BY <1>2, MoveOn DEF NextRule, Stages

\* A visitor appends a finding: it is genuine, and next in both lists.
LEMMA RaiseStages == StagesInv /\ Raise => StagesInv'
<1> SUFFICES ASSUME StagesInv, Raise PROVE StagesInv'
  OBVIOUS
<1>1. PICK line \in 1..Len(program.lines), fn \in Name, sev \in Severity :
        LET v == [id |-> Len(raised) + 1, rule_id |-> AllRules[rule], severity |-> sev,
                  line |-> line, function_name |-> fn, explained |-> FALSE]
        IN  raised' = Append(raised, v) /\ violations' = Append(violations, v)
  BY DEF Raise
<1> DEFINE v == [id |-> Len(raised) + 1, rule_id |-> AllRules[rule], severity |-> sev,
                 line |-> line, function_name |-> fn, explained |-> FALSE]
<1>2. /\ stage = "rules" /\ UNCHANGED <<args, stage, rule, next, reported, suppressed>>
      /\ raised \in Seq(Violation) /\ violations \in Seq(Violation)
      /\ Len(raised) \in Nat /\ Len(violations) = Len(raised)
      /\ next = 1 /\ Len(reported) = 0 /\ Len(suppressed) = 0
  BY Sizes DEF Raise, StagesInv, TypeOK, Complete, Placed, Sorting
<1>3. AllRules[rule] \in Rule
  BY AnalyzerAssumption DEF StagesInv, TypeOK
<1>4. v \in Violation
  <2>1. line \in Nat /\ Len(raised) + 1 \in Nat
    BY <1>2
  <2> QED BY <1>3, <2>1 DEF Violation
<1>5. v.id = Len(raised) + 1 /\ SameFinding(v, v)
  BY DEF SameFinding
<1>6. raised' = Append(raised, v) /\ violations' = Append(violations, v)
  BY <1>1
<1> HIDE DEF v
<1>7. /\ raised' \in Seq(Violation) /\ Len(raised') = Len(raised) + 1
      /\ raised'[Len(raised) + 1] = v
      /\ \A i \in 1..Len(raised) : raised'[i] = raised[i]
      /\ violations' \in Seq(Violation) /\ Len(violations') = Len(raised) + 1
      /\ violations'[Len(raised) + 1] = v
      /\ \A i \in 1..Len(raised) : violations'[i] = violations[i]
  BY <1>2, <1>4, <1>6
<1>8. TypeOK'
  BY <1>2, <1>7 DEF StagesInv, TypeOK, args
<1>9. Numbered'
  BY <1>2, <1>5, <1>7 DEF StagesInv, Numbered
<1>10. \A w : SeverityNow(w)' = w.severity /\ SeverityNow(w) = w.severity
  BY <1>2 DEF SeverityNow
<1>11. \A i \in 1..Len(violations') : Genuine(violations[i])'
  <2>1. ASSUME NEW i \in 1..Len(raised) PROVE Genuine(violations[i])'
    <3>1. Genuine(violations[i]) /\ violations[i].id \in 1..Len(raised)
      BY <1>2 DEF StagesInv, Complete, Genuine
    <3>2. /\ SameFinding(violations[i], raised[violations[i].id])
          /\ violations[i].severity = SeverityNow(raised[violations[i].id])
      BY <3>1 DEF Genuine
    <3>3. violations'[i] = violations[i] /\ raised'[violations[i].id] = raised[violations[i].id]
      BY <1>7, <3>1
    <3>4. violations[i].id \in 1..Len(raised')
      BY <1>2, <1>7, <3>1
    <3> QED BY <1>10, <3>2, <3>3, <3>4 DEF Genuine
  <2>2. \A i \in {Len(raised) + 1} : Genuine(violations[i])'
    BY <1>2, <1>5, <1>7, <1>10 DEF Genuine, SameFinding
  <2> QED BY <1>2, <1>7, <2>1, <2>2
<1>12. \A i \in 1..Len(violations') : violations'[i].id = i
  BY <1>2, <1>5, <1>7 DEF StagesInv, Ordered, Sorting
<1>13. Complete'
  BY <1>2, <1>7, <1>11, <1>12 DEF Complete
<1>14. Ordered' /\ Placed' /\ ReportOrder' /\ Unstarted'
  BY <1>2, <1>12 DEF StagesInv, Ordered, Sorting, Placed, ReportOrder, Unstarted
<1> QED BY <1>8, <1>9, <1>13, <1>14 DEF StagesInv

-----------------------------------------------------------------------------
\* A list rewritten place by place is a list of the same length.
LEMMA Rewritten ==
  ASSUME NEW S, NEW n \in Nat, NEW t \in [1..n -> S]
  PROVE  t \in Seq(S) /\ Len(t) = n
OBVIOUS

\* A stage that changes nothing but severities, and those as it should.
LEMMA SeverityStage ==
  StagesInv /\ UNCHANGED <<args, rule, raised, next, reported, suppressed>>
    /\ stage \in {"entry", "path", "config"} /\ stage' \in {"path", "config", "sort"}
    /\ violations' \in Seq(Violation) /\ Len(violations') = Len(violations)
    /\ (\A i \in 1..Len(violations) : /\ SameFinding(violations'[i], violations[i])
                                      /\ violations'[i].severity = SeverityNow(raised[i])')
  => StagesInv'
<1> SUFFICES ASSUME StagesInv, UNCHANGED <<args, rule, raised, next, reported, suppressed>>,
                    stage \in {"entry", "path", "config"}, stage' \in {"path", "config", "sort"},
                    violations' \in Seq(Violation), Len(violations') = Len(violations),
                    \A i \in 1..Len(violations) : /\ SameFinding(violations'[i], violations[i])
                                                  /\ violations'[i].severity = SeverityNow(raised[i])'
             PROVE  StagesInv'
  OBVIOUS
<1>1. TypeOK'
  BY DEF StagesInv, TypeOK, Stages, args
<1>2. Sorting /\ Sorting' /\ stage' # "parse" /\ stage' # "done"
  BY DEF Sorting
<1>3. \A i \in 1..Len(violations) : violations'[i].id = i /\ violations[i].id = i
  BY <1>2 DEF StagesInv, Ordered, SameFinding
<1>4. \A i \in 1..Len(violations) : Genuine(violations[i])'
  <2> SUFFICES ASSUME NEW i \in 1..Len(violations) PROVE Genuine(violations[i])'
    OBVIOUS
  <2>1. i \in 1..Len(raised) /\ SameFinding(violations[i], raised[i])
    BY <1>3 DEF StagesInv, Complete, Genuine
  <2>2. SameFinding(violations'[i], raised[i])
    BY <2>1 DEF SameFinding
  <2> QED BY <1>3, <2>1, <2>2 DEF Genuine, SameFinding
<1>5. Complete'
  BY <1>3, <1>4 DEF StagesInv, Complete
<1>6. Numbered' /\ Ordered' /\ Placed' /\ ReportOrder' /\ Unstarted'
  BY <1>2, <1>3 DEF StagesInv, Numbered, Ordered, Placed, ReportOrder, Unstarted
<1> QED BY <1>1, <1>5, <1>6 DEF StagesInv

\* Before the sort a finding of the list is the raised one of its place.
LEMMA InPlace ==
  ASSUME StagesInv, Sorting, NEW i \in 1..Len(violations)
  PROVE  /\ violations[i] \in Violation /\ raised[i] \in Violation
         /\ SameFinding(violations[i], raised[i])
         /\ violations[i].severity = SeverityNow(raised[i])
<1>1. violations[i].id = i /\ Genuine(violations[i]) /\ Len(violations) = Len(raised)
  BY DEF StagesInv, Ordered, Complete
<1> QED BY <1>1, Sizes DEF StagesInv, Genuine

LEMMA DowngradeEntryStages == StagesInv /\ DowngradeEntry => StagesInv'
<1> SUFFICES ASSUME StagesInv, DowngradeEntry PROVE StagesInv'
  OBVIOUS
<1> DEFINE low(v)   == [v EXCEPT !.severity = "WARNING", !.explained = TRUE]
           after(v) == IF EntryDowngraded(program, v) THEN low(v) ELSE v
<1>1. /\ violations \in Seq(Violation) /\ stage = "entry" /\ stage' = "path" /\ Sorting
      /\ violations' = [i \in DOMAIN violations |-> after(violations[i])]
      /\ UNCHANGED <<args, rule, raised, next, reported, suppressed>>
  BY DEF StagesInv, TypeOK, DowngradeEntry, Sorting
<1>2. ASSUME NEW i \in 1..Len(violations)
      PROVE  /\ after(violations[i]) \in Violation
             /\ SameFinding(after(violations[i]), violations[i])
             /\ after(violations[i]).severity = SeverityNow(raised[i])'
  <2>1. /\ violations[i] \in Violation /\ SameFinding(violations[i], raised[i])
        /\ violations[i].severity = raised[i].severity
    BY <1>1, InPlace DEF SeverityNow
  <2>2. EntryDowngraded(program, violations[i]) <=> EntryDowngraded(program, raised[i])
    BY <2>1 DEF EntryDowngraded, InEntryCoroutine, SameFinding
  <2>3. SeverityNow(raised[i])' = EntrySeverity(raised[i])
    BY <1>1 DEF SeverityNow, EntrySeverity, args
  <2>4. /\ low(violations[i]) \in Violation /\ low(violations[i]).severity = "WARNING"
        /\ SameFinding(low(violations[i]), violations[i])
    BY <2>1 DEF Violation, Severity, SameFinding
  <2>5. SameFinding(violations[i], violations[i])
    BY DEF SameFinding
  <2> HIDE DEF low
  <2> QED BY <2>1, <2>2, <2>3, <2>4, <2>5 DEF EntrySeverity
<1> HIDE DEF low, after
<1>3. violations' \in [1..Len(violations) -> Violation] /\ Len(violations) \in Nat
  BY <1>1, <1>2
<1>4. violations' \in Seq(Violation) /\ Len(violations') = Len(violations)
  BY <1>3, Rewritten
<1> QED BY <1>1, <1>2, <1>4, SeverityStage

LEMMA DowngradePathStages == StagesInv /\ DowngradePath => StagesInv'
<1> SUFFICES ASSUME StagesInv, DowngradePath PROVE StagesInv'
  OBVIOUS
<1> DEFINE low(v)   == [v EXCEPT !.severity = "WARNING"]
           after(v) == IF PathDowngraded(program, downgrade, v) THEN low(v) ELSE v
<1>1. /\ violations \in Seq(Violation) /\ stage = "path" /\ stage' = "config" /\ Sorting
      /\ violations' = [i \in DOMAIN violations |-> after(violations[i])]
      /\ UNCHANGED <<args, rule, raised, next, reported, suppressed>>
  BY DEF StagesInv, TypeOK, DowngradePath, Sorting
<1>2. ASSUME NEW i \in 1..Len(violations)
      PROVE  /\ after(violations[i]) \in Violation
             /\ SameFinding(after(violations[i]), violations[i])
             /\ after(violations[i]).severity = SeverityNow(raised[i])'
  <2>1. /\ violations[i] \in Violation /\ SameFinding(violations[i], raised[i])
        /\ violations[i].severity = EntrySeverity(raised[i])
    BY <1>1, InPlace DEF SeverityNow
  <2>2. PathDowngraded(program, downgrade, violations[i]) <=>
          PathDowngraded(program, downgrade, raised[i]) /\ ~EntryDowngraded(program, raised[i])
    BY <2>1 DEF PathDowngraded, EntrySeverity, SameFinding
  <2>3. SeverityNow(raised[i])' = PathSeverity(raised[i])
    BY <1>1 DEF SeverityNow, PathSeverity, args
  <2>4. /\ low(violations[i]) \in Violation /\ low(violations[i]).severity = "WARNING"
        /\ SameFinding(low(violations[i]), violations[i])
    BY <2>1 DEF Violation, Severity, SameFinding
  <2>5. SameFinding(violations[i], violations[i])
    BY DEF SameFinding
  <2> HIDE DEF low
  <2> QED BY <2>1, <2>2, <2>3, <2>4, <2>5 DEF EntrySeverity, PathSeverity
<1> HIDE DEF low, after
<1>3. violations' \in [1..Len(violations) -> Violation] /\ Len(violations) \in Nat
  BY <1>1, <1>2
<1>4. violations' \in Seq(Violation) /\ Len(violations') = Len(violations)
  BY <1>3, Rewritten
<1> QED BY <1>1, <1>2, <1>4, SeverityStage

LEMMA ApplySeverityStages == StagesInv /\ ApplySeverity => StagesInv'
<1> SUFFICES ASSUME StagesInv, ApplySeverity PROVE StagesInv'
  OBVIOUS
<1> DEFINE set(v) == [v EXCEPT !.severity = config.severity[v.rule_id]]
<1>1. /\ violations \in Seq(Violation) /\ stage = "config" /\ stage' = "sort" /\ Sorting
      /\ violations' = [i \in DOMAIN violations |->
           IF violations[i].rule_id \in DOMAIN config.severity THEN set(violations[i])
                                                               ELSE violations[i]]
      /\ UNCHANGED <<args, rule, raised, next, reported, suppressed>>
  BY DEF StagesInv, TypeOK, ApplySeverity, Sorting
<1>2. ASSUME NEW i \in 1..Len(violations)
      PROVE  /\ violations'[i] \in Violation /\ SameFinding(violations'[i], violations[i])
             /\ violations'[i].severity = SeverityNow(raised[i])'
  <2>1. /\ violations[i] \in Violation /\ SameFinding(violations[i], raised[i])
        /\ violations[i].severity = PathSeverity(raised[i])
        /\ violations[i].rule_id = raised[i].rule_id
    BY <1>1, InPlace DEF SeverityNow, SameFinding
  <2>2. SeverityNow(raised[i])' = FinalSeverity(raised[i])
    BY <1>1 DEF SeverityNow, FinalSeverity, args
  <2>3. ASSUME violations[i].rule_id \in DOMAIN config.severity
        PROVE  /\ set(violations[i]) \in Violation
               /\ SameFinding(set(violations[i]), violations[i])
               /\ set(violations[i]).severity = config.severity[violations[i].rule_id]
    <3>1. config.severity[violations[i].rule_id] \in Severity
      BY <2>3, InputTypes DEF StagesInv
    <3> QED BY <2>1, <3>1 DEF Violation, SameFinding
  <2>4. SameFinding(violations[i], violations[i])
    BY DEF SameFinding
  <2> HIDE DEF set
  <2>5. violations'[i] = IF violations[i].rule_id \in DOMAIN config.severity
                           THEN set(violations[i]) ELSE violations[i]
    BY <1>1
  <2>6. CASE violations[i].rule_id \in DOMAIN config.severity
    <3>1. FinalSeverity(raised[i]) = config.severity[violations[i].rule_id]
      BY <2>1, <2>6 DEF FinalSeverity
    <3> QED BY <2>2, <2>3, <2>5, <2>6, <3>1
  <2>7. CASE violations[i].rule_id \notin DOMAIN config.severity
    <3>1. FinalSeverity(raised[i]) = PathSeverity(raised[i])
      BY <2>1, <2>7 DEF FinalSeverity, PathSeverity
    <3> QED BY <2>1, <2>2, <2>4, <2>5, <2>7, <3>1
  <2> QED BY <2>6, <2>7
<1> HIDE DEF set
<1>3. violations' \in [1..Len(violations) -> Violation] /\ Len(violations) \in Nat
  <2>1. Len(violations) \in Nat /\ DOMAIN violations = 1..Len(violations)
    BY <1>1
  <2>2. \A i \in 1..Len(violations) : violations'[i] \in Violation
    BY <1>2
  <2>3. violations' = [i \in 1..Len(violations) |-> violations'[i]]
    BY <1>1, <2>1
  <2> QED BY <2>1, <2>2, <2>3
<1>4. violations' \in Seq(Violation) /\ Len(violations') = Len(violations)
  BY <1>3, Rewritten
<1> QED BY <1>1, <1>2, <1>4, SeverityStage

-----------------------------------------------------------------------------
\* What a stable sort is: a permutation that keeps equal lines in their order.
LEMMA SortPermutes ==
  ASSUME NEW s, NEW t \in StableSorts(s)
  PROVE  \E p \in Bijection(DOMAIN s, DOMAIN s) :
           /\ \A i, j \in DOMAIN s : i < j => \/ s[p[i]].line < s[p[j]].line
                                              \/ s[p[i]].line = s[p[j]].line /\ p[i] < p[j]
           /\ t = [i \in DOMAIN s |-> s[p[i]]]
<1> DEFINE Stable(q) == \A i, j \in DOMAIN s : i < j => \/ s[q[i]].line < s[q[j]].line
                                                        \/ s[q[i]].line = s[q[j]].line /\ q[i] < q[j]
           Along(q)  == [i \in DOMAIN s |-> s[q[i]]]
<1>1. t \in {Along(p) : p \in {q \in Bijection(DOMAIN s, DOMAIN s) : Stable(q)}}
  BY DEF StableSorts
<1> SUFFICES \E p \in Bijection(DOMAIN s, DOMAIN s) : Stable(p) /\ t = Along(p)
  OBVIOUS
<1> HIDE DEF Stable, Along
<1> QED BY <1>1

\* The sort: a permutation, so that nothing is lost, in the order of Before.
LEMMA SortByLineStages == StagesInv /\ SortByLine => StagesInv'
<1> SUFFICES ASSUME StagesInv, SortByLine PROVE StagesInv'
  OBVIOUS
<1> DEFINE D == DOMAIN violations
<1>1. /\ violations \in Seq(Violation) /\ Len(violations) \in Nat /\ D = 1..Len(violations)
      /\ stage = "sort" /\ stage' = "classify" /\ Sorting
      /\ UNCHANGED <<args, rule, raised, next, reported, suppressed>>
  BY Sizes DEF StagesInv, TypeOK, SortByLine, Sorting
<1>2. PICK p \in Bijection(D, D) :
        /\ \A i, j \in D : i < j => \/ violations[p[i]].line < violations[p[j]].line
                                    \/ violations[p[i]].line = violations[p[j]].line /\ p[i] < p[j]
        /\ violations' = [i \in D |-> violations[p[i]]]
  <2>1. violations' \in StableSorts(violations)
    BY DEF SortByLine
  <2> QED BY <2>1, SortPermutes
<1>3. /\ \A i \in D : p[i] \in D
      /\ \A k \in D : \E i \in D : p[i] = k
  BY DEF Bijection, Injection, Surjection
<1>4. \A i \in D : violations'[i] = violations[p[i]]
  BY <1>2
<1>5. violations' \in Seq(Violation) /\ Len(violations') = Len(violations)
  <2>1. \A i \in D : violations[p[i]] \in Violation
    BY <1>1, <1>3
  <2>2. violations' \in [1..Len(violations) -> Violation]
    BY <1>2, <2>1
  <2> QED BY <1>1, <2>2, Rewritten
<1>6. TypeOK'
  BY <1>1, <1>5 DEF StagesInv, TypeOK, Stages, args
<1>7. \A v : SeverityNow(v)' = SeverityNow(v)
  BY <1>1 DEF SeverityNow, FinalSeverity, args
<1>8. \A i \in D : Genuine(violations[i])'
  <2> SUFFICES ASSUME NEW i \in D PROVE Genuine(violations[i])'
    OBVIOUS
  <2>1. Genuine(violations[p[i]])
    BY <1>1, <1>3 DEF StagesInv, Complete
  <2> QED BY <1>1, <1>4, <1>7, <2>1 DEF Genuine, SameFinding
<1>9. Complete'
  <2>1. \A k \in 1..Len(raised) : \E i \in D : violations'[i].id = k
    <3> SUFFICES ASSUME NEW k \in 1..Len(raised) PROVE \E i \in D : violations'[i].id = k
      OBVIOUS
    <3>1. \E m \in 1..Len(violations) : violations[m].id = k
      BY DEF StagesInv, Complete
    <3>2. PICK m \in D : violations[m].id = k
      BY <1>1, <3>1
    <3> QED BY <1>3, <1>4, <3>2
  <2> QED BY <1>1, <1>5, <1>8, <2>1 DEF StagesInv, Complete
<1>10. Ordered'
  <2>1. \A i \in D : violations[i].id = i
    BY <1>1 DEF StagesInv, Ordered
  <2>2. ASSUME NEW i \in D, NEW j \in D, i < j
        PROVE  Before(violations'[i], violations'[j])
    <3>1. p[i] \in D /\ p[j] \in D
      BY <1>3
    <3>2. violations[p[i]].id = p[i] /\ violations[p[j]].id = p[j]
      BY <2>1, <3>1
    <3>3. violations'[i] = violations[p[i]] /\ violations'[j] = violations[p[j]]
      BY <1>4
    <3>4. \/ violations[p[i]].line < violations[p[j]].line
          \/ violations[p[i]].line = violations[p[j]].line /\ p[i] < p[j]
      BY <1>2, <2>2
    <3> HIDE DEF D
    <3> QED BY <3>2, <3>3, <3>4 DEF Before
  <2> QED BY <1>1, <1>5, <2>2 DEF Ordered, Sorting, Before
<1>11. Placed'
  BY <1>1 DEF StagesInv, Placed, Sorting
<1> QED BY <1>1, <1>6, <1>9, <1>10, <1>11 DEF StagesInv, Numbered, ReportOrder, Unstarted

-----------------------------------------------------------------------------
\* One turn of the last loop.  The finding goes behind those already in its
\* list, which come before it in the sorted one.
LEMMA ClassifyStages == StagesInv /\ Classify => StagesInv'
<1> SUFFICES ASSUME StagesInv, Classify PROVE StagesInv'
  OBVIOUS
<1> DEFINE v == violations[next]
           ignored == v.rule_id \in config.ignore
           entry == [v |-> v, reason |-> IF Hushed(v) THEN "inline" ELSE "config"]
           Entry == [v : Violation, reason : {"inline", "config"}]
<1>1. /\ stage = "classify" /\ next \in 1..Len(violations) /\ next' = next + 1
      /\ UNCHANGED <<args, stage, rule, raised, violations>>
      /\ Len(violations) \in Nat /\ Len(reported) \in Nat /\ Len(suppressed) \in Nat
      /\ v \in Violation
  BY Sizes DEF StagesInv, TypeOK, Classify
<1>2. /\ reported \in Seq(Violation) /\ suppressed \in Seq(Entry)
  BY DEF StagesInv, TypeOK
<1>3. \/ /\ Hushed(v) \/ ignored
         /\ suppressed' = Append(suppressed, entry) /\ reported' = reported
      \/ ~Hushed(v) /\ reported' = Append(reported, v) /\ suppressed' = suppressed
  BY DEF Classify, Hushed
<1>4. entry \in Entry /\ entry.v = v /\ (entry.reason = "inline" <=> Hushed(v))
  BY <1>1
<1> HIDE DEF v, ignored, entry, Entry
<1>5. TypeOK'
  <2>1. Append(reported, v) \in Seq(Violation) /\ Append(suppressed, entry) \in Seq(Entry)
    BY <1>1, <1>2, <1>4
  <2>2. reported' \in Seq(Violation) /\ suppressed' \in Seq(Entry)
    BY <1>2, <1>3, <2>1
  <2>3. next' \in 1..(Len(violations') + 1)
    BY <1>1
  <2> QED BY <1>1, <2>2, <2>3 DEF StagesInv, TypeOK, args, Entry
<1>6. (\A w : SeverityNow(w)' = SeverityNow(w)) /\ (\A w : Hushed(w)' = Hushed(w))
  BY <1>1 DEF SeverityNow, FinalSeverity, Hushed, args
<1>7. Numbered' /\ Complete' /\ Unstarted'
  BY <1>1, <1>6 DEF StagesInv, Numbered, Complete, Genuine, SameFinding, Unstarted
<1>8. ~Sorting' /\ stage' # "done" /\ ~Sorting
  BY <1>1 DEF Sorting
<1>9. Ordered'
  BY <1>1, <1>8 DEF StagesInv, Ordered, Before
<1>10. Placed' /\ ReportOrder'
  <2>1. CASE ~Hushed(v) /\ reported' = Append(reported, v) /\ suppressed' = suppressed
    <3>1. /\ Len(reported') = Len(reported) + 1 /\ reported'[Len(reported) + 1] = v
          /\ \A i \in 1..Len(reported) : reported'[i] = reported[i]
      BY <1>1, <1>2, <2>1
    <3>2. Reported' = Reported \cup {v} /\ Suppressed' = Suppressed
      BY <1>1, <2>1, <3>1 DEF Reported, Suppressed
    <3>3. \A i \in 1..(next' - 1) : violations'[i] \in Reported' \cup Suppressed'
      BY <1>1, <3>2 DEF StagesInv, Placed, v
    <3>4. \A i \in 1..Len(reported') :
            /\ \E k \in 1..(next' - 1) : reported'[i] = violations'[k]
            /\ ~Hushed(reported'[i])
      BY <1>1, <2>1, <3>1 DEF StagesInv, Placed, v
    <3>5. \A i \in 1..Len(suppressed') :
            /\ \E k \in 1..(next' - 1) : suppressed'[i].v = violations'[k]
            /\ suppressed'[i].reason = "inline" <=> Hushed(suppressed'[i].v)
      BY <1>1, <2>1 DEF StagesInv, Placed
    <3>6. Placed'
      <4>1. Len(reported') + Len(suppressed') = next' - 1
        BY <1>1, <2>1, <3>1 DEF StagesInv, Placed
      <4> QED BY <1>6, <1>8, <3>3, <3>4, <3>5, <4>1 DEF Placed
    <3>7. ReportOrder'
      <4> SUFFICES ASSUME NEW i \in 1..Len(reported'), NEW j \in 1..Len(reported'), i < j
                   PROVE  Before(reported'[i], reported'[j])
        BY DEF ReportOrder, Before
      <4>1. CASE j = Len(reported) + 1
        <5>1. PICK k \in 1..(next - 1) : reported[i] = violations[k]
          BY <1>1, <3>1, <4>1 DEF StagesInv, Placed
        <5>2. Before(violations[k], v)
          BY <1>1, <1>8 DEF StagesInv, Ordered, v
        <5> QED BY <1>1, <3>1, <4>1, <5>1, <5>2
      <4>2. CASE j # Len(reported) + 1
        BY <1>1, <3>1, <4>2 DEF StagesInv, ReportOrder, Before
      <4> QED BY <4>1, <4>2
    <3> QED BY <3>6, <3>7
  <2>2. CASE suppressed' = Append(suppressed, entry) /\ reported' = reported
    <3>1. /\ Len(suppressed') = Len(suppressed) + 1 /\ suppressed'[Len(suppressed) + 1] = entry
          /\ \A i \in 1..Len(suppressed) : suppressed'[i] = suppressed[i]
      BY <1>1, <1>2, <1>4, <2>2
    <3>2. Suppressed' = Suppressed \cup {v} /\ Reported' = Reported
      BY <1>1, <1>4, <2>2, <3>1 DEF Reported, Suppressed
    <3>3. \A i \in 1..(next' - 1) : violations'[i] \in Reported' \cup Suppressed'
      BY <1>1, <3>2 DEF StagesInv, Placed, v
    <3>4. \A i \in 1..Len(reported') :
            /\ \E k \in 1..(next' - 1) : reported'[i] = violations'[k]
            /\ ~Hushed(reported'[i])
      BY <1>1, <2>2 DEF StagesInv, Placed
    <3>5. \A i \in 1..Len(suppressed') :
            /\ \E k \in 1..(next' - 1) : suppressed'[i].v = violations'[k]
            /\ suppressed'[i].reason = "inline" <=> Hushed(suppressed'[i].v)
      <4>1. \E k \in 1..(next' - 1) : v = violations'[k]
        BY <1>1 DEF v
      <4>2. \A i \in 1..Len(suppressed) :
              /\ \E k \in 1..(next' - 1) : suppressed[i].v = violations'[k]
              /\ suppressed[i].reason = "inline" <=> Hushed(suppressed[i].v)
        BY <1>1 DEF StagesInv, Placed
      <4>3. \A i \in 1..Len(suppressed') : i \in 1..Len(suppressed) \/ suppressed'[i] = entry
        BY <1>1, <3>1
      <4>4. \A i \in 1..Len(suppressed) : suppressed'[i] = suppressed[i]
        BY <3>1
      <4> QED BY <1>4, <4>1, <4>2, <4>3, <4>4
    <3>6. Len(reported') + Len(suppressed') = next' - 1
      <4>1. Len(reported) + Len(suppressed) = next - 1 /\ Len(reported') = Len(reported)
        BY <2>2 DEF StagesInv, Placed
      <4> QED BY <1>1, <3>1, <4>1
    <3>7. ReportOrder'
      BY <2>2 DEF StagesInv, ReportOrder
    <3> QED BY <1>6, <1>8, <3>3, <3>4, <3>5, <3>6, <3>7 DEF Placed
  <2> QED BY <1>3, <2>1, <2>2
<1> QED BY <1>5, <1>7, <1>9, <1>10 DEF StagesInv

LEMMA ReturnStages == StagesInv /\ Return => StagesInv'
<1> SUFFICES ASSUME StagesInv, Return PROVE StagesInv'
  OBVIOUS
<1>1. /\ stage = "classify" /\ stage' = "done" /\ next > Len(violations)
      /\ UNCHANGED <<args, rule, raised, violations, next, reported, suppressed>>
  BY DEF Return
<1>2. next = Len(violations) + 1
  BY <1>1, Sizes DEF StagesInv, TypeOK
<1>3. TypeOK'
  BY <1>1 DEF StagesInv, TypeOK, Stages, args
<1>4. \A w : SeverityNow(w)' = SeverityNow(w)
  BY <1>1 DEF SeverityNow, FinalSeverity, args
<1>5. Numbered' /\ Complete' /\ Unstarted' /\ ReportOrder'
  BY <1>1, <1>4 DEF StagesInv, Numbered, Complete, Genuine, SameFinding, Unstarted, ReportOrder
<1>6. ~Sorting' /\ ~Sorting
  BY <1>1 DEF Sorting
<1>7. Ordered'
  BY <1>1, <1>6 DEF StagesInv, Ordered, Before
<1>8. Placed'
  BY <1>1, <1>2, <1>6 DEF StagesInv, Placed, Reported, Suppressed, Hushed, args
<1> QED BY <1>3, <1>5, <1>7, <1>8 DEF StagesInv

LEMMA StutterStages == StagesInv /\ UNCHANGED vars => StagesInv'
<1> SUFFICES ASSUME StagesInv, UNCHANGED vars PROVE StagesInv'
  OBVIOUS
<1>1. UNCHANGED <<args, stage, rule, raised, violations, next, reported, suppressed>>
  BY DEF vars, args
<1>2. TypeOK'
  BY <1>1 DEF StagesInv, TypeOK, args
<1>3. \A w : SeverityNow(w)' = SeverityNow(w)
  BY <1>1 DEF SeverityNow, EntrySeverity, PathSeverity, FinalSeverity, args
<1>4. Numbered' /\ Complete' /\ Unstarted' /\ ReportOrder'
  BY <1>1, <1>3 DEF StagesInv, Numbered, Complete, Genuine, SameFinding, Unstarted, ReportOrder
<1>5. Ordered'
  BY <1>1 DEF StagesInv, Ordered, Before, Sorting
<1>6. Placed'
  BY <1>1 DEF StagesInv, Placed, Sorting, Reported, Suppressed, Hushed, args
<1> QED BY <1>2, <1>4, <1>5, <1>6 DEF StagesInv

LEMMA NextStages == StagesInv /\ [Next]_vars => StagesInv'
<1> SUFFICES ASSUME StagesInv, [Next]_vars PROVE StagesInv'
  OBVIOUS
<1>1. CASE ParseFails
  BY <1>1, ParseFailsStages
<1>2. CASE ParseSucceeds
  BY <1>2, ParseSucceedsStages
<1>3. CASE Raise
  BY <1>3, RaiseStages
<1>4. CASE NextRule
  BY <1>4, NextRuleStages
<1>5. CASE DowngradeEntry
  BY <1>5, DowngradeEntryStages
<1>6. CASE DowngradePath
  BY <1>6, DowngradePathStages
<1>7. CASE ApplySeverity
  BY <1>7, ApplySeverityStages
<1>8. CASE SortByLine
  BY <1>8, SortByLineStages
<1>9. CASE Classify
  BY <1>9, ClassifyStages
<1>10. CASE Return
  BY <1>10, ReturnStages
<1>11. CASE UNCHANGED vars
  BY <1>11, StutterStages
<1> QED BY <1>1, <1>2, <1>3, <1>4, <1>5, <1>6, <1>7, <1>8, <1>9, <1>10, <1>11 DEF Next

\* What has been classified is part of the list, and genuine.
LEMMA ClassifiedIsGenuine ==
  ASSUME StagesInv, NEW v \in Reported \cup Suppressed
  PROVE  Genuine(v) /\ ~Sorting
<1>1. \A i \in 1..Len(violations) : Genuine(violations[i])
  BY DEF StagesInv, Complete
<1>2. next - 1 \in 0..Len(violations) /\ Len(violations) \in Nat
  BY Sizes DEF StagesInv, TypeOK
<1>3. \E k \in 1..(next - 1) : v = violations[k]
  <2>1. CASE v \in Reported
    <3>1. PICK i \in 1..Len(reported) : v = reported[i]
      BY <2>1 DEF Reported
    <3> QED BY <3>1 DEF StagesInv, Placed
  <2>2. CASE v \in Suppressed
    <3>1. PICK i \in 1..Len(suppressed) : v = suppressed[i].v
      BY <2>2 DEF Suppressed
    <3> QED BY <3>1 DEF StagesInv, Placed
  <2> QED BY <2>1, <2>2
<1>4. Sorting => next = 1
  BY DEF StagesInv, Placed
<1> QED BY <1>1, <1>2, <1>3, <1>4

LEMMA InvNeverSilences == StagesInv => NeverSilenced
<1> SUFFICES ASSUME StagesInv PROVE NeverSilenced
  OBVIOUS
<1>1. /\ Len(violations) \in Nat /\ Len(raised) \in Nat /\ Len(violations) = Len(raised)
      /\ next \in 1..(Len(violations) + 1) /\ Len(reported) \in Nat /\ Len(suppressed) \in Nat
  BY Sizes DEF StagesInv, TypeOK, Complete
<1>2. ASSUME NEW i \in 1..Len(raised)
      PROVE  \E v \in Pending \cup Reported \cup Suppressed : SameFinding(v, raised[i])
  <2>1. PICK m \in 1..Len(violations) : violations[m].id = i
    BY DEF StagesInv, Complete
  <2>2. SameFinding(violations[m], raised[i])
    BY <2>1 DEF StagesInv, Complete, Genuine
  <2>3. CASE m < next
    BY <1>1, <2>2, <2>3 DEF StagesInv, Placed
  <2>4. CASE ~(m < next)
    <3>1. m \in next..Len(violations)
      BY <1>1, <2>4
    <3> QED BY <2>2, <3>1 DEF Pending
  <2> QED BY <2>3, <2>4
<1>3. ASSUME NEW v \in Pending \cup Reported \cup Suppressed
      PROVE  v.id \in 1..Len(raised) /\ SameFinding(v, raised[v.id])
  <2>1. CASE v \in Pending
    <3>1. PICK i \in next..Len(violations) : v = violations[i]
      BY <2>1 DEF Pending
    <3>2. i \in 1..Len(violations)
      BY <1>1
    <3> QED BY <3>1, <3>2 DEF StagesInv, Complete, Genuine
  <2>2. CASE v \in Reported \cup Suppressed
    BY <2>2, ClassifiedIsGenuine DEF Genuine
  <2> QED BY <2>1, <2>2
<1>4. (Len(violations) - next + 1) + Len(reported) + Len(suppressed) = Len(raised)
  <2>1. Len(reported) + Len(suppressed) = next - 1
    BY DEF StagesInv, Placed
  <2> QED BY <1>1, <2>1
<1> QED BY <1>2, <1>3, <1>4 DEF NeverSilenced

LEMMA InvHasPrecedence == StagesInv => SeverityPrecedence
<1> SUFFICES ASSUME StagesInv, NEW v \in Reported \cup Suppressed
             PROVE  v.severity = FinalSeverity(raised[v.id])
  BY DEF SeverityPrecedence
<1>1. Genuine(v) /\ stage \in {"classify", "done"}
  BY ClassifiedIsGenuine DEF Sorting
<1> QED BY <1>1 DEF Genuine, SeverityNow

\* The pipeline keeps its types, whatever the visitors raise.
THEOREM PipelineTypes == Spec => []TypeOK
<1>1. StagesInv => TypeOK
  BY DEF StagesInv
<1> QED BY <1>1, InitStages, NextStages, PTL DEF Spec

\* "Rebaja, never silence": no stage loses a finding or turns it into another.
THEOREM NothingIsSilenced == Spec => []NeverSilenced
BY InitStages, NextStages, InvNeverSilences, PTL DEF Spec

\* The configured severity wins, then the downgrades, then the rule's own.
THEOREM SeverityIsAsPromised == Spec => []SeverityPrecedence
BY InitStages, NextStages, InvHasPrecedence, PTL DEF Spec

\* The report is in line order, and in the order of the rules on a line.
THEOREM ReportIsOrdered == Spec => []ReportOrder
<1>1. StagesInv => ReportOrder
  BY DEF StagesInv
<1> QED BY <1>1, InitStages, NextStages, PTL DEF Spec

-----------------------------------------------------------------------------
(***************************************************************************)
(* The audit                                                               *)
(***************************************************************************)
\* The records are made once, from the finished analysis.
RecordsInv ==
  /\ policy \in Policies
  /\ exit \in {"scan", "running", "audited", "exit 0", "exit 1"}
  /\ ~Audited => records = {}
  /\ Audited => stage = "done" /\ records = RecordsOf(program.lines)
  /\ exit = "exit 0" => ~Failed

AuditInv == StagesInv /\ RecordsInv

LEMMA InitAudit == AuditInit => AuditInv
<1> SUFFICES ASSUME AuditInit PROVE AuditInv
  OBVIOUS
<1>1. StagesInv
  BY InitStages DEF AuditInit
<1>2. (CHOOSE p \in Policies : TRUE) \in Policies
  BY AuditAssumption
<1>3. policy \in Policies /\ exit \in {"scan", "running"} /\ records = {}
  BY <1>2 DEF AuditInit
<1> QED BY <1>1, <1>3 DEF AuditInv, RecordsInv, Audited

\* The analysis is over when its records are made, and does not go on after that.
LEMMA DoneIsDone == Next => stage # "done"
BY DEF Next, ParseFails, ParseSucceeds, Raise, NextRule, DowngradeEntry, DowngradePath,
       ApplySeverity, SortByLine, Classify, Return

LEMMA NextAudit == AuditInv /\ [AuditNext]_allVars => AuditInv'
<1> SUFFICES ASSUME AuditInv, [AuditNext]_allVars PROVE AuditInv'
  OBVIOUS
<1>1. CASE Analyze
  <2>1. stage # "done" /\ UNCHANGED <<policy, records, exit>>
    BY <1>1, DoneIsDone DEF Analyze, auditVars
  <2>2. RecordsInv'
    BY <2>1 DEF AuditInv, RecordsInv, Audited
  <2> QED BY <1>1, <2>2, NextStages DEF Analyze, AuditInv
<1>2. CASE BuildRecords
  <2>1. /\ stage = "done" /\ exit = "running" /\ exit' = "audited" /\ UNCHANGED <<vars, policy>>
        /\ records' = RecordsOf(program.lines)
    BY <1>2 DEF BuildRecords
  <2>2. program' = program /\ stage' = stage /\ suppressed' = suppressed
    BY <2>1 DEF vars
  <2>3. RecordsOf(program.lines)' = RecordsOf(program.lines)
    BY <2>2 DEF RecordsOf, UsedKeys
  <2>4. RecordsInv'
    BY <2>1, <2>2, <2>3 DEF AuditInv, RecordsInv, Audited
  <2> QED BY <2>1, <2>4, NextStages DEF AuditInv
<1>3. CASE Exit
  <2>1. /\ exit = "audited" /\ exit' = IF Failed THEN "exit 1" ELSE "exit 0"
        /\ UNCHANGED <<vars, policy, records>>
    BY <1>3 DEF Exit
  <2>2. program' = program /\ stage' = stage /\ suppressed' = suppressed
    BY <2>1 DEF vars
  <2>3. RecordsOf(program.lines)' = RecordsOf(program.lines)
    BY <2>2 DEF RecordsOf, UsedKeys
  <2>4. Failed' = Failed
    BY <2>1 DEF Failed, Unused, Unjustified
  <2>5. RecordsInv'
    BY <2>1, <2>2, <2>3, <2>4 DEF AuditInv, RecordsInv, Audited
  <2> QED BY <2>1, <2>5, NextStages DEF AuditInv
<1>4. CASE UNCHANGED allVars
  <2>1. UNCHANGED <<vars, policy, records, exit>>
    BY <1>4 DEF allVars, auditVars
  <2>2. program' = program /\ stage' = stage /\ suppressed' = suppressed
    BY <2>1 DEF vars
  <2>3. RecordsOf(program.lines)' = RecordsOf(program.lines)
    BY <2>2 DEF RecordsOf, UsedKeys
  <2>4. Failed' = Failed
    BY <2>1 DEF Failed, Unused, Unjustified
  <2>5. RecordsInv'
    BY <2>1, <2>2, <2>3, <2>4 DEF AuditInv, RecordsInv, Audited
  <2> QED BY <2>1, <2>5, NextStages DEF AuditInv
<1> QED BY <1>1, <1>2, <1>3, <1>4 DEF AuditNext

-----------------------------------------------------------------------------
\* A record stands for a rule id of a directive of the file.
LEMMA RecordOfDirective ==
  ASSUME AuditInv, Audited, NEW r \in records
  PROVE  \E k \in 1..Len(program.lines) :
           /\ IsDirective(program.lines[k]) /\ r.rule_id \in RuleIds(program.lines[k])
           /\ r.comment_line = k /\ r.target_line = TargetLine(program.lines[k], k)
           /\ r.justified = Justified(program.lines[k])
           /\ r.used <=> <<r.target_line, r.rule_id>> \in UsedKeys
<1>1. r \in RecordsOf(program.lines)
  BY DEF AuditInv, RecordsInv
<1>2. PICK p \in (1..Len(program.lines)) \X Rule :
        /\ IsDirective(program.lines[p[1]]) /\ p[2] \in RuleIds(program.lines[p[1]])
        /\ r = [comment_line |-> DirectiveOf(program.lines[p[1]], p[1]).comment_line,
                target_line |-> DirectiveOf(program.lines[p[1]], p[1]).target_line,
                rule_id |-> p[2],
                justified |-> DirectiveOf(program.lines[p[1]], p[1]).justified,
                used |-> <<DirectiveOf(program.lines[p[1]], p[1]).target_line, p[2]>> \in UsedKeys]
  BY <1>1 DEF RecordsOf
<1>3. p[1] \in 1..Len(program.lines)
  BY <1>2
<1> QED BY <1>2, <1>3 DEF DirectiveOf

LEMMA LinesType == AuditInv => program.lines \in Seq(Line) /\ Len(program.lines) \in Nat
BY InputTypes DEF AuditInv, StagesInv, Program

LEMMA InvTypes == AuditInv => AuditTypeOK
<1> SUFFICES ASSUME AuditInv PROVE AuditTypeOK
  OBVIOUS
<1>1. records \subseteq Record
  <2> SUFFICES ASSUME NEW r \in records PROVE r \in Record
    OBVIOUS
  <2>1. Audited
    BY DEF AuditInv, RecordsInv
  <2>2. r \in RecordsOf(program.lines)
    BY <2>1 DEF AuditInv, RecordsInv
  <2>3. PICK p \in (1..Len(program.lines)) \X Rule :
        /\ IsDirective(program.lines[p[1]])
        /\ r = [comment_line |-> DirectiveOf(program.lines[p[1]], p[1]).comment_line,
                target_line |-> DirectiveOf(program.lines[p[1]], p[1]).target_line,
                rule_id |-> p[2],
                justified |-> DirectiveOf(program.lines[p[1]], p[1]).justified,
                used |-> <<DirectiveOf(program.lines[p[1]], p[1]).target_line, p[2]>> \in UsedKeys]
    BY <2>2 DEF RecordsOf
  <2>4. p[1] \in Nat /\ p[2] \in Rule /\ program.lines[p[1]] \in Line
    BY <2>3, LinesType
  <2>5. DirectiveOf(program.lines[p[1]], p[1]) \in SuppressionDirective
    BY <2>3, <2>4, DirectiveType
  <2> QED BY <2>3, <2>4, <2>5 DEF Record, SuppressionDirective
<1> QED BY <1>1 DEF AuditInv, StagesInv, RecordsInv, AuditTypeOK

\* A comment is used when it hides a finding of its rule on its target line: each
\* finding there was hidden by a comment, and nothing else was.
LEMMA InvOrphans == AuditInv => OrphanMeansNoFinding
<1> SUFFICES ASSUME AuditInv, Audited, NEW r \in records
             PROVE  r.used <=> \E i \in 1..Len(raised) : /\ raised[i].rule_id = r.rule_id
                                                         /\ raised[i].line = r.target_line
  BY DEF OrphanMeansNoFinding
<1>1. PICK k \in 1..Len(program.lines) :
        /\ IsDirective(program.lines[k]) /\ r.rule_id \in RuleIds(program.lines[k])
        /\ r.target_line = TargetLine(program.lines[k], k)
        /\ r.used <=> <<r.target_line, r.rule_id>> \in UsedKeys
  BY RecordOfDirective
<1>2. r.rule_id \in InlineSuppressions(program.lines, r.target_line)
  BY <1>1, LinesType, NamedIsSuppressed
<1>3. r.used <=> \E i \in 1..Len(suppressed) : /\ suppressed[i].reason = "inline"
                                               /\ suppressed[i].v.line = r.target_line
                                               /\ suppressed[i].v.rule_id = r.rule_id
  BY <1>1 DEF UsedKeys
<1>4. StagesInv /\ stage = "done" /\ next = Len(violations) + 1 /\ Len(violations) \in Nat
  BY Sizes DEF AuditInv, RecordsInv, StagesInv, Placed
<1>5. ASSUME NEW i \in 1..Len(suppressed), suppressed[i].v.line = r.target_line,
             suppressed[i].v.rule_id = r.rule_id
      PROVE  \E j \in 1..Len(raised) : raised[j].rule_id = r.rule_id /\ raised[j].line = r.target_line
  <2>1. Genuine(suppressed[i].v)
    BY <1>4, ClassifiedIsGenuine DEF Suppressed
  <2> QED BY <1>5, <2>1 DEF Genuine, SameFinding
<1>6. ASSUME NEW i \in 1..Len(raised), raised[i].rule_id = r.rule_id, raised[i].line = r.target_line
      PROVE  \E j \in 1..Len(suppressed) : /\ suppressed[j].reason = "inline"
                                           /\ suppressed[j].v.line = r.target_line
                                           /\ suppressed[j].v.rule_id = r.rule_id
  <2>1. PICK m \in 1..Len(violations) : violations[m].id = i
    BY <1>4 DEF StagesInv, Complete
  <2>2. violations[m].rule_id = r.rule_id /\ violations[m].line = r.target_line
    BY <1>4, <1>6, <2>1 DEF StagesInv, Complete, Genuine, SameFinding
  <2>3. Hushed(violations[m])
    BY <1>2, <2>2 DEF Hushed
  <2>4. violations[m] \in Reported \cup Suppressed
    BY <1>4 DEF StagesInv, Placed
  <2>5. violations[m] \notin Reported
    BY <1>4, <2>3 DEF StagesInv, Placed, Reported
  <2>6. PICK j \in 1..Len(suppressed) : suppressed[j].v = violations[m]
    BY <2>4, <2>5 DEF Suppressed
  <2>7. suppressed[j].reason = "inline"
    BY <1>4, <2>3, <2>6 DEF StagesInv, Placed
  <2> QED BY <2>2, <2>6, <2>7
<1> QED BY <1>3, <1>5, <1>6

-----------------------------------------------------------------------------
\* A keyword with none before it is the one re.search finds.
LEMMA FirstIsMatchStart ==
  ASSUME NEW ln, Len(ln.text) \in Nat, NEW m \in 1..Len(ln.text), ln.text[m] \in Keyword,
         \A j \in 1..(m - 1) : ln.text[j] \notin Keyword
  PROVE  MatchStart(ln) = m
<1> DEFINE First(i) == ln.text[i] \in Keyword /\ \A j \in 1..(i - 1) : ln.text[j] \notin Keyword
<1>1. \A i \in 1..Len(ln.text) : First(i) => i = m
  OBVIOUS
<1>2. First(m)
  OBVIOUS
<1>3. MatchStart(ln) = CHOOSE i \in 1..Len(ln.text) : First(i)
  BY DEF MatchStart
<1> HIDE DEF First
<1> QED BY <1>1, <1>2, <1>3

LEMMA NoneBefore ==
  ASSUME NEW ln \in Line, Matches(ln)
  PROVE  \A j \in 1..(MatchStart(ln) - 1) : ln.text[j] \notin Keyword
<1>1. ln.text \in Seq(Token) /\ Len(ln.text) \in Nat
  BY DEF Line
<1> DEFINE T == {i \in 1..Len(ln.text) : ln.text[i] \in Keyword}
<1>2. T \in SUBSET Nat /\ T # {}
  BY <1>1 DEF Matches
<1> HIDE DEF T
<1>3. PICK m \in T : \A k \in T : m <= k
  BY <1>2, LeastElement
<1>4. \A j \in 1..(m - 1) : ln.text[j] \notin Keyword
  BY <1>1, <1>2, <1>3 DEF T
<1>5. m \in 1..Len(ln.text) /\ ln.text[m] \in Keyword
  BY <1>3 DEF T
<1>6. MatchStart(ln) = m
  BY <1>1, <1>4, <1>5, FirstIsMatchStart
<1> QED BY <1>4, <1>6

\* Striking ids out of the rule part of a directive changes where it starts, where
\* it aims and what else it names as little as it seems.
LEMMA StrikingOut ==
  ASSUME NEW ln \in Line, Matches(ln), NEW gone \in SUBSET Rule, NEW new,
         new.code = ln.code, Len(new.text) = Len(ln.text),
         \A i \in 1..Len(ln.text) :
           new.text[i] = IF InRulePart(ln, i) /\ ln.text[i] \in gone THEN Prose ELSE ln.text[i]
  PROVE  /\ Matches(new) /\ MatchStart(new) = MatchStart(ln)
         /\ new.text[MatchStart(new)] = ln.text[MatchStart(ln)]
         /\ IsStandalone(new) <=> IsStandalone(ln)
         /\ RuleIds(new) = RuleIds(ln) \ gone
<1> DEFINE m == MatchStart(ln)
<1>1. /\ ln.text \in Seq(Token) /\ Len(ln.text) \in Nat /\ DOMAIN ln.text = 1..Len(ln.text)
      /\ m \in 1..Len(ln.text) /\ ln.text[m] \in Keyword
  BY FirstMatch DEF Line
<1>5. \A j \in 1..(m - 1) : ln.text[j] \notin Keyword
  BY NoneBefore
<1>12. \A i \in 1..Len(ln.text) : InRulePart(ln, i) => i > m
  BY DEF InRulePart
<1>13. MatchStart(ln) = m
  OBVIOUS
<1> HIDE DEF m
<1>4. \A i \in 1..m : new.text[i] = ln.text[i]
  BY <1>1, <1>12
<1>6. MatchStart(new) = m
  <2>1. new.text[m] \in Keyword /\ \A j \in 1..(m - 1) : new.text[j] \notin Keyword
    BY <1>1, <1>4, <1>5
  <2> QED BY <1>1, <2>1, FirstIsMatchStart
<1>7. \A j \in 1..Len(ln.text) : new.text[j] = Dashes <=> ln.text[j] = Dashes
  BY RuleAssumption DEF Dashes, Prose
<1>8. \A i \in 1..Len(ln.text) : InRulePart(new, i) <=> InRulePart(ln, i)
  BY <1>1, <1>6, <1>7, <1>13 DEF InRulePart
<1>9. RuleIds(new) = RuleIds(ln) \ gone
  <2>1. ASSUME NEW t PROVE t \in RuleIds(new) <=>
          t \in Rule /\ \E i \in 1..Len(ln.text) : InRulePart(ln, i) /\ new.text[i] = t
    BY <1>8 DEF RuleIds
  <2>2. ASSUME NEW t PROVE t \in RuleIds(ln) <=>
          t \in Rule /\ \E i \in 1..Len(ln.text) : InRulePart(ln, i) /\ ln.text[i] = t
    BY DEF RuleIds
  <2>3. Prose \notin Rule
    BY RuleAssumption
  <2>4. ASSUME NEW t \in Rule, NEW i \in 1..Len(ln.text), InRulePart(ln, i)
        PROVE  new.text[i] = t <=> ln.text[i] = t /\ t \notin gone
    <3>1. new.text[i] = IF ln.text[i] \in gone THEN Prose ELSE ln.text[i]
      BY <2>4
    <3> QED BY <2>3, <3>1
  <2> QED BY <2>1, <2>2, <2>4
<1>10. IsStandalone(new) <=> IsStandalone(ln)
  BY <1>6, <1>13 DEF IsStandalone
<1>11. Matches(new)
  BY <1>1, <1>4 DEF Matches
<1> QED BY <1>1, <1>4, <1>6, <1>9, <1>10, <1>11, <1>13

\* The rule ids struck out of line n.
Gone(n) == {r.rule_id : r \in {q \in Unused : q.comment_line = n}}

LEMMA CleanedLine ==
  ASSUME AuditInv, Audited, NEW n \in 1..Len(program.lines)
  PROVE  /\ DOMAIN Cleaned = 1..Len(program.lines) /\ Len(Cleaned) = Len(program.lines)
         /\ ~IsDirective(program.lines[n]) => Cleaned[n] = program.lines[n]
         /\ IsDirective(program.lines[n]) =>
              /\ RuleIds(Cleaned[n]) = RuleIds(program.lines[n]) \ Gone(n)
              /\ AimsAtItself(Cleaned[n]) <=>
                   AimsAtItself(program.lines[n]) /\ RuleIds(Cleaned[n]) # {}
              /\ AimsBelow(Cleaned[n]) <=>
                   AimsBelow(program.lines[n]) /\ RuleIds(Cleaned[n]) # {}
<1> DEFINE lines == program.lines
           ln == lines[n]
<1>1. lines \in Seq(Line) /\ Len(lines) \in Nat /\ DOMAIN lines = 1..Len(lines) /\ ln \in Line
  BY LinesType
<1>2. Gone(n) \subseteq Rule
  BY InvTypes DEF Gone, Unused, AuditTypeOK, Record
<1>3. Cleaned[n] = [ln EXCEPT !.text = [i \in DOMAIN @ |->
                      IF InRulePart(ln, i) /\ @[i] \in Gone(n) THEN Prose ELSE @[i]]]
  <2>1. \A i : Orphaned(n, i) <=> InRulePart(ln, i) /\ ln.text[i] \in Gone(n)
    BY DEF Orphaned, Gone
  <2>2. Cleaned[n] = [ln EXCEPT !.text = [i \in DOMAIN @ |-> IF Orphaned(n, i) THEN Prose ELSE @[i]]]
    BY <1>1 DEF Cleaned
  <2> QED BY <2>1, <2>2
<1>4. DOMAIN Cleaned = 1..Len(lines) /\ Len(Cleaned) = Len(lines)
  <2>1. DOMAIN Cleaned = 1..Len(lines)
    BY <1>1 DEF Cleaned
  <2> QED BY <1>1, <2>1
<1>5. ASSUME ~IsDirective(ln) PROVE Cleaned[n] = ln
  <2>1. Gone(n) = {}
    BY <1>5, RecordOfDirective DEF Gone, Unused
  <2>2. Cleaned[n] = [ln EXCEPT !.text = [i \in DOMAIN @ |-> @[i]]]
    BY <1>3, <2>1
  <2> HIDE DEF ln, lines
  <2>3. ln.text \in Seq(Token) /\ ln = [code |-> ln.code, text |-> ln.text, newline |-> ln.newline]
    BY <1>1 DEF Line
  <2>4. [i \in DOMAIN ln.text |-> ln.text[i]] = ln.text
    BY <2>3
  <2>5. Cleaned[n] = [ln EXCEPT !.text = ln.text]
    BY <2>2, <2>4
  <2> QED BY <2>3, <2>5
<1>6. ASSUME IsDirective(ln)
      PROVE  /\ Matches(Cleaned[n])
             /\ Cleaned[n].text[MatchStart(Cleaned[n])] = ln.text[MatchStart(ln)]
             /\ IsStandalone(Cleaned[n]) <=> IsStandalone(ln)
             /\ RuleIds(Cleaned[n]) = RuleIds(ln) \ Gone(n)
  <2> DEFINE c == Cleaned[n]
             g == Gone(n)
  <2>1. g \in SUBSET Rule /\ Matches(ln)
    BY <1>2, <1>6 DEF IsDirective
  <2>2. c = [ln EXCEPT !.text = [i \in DOMAIN @ |-> IF InRulePart(ln, i) /\ @[i] \in g THEN Prose ELSE @[i]]]
    BY <1>3
  <2>3. /\ c.code = ln.code /\ Len(c.text) = Len(ln.text)
        /\ \A i \in 1..Len(ln.text) :
             c.text[i] = IF InRulePart(ln, i) /\ ln.text[i] \in g THEN Prose ELSE ln.text[i]
    <3> HIDE DEF c, g, ln
    <3>1. ln \in [code : BOOLEAN, text : Seq(Token), newline : BOOLEAN] /\ DOMAIN ln.text = 1..Len(ln.text) /\ Len(ln.text) \in Nat
      BY <1>1 DEF Line
    <3>2. c.text = [i \in DOMAIN ln.text |-> IF InRulePart(ln, i) /\ ln.text[i] \in g THEN Prose ELSE ln.text[i]]
      BY <2>2, <3>1
    <3>3. c.code = ln.code
      BY <2>2, <3>1
    <3>4. Len(c.text) = Len(ln.text)
      BY <3>1, <3>2
    <3> QED BY <3>1, <3>2, <3>3, <3>4
  <2> SUFFICES /\ Matches(c) /\ c.text[MatchStart(c)] = ln.text[MatchStart(ln)]
               /\ IsStandalone(c) <=> IsStandalone(ln)
               /\ RuleIds(c) = RuleIds(ln) \ g
    OBVIOUS
  <2> HIDE DEF c, g, ln
  <2> QED BY <1>1, <2>1, <2>3, StrikingOut
<1> QED BY <1>4, <1>5, <1>6 DEF IsDirective, AimsAtItself, AimsBelow

\* An id that hides a finding is no orphan, so it is not struck out, and its comment
\* still aims at the finding.
LEMMA InvInert == AuditInv => OrphansAreInert
<1> SUFFICES ASSUME AuditInv, Audited, NEW i \in 1..Len(raised)
             PROVE  raised[i].rule_id \in InlineSuppressions(program.lines, raised[i].line)
                      <=> raised[i].rule_id \in InlineSuppressions(Cleaned, raised[i].line)
  BY DEF OrphansAreInert
<1> DEFINE lines == program.lines
           rid == raised[i].rule_id
           at == raised[i].line
<1>1. lines \in Seq(Line) /\ Len(lines) \in Nat
  BY LinesType
<1>2. rid \in Rule /\ at \in Nat
  BY Sizes DEF AuditInv, StagesInv, Violation
<1>3. ASSUME NEW n \in 1..Len(lines), IsDirective(lines[n]), rid \in RuleIds(lines[n]),
             TargetLine(lines[n], n) = at
      PROVE  rid \in RuleIds(Cleaned[n])
  <2>1. ASSUME NEW r \in records, r.comment_line = n, r.rule_id = rid PROVE r.used
    <3>1. r.target_line = at
      BY <1>3, <2>1, RecordOfDirective
    <3> QED BY <2>1, <3>1, InvOrphans DEF OrphanMeansNoFinding
  <2>2. rid \notin Gone(n)
    BY <2>1 DEF Gone, Unused
  <2> QED BY <1>3, <2>2, CleanedLine
<1>4. ASSUME NEW n \in 1..Len(lines)
      PROVE  /\ AimsAtItself(lines[n]) /\ rid \in RuleIds(lines[n]) /\ n = at
                  <=> AimsAtItself(Cleaned[n]) /\ rid \in RuleIds(Cleaned[n]) /\ n = at
             /\ AimsBelow(lines[n]) /\ rid \in RuleIds(lines[n]) /\ n + 1 = at
                  <=> AimsBelow(Cleaned[n]) /\ rid \in RuleIds(Cleaned[n]) /\ n + 1 = at
  <2>1. CASE ~IsDirective(lines[n])
    BY <2>1, CleanedLine
  <2>2. CASE IsDirective(lines[n])
    <3>1. lines[n] \in Line /\ n \in Nat
      BY <1>1
    <3>2. /\ TargetLine(lines[n], n) = n <=> AimsAtItself(lines[n])
          /\ TargetLine(lines[n], n) = n + 1 <=> AimsBelow(lines[n])
      BY <2>2, <3>1, WhereItAims
    <3>3. /\ RuleIds(Cleaned[n]) = RuleIds(lines[n]) \ Gone(n)
          /\ AimsAtItself(Cleaned[n]) <=> AimsAtItself(lines[n]) /\ RuleIds(Cleaned[n]) # {}
          /\ AimsBelow(Cleaned[n]) <=> AimsBelow(lines[n]) /\ RuleIds(Cleaned[n]) # {}
      BY <2>2, CleanedLine
    <3>4. rid \in RuleIds(lines[n]) /\ TargetLine(lines[n], n) = at => rid \in RuleIds(Cleaned[n])
      BY <1>3, <2>2
    <3> QED BY <3>2, <3>3, <3>4
  <2> QED BY <2>1, <2>2
<1>5. at - 1 \in 1..Len(lines) => (at - 1) + 1 = at
  BY <1>1, <1>2
<1>6. Len(Cleaned) = Len(lines)
  <2>1. CASE Len(lines) = 0
    BY <1>1, <2>1 DEF Cleaned
  <2>2. CASE Len(lines) # 0
    BY <1>1, <2>2, CleanedLine
  <2> QED BY <2>1, <2>2
<1> QED BY <1>2, <1>4, <1>5, <1>6 DEF InlineSuppressions

-----------------------------------------------------------------------------
\* The image of a finite set under a function is finite.
LEMMA FiniteImage ==
  ASSUME NEW S, IsFiniteSet(S), NEW f, f = [x \in S |-> f[x]]
  PROVE  IsFiniteSet({f[x] : x \in S})
<1> DEFINE T == {f[x] : x \in S}
<1>1. f \in [S -> T]
  OBVIOUS
<1>2. \A t \in T : \E x \in S : f[x] = t
  OBVIOUS
<1>3. f \in Surjection(S, T)
  BY <1>1, <1>2 DEF Surjection
<1> QED BY <1>3, FS_Surjection

\* A line names finitely many rules, so that there are finitely many records
\* even if Rule is not finite.
LEMMA FinitelyManyRuleIds == ASSUME NEW ln \in Line PROVE IsFiniteSet(RuleIds(ln))
<1>1. ln.text \in Seq(Token) /\ Len(ln.text) \in Nat /\ ln.text = [i \in 1..Len(ln.text) |-> ln.text[i]]
  BY DEF Line
<1>2. IsFiniteSet(1..Len(ln.text))
  BY <1>1, FS_Interval
<1>3. IsFiniteSet({ln.text[i] : i \in 1..Len(ln.text)})
  BY <1>1, <1>2, FiniteImage
<1>4. RuleIds(ln) \subseteq {ln.text[i] : i \in 1..Len(ln.text)}
  BY DEF RuleIds
<1> QED BY <1>3, <1>4, FS_Subset

LEMMA FinitelyManyRecords == AuditInv => IsFiniteSet(records)
<1> SUFFICES ASSUME AuditInv PROVE IsFiniteSet(records)
  OBVIOUS
<1> DEFINE lines == program.lines
           pairs(k) == {k} \X RuleIds(lines[k])
           P == UNION {pairs(k) : k \in 1..Len(lines)}
           rec(p) == [comment_line |-> DirectiveOf(lines[p[1]], p[1]).comment_line,
                      target_line |-> DirectiveOf(lines[p[1]], p[1]).target_line,
                      rule_id |-> p[2],
                      justified |-> DirectiveOf(lines[p[1]], p[1]).justified,
                      used |-> <<DirectiveOf(lines[p[1]], p[1]).target_line, p[2]>> \in UsedKeys]
<1>1. lines \in Seq(Line) /\ Len(lines) \in Nat /\ IsFiniteSet(1..Len(lines))
  BY LinesType, FS_Interval
<1>2. \A k \in 1..Len(lines) : IsFiniteSet(pairs(k))
  <2> SUFFICES ASSUME NEW k \in 1..Len(lines) PROVE IsFiniteSet(pairs(k))
    OBVIOUS
  <2>1. lines[k] \in Line
    BY <1>1
  <2>2. IsFiniteSet(RuleIds(lines[k]))
    BY <2>1, FinitelyManyRuleIds
  <2>3. IsFiniteSet({k})
    BY FS_Singleton
  <2> QED BY <2>2, <2>3, FS_Product
<1>3. IsFiniteSet(P)
  <2> HIDE DEF pairs
  <2> DEFINE f == [k \in 1..Len(lines) |-> pairs(k)]
  <2>1. IsFiniteSet({f[k] : k \in 1..Len(lines)})
    <3>1. f = [k \in 1..Len(lines) |-> f[k]]
      OBVIOUS
    <3> HIDE DEF f
    <3> QED BY <1>1, <3>1, FiniteImage
  <2>2. {f[k] : k \in 1..Len(lines)} = {pairs(k) : k \in 1..Len(lines)}
    OBVIOUS
  <2> QED BY <1>2, <2>1, <2>2, FS_UNION
<1>4. RecordsOf(lines) \subseteq {rec(p) : p \in P}
  <2> SUFFICES ASSUME NEW r \in RecordsOf(lines) PROVE r \in {rec(p) : p \in P}
    OBVIOUS
  <2>1. PICK p \in (1..Len(lines)) \X Rule :
          IsDirective(lines[p[1]]) /\ p[2] \in RuleIds(lines[p[1]]) /\ r = rec(p)
    BY DEF RecordsOf
  <2>2. p \in pairs(p[1]) /\ p[1] \in 1..Len(lines)
    BY <2>1
  <2> HIDE DEF pairs, rec
  <2> QED BY <2>1, <2>2
<1>5. IsFiniteSet({rec(p) : p \in P})
  <2> HIDE DEF P, rec
  <2> DEFINE f == [p \in P |-> rec(p)]
  <2>1. IsFiniteSet({f[p] : p \in P})
    <3>1. f = [p \in P |-> f[p]]
      OBVIOUS
    <3> HIDE DEF f
    <3> QED BY <1>3, <3>1, FiniteImage
  <2>2. {f[p] : p \in P} = {rec(p) : p \in P}
    OBVIOUS
  <2> QED BY <2>1, <2>2
<1>6. records = {} \/ records = RecordsOf(lines)
  BY DEF AuditInv, RecordsInv
<1> QED BY <1>4, <1>5, <1>6, FS_Subset, FS_EmptySet

\* `--max-unused 0` compares a number of records with 0: a finite number.
LEMMA PassedPolicies ==
  ASSUME IsFiniteSet(Unused), ~Failed
  PROVE  /\ policy.fail_on_unused \/ policy.max_unused = 0 => Unused = {}
         /\ policy.fail_on_unjustified => Unjustified = {}
<1>1. Cardinality(Unused) \in Nat /\ (Cardinality(Unused) = 0 => Unused = {})
  BY FS_CardinalityType, FS_EmptySet
<1>2. 0 # NoLimit
  BY DEF NoLimit
<1>3. policy.max_unused = 0 => ~(Cardinality(Unused) > 0)
  BY <1>2 DEF Failed
<1>4. policy.max_unused = 0 => Unused = {}
  BY <1>1, <1>3
<1> QED BY <1>4 DEF Failed

LEMMA InvCleanExit == AuditInv => CleanExit
<1>1. AuditInv => IsFiniteSet(Unused)
  BY FinitelyManyRecords, FS_Subset DEF Unused
<1>2. AuditInv => (exit = "exit 0" => ~Failed)
  BY DEF AuditInv, RecordsInv
<1> QED BY <1>1, <1>2, PassedPolicies, Zenon DEF CleanExit

\* The audit keeps its types, its analysis included.
THEOREM AuditTypes == AuditSpec => []AuditTypeOK
BY InitAudit, NextAudit, InvTypes, PTL DEF AuditSpec

\* The audit's analysis loses nothing and judges as a scan does.
THEOREM AuditAnalyses == AuditSpec => [](NeverSilenced /\ SeverityPrecedence /\ ReportOrder)
<1>1. AuditInv => NeverSilenced /\ SeverityPrecedence /\ ReportOrder
  BY InvNeverSilences, InvHasPrecedence DEF AuditInv, StagesInv
<1> QED BY <1>1, InitAudit, NextAudit, PTL DEF AuditSpec

\* A record is an orphan exactly when no finding of its rule is on its target.
THEOREM OrphansHideNothing == AuditSpec => []OrphanMeansNoFinding
BY InitAudit, NextAudit, InvOrphans, PTL DEF AuditSpec

\* Striking out every orphan at once changes no suppression of a finding.
THEOREM OrphansCanGo == AuditSpec => []OrphansAreInert
BY InitAudit, NextAudit, InvInert, PTL DEF AuditSpec

\* An exit status of 0 keeps the promises of the policy flags.
THEOREM ExitMeansClean == AuditSpec => []CleanExit
BY InitAudit, NextAudit, InvCleanExit, PTL DEF AuditSpec
=============================================================================
