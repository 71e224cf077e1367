----------------------------- MODULE Directives -----------------------------
(***************************************************************************)
(* What a suppression comment says (pyvibe/suppressions.py), as operators  *)
(* on the physical lines str.splitlines() yields.                          *)
(*                                                                         *)
(* A line is abstracted to                                                 *)
(*   code     something other than blanks precedes the first token of text *)
(*   text     the part of the line a directive can be read from, as tokens:*)
(*            the two directive keywords, "--", rule ids, any other prose  *)
(*   newline  the line ends with a line break of Python's own grammar;     *)
(*            FALSE when it ends with a form feed, vertical tab or another *)
(*            character at which only splitlines() breaks                  *)
(***************************************************************************)
EXTENDS Naturals, Sequences

CONSTANT Rule       \* the rule ids ("PYVIBE-001" ...)

Ignore         == "ignore"
IgnoreNextLine == "ignore-next-line"
Dashes         == "--"
Prose          == "prose"

Keyword == {Ignore, IgnoreNextLine}
Token   == Keyword \cup {Dashes, Prose} \cup Rule
Line    == [code : BOOLEAN, text : Seq(Token), newline : BOOLEAN]

\* A rule id is not one of the other tokens.
ASSUME RuleAssumption == Rule \cap {Ignore, IgnoreNextLine, Dashes, Prose} = {}

-----------------------------------------------------------------------------
\* _DIRECTIVE_RE.search finds the first keyword, and only that one.
Matches(ln) == \E i \in 1..Len(ln.text) : ln.text[i] \in Keyword

MatchStart(ln) == CHOOSE i \in 1..Len(ln.text) :
                     /\ ln.text[i] \in Keyword
                     /\ \A j \in 1..(i - 1) : ln.text[j] \notin Keyword

\* rest.split("--", 1): token i belongs to the part that names the rules.
InRulePart(ln, i) == /\ i > MatchStart(ln)
                     /\ \A j \in (MatchStart(ln) + 1)..i : ln.text[j] # Dashes

RuleIds(ln) == {ln.text[i] : i \in {j \in 1..Len(ln.text) : InRulePart(ln, j)}} \cap Rule

\* The text after "--", when any is left once it is stripped.
Justified(ln) == \E i, j \in 1..Len(ln.text) :
                    MatchStart(ln) < i /\ i < j /\ ln.text[i] = Dashes

IsDirective(ln) == Matches(ln) /\ RuleIds(ln) # {}

IsStandalone(ln) == ~ln.code /\ MatchStart(ln) = 1

MTargetByKeyword(ln, lineno) ==
  IF ln.text[MatchStart(ln)] = IgnoreNextLine THEN lineno + 1 ELSE lineno

TargetLine(ln, lineno) ==
  IF ln.text[MatchStart(ln)] = IgnoreNextLine \/ IsStandalone(ln) THEN lineno + 1 ELSE lineno

SuppressionDirective ==
  [comment_line : Nat, target_line : Nat, directive : Keyword,
   rule_ids : SUBSET Rule, justified : BOOLEAN]

DirectiveOf(ln, lineno) ==
  [comment_line |-> lineno,
   target_line  |-> TargetLine(ln, lineno),
   directive    |-> ln.text[MatchStart(ln)],
   rule_ids     |-> RuleIds(ln),
   justified    |-> Justified(ln)]

-----------------------------------------------------------------------------
\* The rules suppressed on line n, without the loops: those named on line n by
\* an `ignore` with something before it, and those named on the line above by
\* an `ignore-next-line` or by an `ignore` that opens its line.
AimsAtItself(ln) == IsDirective(ln) /\ ln.text[MatchStart(ln)] = Ignore /\ ~IsStandalone(ln)
AimsBelow(ln)    == IsDirective(ln) /\ ~AimsAtItself(ln)

InlineSuppressions(lines, n) ==
  {r \in Rule :
     \/ n \in 1..Len(lines) /\ AimsAtItself(lines[n]) /\ r \in RuleIds(lines[n])
     \/ n - 1 \in 1..Len(lines) /\ AimsBelow(lines[n - 1]) /\ r \in RuleIds(lines[n - 1])}

\* The line number Python's parser gives to the physical line n.
AstLine(lines, n) ==
  1 + Len(SelectSeq(SubSeq(lines, 1, n - 1), LAMBDA ln : ln.newline))
=============================================================================
