---------------------------- MODULE Suppressions ----------------------------
(***************************************************************************)
(* The two loops of pyvibe/suppressions.py: the first reads a file line by *)
(* line and collects its directives, the second folds them into the map    *)
(* from a line to the rules suppressed there.                              *)
(***************************************************************************)
EXTENDS Directives

CONSTANT Files      \* the files that may be read, as sequences of lines

ASSUME FilesAssumption == Files \subseteq Seq(Line)

VARIABLES source,       \* source.splitlines()
          lineno,       \* the next line the first loop reads
          directives,   \* what the first loop has collected
          folding,      \* the next directive the second loop folds
          suppressions  \* line -> rules; an absent key is the empty set
suppressionsVars == <<source, lineno, directives, folding, suppressions>>

\* Keys the map can have: the line after the last one is a target too.
Targets == 1..(Len(source) + 1)

Parsed == lineno > Len(source)
Done   == Parsed /\ folding > Len(directives)

SuppressionsTypeOK ==
  /\ source \in Files
  /\ lineno \in 1..(Len(source) + 1)
  /\ directives \in Seq(SuppressionDirective)
  /\ folding \in 1..(Len(directives) + 1)
  /\ suppressions \in [Targets -> SUBSET Rule]

MInitAtZero ==
  /\ source \in Files
  /\ lineno = 0
  /\ directives = <<>>
  /\ folding = 1
  /\ suppressions = [n \in Targets |-> {}]

SuppressionsInit ==
  /\ source \in Files
  /\ lineno = 1
  /\ directives = <<>>
  /\ folding = 1
  /\ suppressions = [n \in Targets |-> {}]

\* One turn of the loop over source.splitlines().
ParseLine ==
  /\ ~Parsed
  /\ IF IsDirective(source[lineno])
       THEN directives' = Append(directives, DirectiveOf(source[lineno], lineno))
       ELSE UNCHANGED directives
  /\ lineno' = lineno + 1
  /\ UNCHANGED <<source, folding, suppressions>>

MFoldOverwrites ==
  /\ Parsed /\ ~Done
  /\ LET d == directives[folding] IN
       suppressions' = [suppressions EXCEPT ![d.target_line] = d.rule_ids]
  /\ folding' = folding + 1
  /\ UNCHANGED <<source, lineno, directives>>

\* suppressions.setdefault(target_line, set()).update(rule_ids)
FoldDirective ==
  /\ Parsed /\ ~Done
  /\ LET d == directives[folding] IN
       suppressions' = [suppressions EXCEPT ![d.target_line] = @ \cup d.rule_ids]
  /\ folding' = folding + 1
  /\ UNCHANGED <<source, lineno, directives>>

SuppressionsNext == ParseLine \/ FoldDirective

SuppressionsSpec == SuppressionsInit /\ [][SuppressionsNext]_suppressionsVars

-----------------------------------------------------------------------------
(***************************************************************************)
(* Properties                                                              *)
(***************************************************************************)

\* The finished map holds, for each line, exactly the rules named by the
\* directives aimed at it, however many comments share a target (a trailing
\* one and the standalone one above it) and whatever directives without a
\* rule id lie between them.
MapIsComplete ==
  Done => \A n \in Targets : suppressions[n] = InlineSuppressions(source, n)

\* cli.py:22 says a standalone `ignore` aims at the next non-comment line.
CommentOnly(ln) == ~ln.code /\ ln.text # <<>>
StandaloneSkipsComments ==
  \A i \in 1..Len(directives) :
    LET d == directives[i]
    IN  d.directive = Ignore /\ IsStandalone(source[d.comment_line])
          => \A n \in (d.comment_line + 1)..(d.target_line) :
                n <= Len(source) => (n < d.target_line <=> CommentOnly(source[n]))

\* suppressions.py:50 says an `ignore` behind code aims at its own line; the
\* findings it must meet carry the line number of Python's parser.
TrailingCoversItsOwnLine ==
  \A i \in 1..Len(directives) :
    LET d == directives[i]
    IN  d.directive = Ignore /\ ~IsStandalone(source[d.comment_line])
          => d.target_line = AstLine(source, d.comment_line)
=============================================================================
