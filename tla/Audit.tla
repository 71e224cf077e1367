-------------------------------- MODULE Audit --------------------------------
(***************************************************************************)
(* `pyvibe audit` on one file (pyvibe/audit.py, _main_audit in             *)
(* pyvibe/cli.py): the analysis of Analyzer.tla with every downgrade on,   *)
(* then one record per directive and rule id, then the exit status the     *)
(* policy flags ask for.  An analysis that is a scan's ends with its two   *)
(* lists.                                                                  *)
(***************************************************************************)
EXTENDS Analyzer, FiniteSets

CONSTANT Policies   \* the flags of the command

NoLimit == -1       \* --max-unused not given

Policy == [fail_on_unused : BOOLEAN, fail_on_unjustified : BOOLEAN,
           max_unused : Nat \cup {NoLimit}]

ASSUME AuditAssumption == Policies \subseteq Policy /\ Policies # {}

VARIABLES policy,   \* the flags given
          records,  \* audit_file's result, {} until the analysis has returned
          exit      \* the exit status, "running" until there is one; "scan": no audit
auditVars == <<policy, records, exit>>
allVars == <<vars, auditVars>>

Record == [comment_line : Nat, target_line : Nat, rule_id : Rule,
           justified : BOOLEAN, used : BOOLEAN]

AuditTypeOK ==
  /\ TypeOK
  /\ policy \in Policies
  /\ records \subseteq Record
  /\ exit \in {"scan", "running", "audited", "exit 0", "exit 1"}

-----------------------------------------------------------------------------
AuditInit ==
  /\ Init
  /\ \/ exit = "running" /\ downgrade = Rule /\ policy \in Policies
     \/ exit = "scan" /\ policy = CHOOSE p \in Policies : TRUE
  /\ records = {}

MUsedKeysBoth == {<<suppressed[i].v.line, suppressed[i].v.rule_id>> : i \in 1..Len(suppressed)}

\* {(v.line, v.rule_id) for v, reason in suppressed if reason == "inline"}
UsedKeys ==
  {<<suppressed[i].v.line, suppressed[i].v.rule_id>> :
     i \in {j \in 1..Len(suppressed) : suppressed[j].reason = "inline"}}

MRecordsOfWholeDirective(lines) ==
  {LET d == DirectiveOf(lines[n], n)
   IN  [comment_line |-> d.comment_line, target_line |-> d.target_line, rule_id |-> d.rule_ids,
        justified |-> d.justified, used |-> <<d.target_line, d.rule_ids>> \in UsedKeys] :
   n \in {m \in 1..Len(lines) : IsDirective(lines[m])}}

\* One record per directive and rule id it names.
RecordsOf(lines) ==
  {LET d == DirectiveOf(lines[p[1]], p[1])
   IN  [comment_line |-> d.comment_line, target_line |-> d.target_line, rule_id |-> p[2],
        justified |-> d.justified, used |-> <<d.target_line, p[2]>> \in UsedKeys] :
   p \in {q \in (1..Len(lines)) \X Rule :
            IsDirective(lines[q[1]]) /\ q[2] \in RuleIds(lines[q[1]])}}

Analyze == Next /\ UNCHANGED auditVars

BuildRecords ==
  /\ stage = "done" /\ exit = "running"
  /\ records' = RecordsOf(program.lines)
  /\ exit' = "audited"
  /\ UNCHANGED <<vars, policy>>

Unused      == {r \in records : ~r.used}
Unjustified == {r \in records : ~r.justified}

MFailedMax ==
  \/ policy.fail_on_unused /\ Unused # {}
  \/ policy.fail_on_unjustified /\ Unjustified # {}
  \/ policy.max_unused > 0 /\ Cardinality(Unused) > policy.max_unused

Failed ==
  \/ policy.fail_on_unused /\ Unused # {}
  \/ policy.fail_on_unjustified /\ Unjustified # {}
  \/ policy.max_unused # NoLimit /\ Cardinality(Unused) > policy.max_unused

Exit ==
  /\ exit = "audited"
  /\ exit' = IF Failed THEN "exit 1" ELSE "exit 0"
  /\ UNCHANGED <<vars, policy, records>>

AuditNext == Analyze \/ BuildRecords \/ Exit

AuditSpec == AuditInit /\ [][AuditNext]_allVars

-----------------------------------------------------------------------------
(***************************************************************************)
(* Properties                                                              *)
(***************************************************************************)

Audited == exit \notin {"scan", "running"}

\* audit.py:31: a record is an orphan exactly when no finding of its rule was
\* raised on its target line, even for a rule that pyvibe.toml ignores too.
OrphanMeansNoFinding ==
  Audited => \A r \in records :
    r.used <=> \E i \in 1..Len(raised) :
                 raised[i].rule_id = r.rule_id /\ raised[i].line = r.target_line

\* The file with the rule ids the audit calls unused struck out: each is now a word
\* that names no rule.
Orphaned(n, i) ==
  /\ InRulePart(program.lines[n], i)
  /\ \E r \in Unused : r.comment_line = n /\ r.rule_id = program.lines[n].text[i]
Cleaned == [n \in DOMAIN program.lines |->
  [program.lines[n] EXCEPT !.text = [i \in DOMAIN @ |-> IF Orphaned(n, i) THEN Prose ELSE @[i]]]]

\* Striking out what the audit calls unused, all of it at once, changes neither the
\* report nor the reason of any suppression of a later scan.
OrphansAreInert ==
  Audited => \A i \in 1..Len(raised) :
    raised[i].rule_id \in InlineSuppressions(program.lines, raised[i].line)
      <=> raised[i].rule_id \in InlineSuppressions(Cleaned, raised[i].line)

\* The strictest policy: an exit status 0 means that each directive hides a real
\* finding and says why; `--max-unused 0` is as strict as `--fail-on-unused`.
CleanExit ==
  exit = "exit 0" =>
    /\ policy.fail_on_unused \/ policy.max_unused = 0 => Unused = {}
    /\ policy.fail_on_unjustified => Unjustified = {}
=============================================================================
