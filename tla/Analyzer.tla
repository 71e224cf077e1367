------------------------------ MODULE Analyzer ------------------------------
(***************************************************************************)
(* analyze_source_full (pyvibe/analyzer.py): one file goes through the     *)
(* rules and then through the stages that lower, override, sort and        *)
(* suppress what they raised.  A rule's visitor is any sequence of         *)
(* findings (the rules have modules of their own); everything after the    *)
(* visitors is modelled stage by stage.                                    *)
(***************************************************************************)
EXTENDS Directives, Functions

CONSTANTS AllRules,        \* ALL_RULES: the rule ids in the order they run
          BlockingRules,   \* BLOCKING_RULES
          NonprodSegments, \* _NONPROD_SEGMENTS
          Name,            \* function names
          Programs,        \* the files that may be analysed
          Configs,         \* the configurations that may be in force
          Downgrades,      \* values of downgrade_in_tests
          MaxFindings      \* bound: findings a file raises

ASSUME AnalyzerAssumption ==
  /\ AllRules \in Seq(Rule) /\ AllRules # <<>>
  /\ BlockingRules \subseteq Rule
  /\ Downgrades \subseteq SUBSET Rule
  /\ MaxFindings \in Nat

Severity == {"CRITICAL", "WARNING"}

\* A file: does it parse, its physical lines, its module-level async defs in
\* textual order, its asyncio.run(name(...)) calls (sheltered: inside an async
\* def or a lambda), and the path that drives the path downgrade.
Program ==
  [parses : BOOLEAN,
   lines : Seq(Line),
   async_defs : Seq([name : Name, first : Nat, last : Nat]),
   run_calls : SUBSET [name : Name, sheltered : BOOLEAN],
   path : [dirs : Seq(STRING), test_name : BOOLEAN]]

\* severity: the rules [tool.pyvibe.severity] names, and what it gives them.
\* No pyvibe.toml is the configuration that names no rule.
Config == [ignore : SUBSET Rule, severity : UNION {[D -> Severity] : D \in SUBSET Rule}]

ASSUME InputAssumption == Programs \subseteq Program /\ Configs \subseteq Config

\* explained: the message ends with the entry-coroutine's "WARNING, not
\* CRITICAL" sentence.  id is the order in which the findings were raised.
Violation == [id : Nat, rule_id : Rule, severity : Severity, line : Nat,
              function_name : Name, explained : BOOLEAN]

VARIABLES program, config, downgrade,  \* the arguments of the call
          stage,                       \* where the call is
          rule,                        \* index in AllRules of the running visitor
          raised,                      \* history: the findings as they were raised
          violations,                  \* the list the stages mutate
          next,                        \* the element the last loop looks at
          reported, suppressed         \* the two results
args == <<program, config, downgrade>>
vars == <<program, config, downgrade, stage, rule, raised, violations, next, reported, suppressed>>

Stages == {"parse", "rules", "entry", "path", "config", "sort", "classify", "done"}

TypeOK ==
  /\ program \in Programs /\ config \in Configs /\ downgrade \in Downgrades
  /\ stage \in Stages
  /\ rule \in 1..Len(AllRules)
  /\ raised \in Seq(Violation)
  /\ violations \in Seq(Violation)
  /\ next \in 1..(Len(violations) + 1)
  /\ reported \in Seq(Violation)
  /\ suppressed \in Seq([v : Violation, reason : {"inline", "config"}])

-----------------------------------------------------------------------------
\* {n.name: (n.lineno, n.end_lineno)}: the last module-level def of a name wins.
DefOf(p, name) == CHOOSE i \in 1..Len(p.async_defs) :
                    /\ p.async_defs[i].name = name
                    /\ \A j \in (i + 1)..Len(p.async_defs) : p.async_defs[j].name # name

\* _entry_coroutines: the async defs that asyncio.run() starts.
EntryNames(p) ==
  {c.name : c \in {d \in p.run_calls : ~d.sheltered}}
    \cap {p.async_defs[i].name : i \in 1..Len(p.async_defs)}

InEntryCoroutine(p, v) ==
  /\ v.function_name \in EntryNames(p)
  /\ LET span == p.async_defs[DefOf(p, v.function_name)]
     IN  span.first <= v.line /\ v.line <= span.last

\* _is_test_file: by the file's name or by a directory segment of its path.
IsTestFile(path) ==
  path.test_name \/ \E i \in 1..Len(path.dirs) : path.dirs[i] \in NonprodSegments

EntryDowngraded(p, v) ==
  v.rule_id \in BlockingRules /\ v.severity = "CRITICAL" /\ InEntryCoroutine(p, v)

PathDowngraded(p, down, v) ==
  down # {} /\ IsTestFile(p.path) /\ v.rule_id \in down /\ v.severity = "CRITICAL"

-----------------------------------------------------------------------------
Init ==
  /\ program \in Programs /\ config \in Configs /\ downgrade \in Downgrades
  /\ stage = "parse"
  /\ rule = 1
  /\ raised = <<>> /\ violations = <<>>
  /\ next = 1
  /\ reported = <<>> /\ suppressed = <<>>

\* except SyntaxError: return [], []
ParseFails ==
  /\ stage = "parse" /\ ~program.parses
  /\ stage' = "done"
  /\ UNCHANGED <<args, rule, raised, violations, next, reported, suppressed>>

ParseSucceeds ==
  /\ stage = "parse" /\ program.parses
  /\ stage' = "rules"
  /\ UNCHANGED <<args, rule, raised, violations, next, reported, suppressed>>

\* The running visitor appends a finding, at whatever line its walk has reached.
Raise ==
  /\ stage = "rules" /\ Len(violations) < MaxFindings
  /\ \E line \in 1..Len(program.lines), fn \in Name, sev \in Severity :
       LET v == [id |-> Len(raised) + 1, rule_id |-> AllRules[rule], severity |-> sev,
                 line |-> line, function_name |-> fn, explained |-> FALSE]
       IN  /\ raised' = Append(raised, v)
           /\ violations' = Append(violations, v)
  /\ UNCHANGED <<args, stage, rule, next, reported, suppressed>>

MNextRuleOneMore ==
  /\ stage = "rules"
  /\ IF rule <= Len(AllRules) THEN rule' = rule + 1 /\ UNCHANGED stage
                              ELSE stage' = "entry" /\ UNCHANGED rule
  /\ UNCHANGED <<args, raised, violations, next, reported, suppressed>>

\* The visitor is done: the next rule's starts, or the stages after the rules.
NextRule ==
  /\ stage = "rules"
  /\ IF rule < Len(AllRules) THEN rule' = rule + 1 /\ UNCHANGED stage
                             ELSE stage' = "entry" /\ UNCHANGED rule
  /\ UNCHANGED <<args, raised, violations, next, reported, suppressed>>

\* _downgrade_entry_coroutine
DowngradeEntry ==
  /\ stage = "entry"
  /\ violations' = [i \in DOMAIN violations |->
       IF EntryDowngraded(program, violations[i])
         THEN [violations[i] EXCEPT !.severity = "WARNING", !.explained = TRUE]
         ELSE violations[i]]
  /\ stage' = "path"
  /\ UNCHANGED <<args, rule, raised, next, reported, suppressed>>

MDowngradePathSilences ==
  /\ stage = "path"
  /\ violations' = SelectSeq(violations, LAMBDA v : ~PathDowngraded(program, downgrade, v))
  /\ stage' = "config"
  /\ UNCHANGED <<args, rule, raised, next, reported, suppressed>>

\* if downgrade_in_tests and _is_test_file(filepath): CRITICAL becomes WARNING
DowngradePath ==
  /\ stage = "path"
  /\ violations' = [i \in DOMAIN violations |->
       IF PathDowngraded(program, downgrade, violations[i])
         THEN [violations[i] EXCEPT !.severity = "WARNING"]
         ELSE violations[i]]
  /\ stage' = "config"
  /\ UNCHANGED <<args, rule, raised, next, reported, suppressed>>

MApplySeverityLowersOnly ==
  /\ stage = "config"
  /\ violations' = [i \in DOMAIN violations |->
       IF violations[i].rule_id \in DOMAIN config.severity /\ violations[i].severity = "CRITICAL"
         THEN [violations[i] EXCEPT !.severity = config.severity[violations[i].rule_id]]
         ELSE violations[i]]
  /\ stage' = "sort"
  /\ UNCHANGED <<args, rule, raised, next, reported, suppressed>>

\* if config and config.severity: the configured severity, whatever it was before
ApplySeverity ==
  /\ stage = "config"
  /\ violations' = [i \in DOMAIN violations |->
       IF violations[i].rule_id \in DOMAIN config.severity
         THEN [violations[i] EXCEPT !.severity = config.severity[violations[i].rule_id]]
         ELSE violations[i]]
  /\ stage' = "sort"
  /\ UNCHANGED <<args, rule, raised, next, reported, suppressed>>

MSorts(s) == {[i \in DOMAIN s |-> s[p[i]]] :
  p \in {q \in Bijection(DOMAIN s, DOMAIN s) :
           \A i, j \in DOMAIN s : i < j => s[q[i]].line <= s[q[j]].line}}

\* list.sort(key=line) is stable: equal lines stay in the order they had.
StableSorts(s) == {[i \in DOMAIN s |-> s[p[i]]] :
  p \in {q \in Bijection(DOMAIN s, DOMAIN s) :
           \A i, j \in DOMAIN s : i < j =>
             \/ s[q[i]].line < s[q[j]].line
             \/ s[q[i]].line = s[q[j]].line /\ q[i] < q[j]}}

SortByLine ==
  /\ stage = "sort"
  /\ violations' \in StableSorts(violations)
  /\ stage' = "classify"
  /\ UNCHANGED <<args, rule, raised, next, reported, suppressed>>

MClassifyConfigFirst ==
  /\ stage = "classify" /\ next <= Len(violations)
  /\ LET v == violations[next]
         Suppress(why) == /\ suppressed' = Append(suppressed, [v |-> v, reason |-> why])
                          /\ UNCHANGED reported
     IN  CASE v.rule_id \in config.ignore -> Suppress("config")
           [] v.rule_id \in InlineSuppressions(program.lines, v.line) \ config.ignore
                -> Suppress("inline")
           [] OTHER -> reported' = Append(reported, v) /\ UNCHANGED suppressed
  /\ next' = next + 1
  /\ UNCHANGED <<args, stage, rule, raised, violations>>

\* One turn of the last loop: an inline comment is looked for before the config.
Classify ==
  /\ stage = "classify" /\ next <= Len(violations)
  /\ LET v == violations[next]
         inline == v.rule_id \in InlineSuppressions(program.lines, v.line)
         ignored == v.rule_id \in config.ignore
     IN  IF inline \/ ignored
           THEN /\ suppressed' = Append(suppressed,
                     [v |-> v, reason |-> IF inline THEN "inline" ELSE "config"])
                /\ UNCHANGED reported
           ELSE reported' = Append(reported, v) /\ UNCHANGED suppressed
  /\ next' = next + 1
  /\ UNCHANGED <<args, stage, rule, raised, violations>>

Return ==
  /\ stage = "classify" /\ next > Len(violations)
  /\ stage' = "done"
  /\ UNCHANGED <<args, rule, raised, violations, next, reported, suppressed>>

Next == \/ ParseFails \/ ParseSucceeds \/ Raise \/ NextRule
        \/ DowngradeEntry \/ DowngradePath \/ ApplySeverity
        \/ SortByLine \/ Classify \/ Return

Spec == Init /\ [][Next]_vars

-----------------------------------------------------------------------------
(***************************************************************************)
(* Properties                                                              *)
(***************************************************************************)

\* What is still to be classified, and what has been.
Pending   == {violations[i] : i \in next..Len(violations)}
Reported  == {reported[i] : i \in 1..Len(reported)}
Suppressed == {suppressed[i].v : i \in 1..Len(suppressed)}

\* The finding v is the i-th raised one, its severity and message aside.
SameFinding(v, w) == /\ v.id = w.id /\ v.rule_id = w.rule_id
                     /\ v.line = w.line /\ v.function_name = w.function_name

\* "Rebaja, never silence" (analyzer.py:131): at every stage each raised
\* finding is in exactly one place, waiting, reported or suppressed, and none
\* of the stages changes what it is about.
NeverSilenced ==
  /\ \A i \in 1..Len(raised) :
       \E v \in Pending \cup Reported \cup Suppressed : SameFinding(v, raised[i])
  /\ \A v \in Pending \cup Reported \cup Suppressed :
       v.id \in 1..Len(raised) /\ SameFinding(v, raised[v.id])
  /\ (Len(violations) - next + 1) + Len(reported) + Len(suppressed) = Len(raised)

\* The severity a user sees: the configured one if the rule has one, else a
\* WARNING for a CRITICAL that either downgrade covers, else the rule's own.
FinalSeverity(v) ==
  IF v.rule_id \in DOMAIN config.severity THEN config.severity[v.rule_id]
  ELSE IF EntryDowngraded(program, v) \/ PathDowngraded(program, downgrade, v) THEN "WARNING"
  ELSE v.severity

SeverityPrecedence ==
  \A v \in Reported \cup Suppressed : v.severity = FinalSeverity(raised[v.id])

\* The report is in line order; findings of one line are in the order the rules
\* ran, so that two runs on the same file print the same report.
ReportOrder ==
  \A i, j \in 1..Len(reported) : i < j =>
    \/ reported[i].line < reported[j].line
    \/ reported[i].line = reported[j].line /\ reported[i].id < reported[j].id

\* The message analyzer.py:138 writes says "WARNING, not CRITICAL" of the finding
\* it is attached to.
MessageAgreesWithSeverity ==
  \A v \in Reported \cup Suppressed : v.explained => v.severity = "WARNING"
=============================================================================
