------------------------------- MODULE MCAudit -------------------------------
EXTENDS Audit

CONSTANTS blocking, other, main, helper

MCRule == {blocking, other}
MCAllRules == <<blocking, other>>
MCBlockingRules == {blocking}
MCNonprodSegments == {"tests"}
MCName == {main, helper}

Text(t, code) == [code |-> code, text |-> t, newline |-> TRUE]
Plain  == Text(<<>>, TRUE)
Def(n, a, b) == [name |-> n, first |-> a, last |-> b]
Run(n, s)    == [name |-> n, sheltered |-> s]
Src == [dirs |-> <<"src">>, test_name |-> FALSE]

\* What the stages tell apart: two lines, a comment over a line of code or a line
\* with a trailing comment.
Staged ==
  [parses : {TRUE},
   lines : {<<Text(<<Ignore, blocking>>, FALSE), Plain>>, <<Plain, Text(<<Ignore, other>>, TRUE)>>},
   async_defs : {<<Def(main, 1, 2)>>, <<Def(main, 1, 1), Def(main, 2, 2)>>},
   run_calls : {{Run(main, FALSE)}, {Run(main, TRUE), Run(helper, FALSE)}},
   path : {Src, [dirs |-> <<"src", "tests">>, test_name |-> FALSE],
           [dirs |-> <<>>, test_name |-> TRUE]}]

\* What the comments tell apart: three lines, so that two comments meet on one target.
Commented ==
  [parses : {TRUE},
   lines : {<<a, b, c>> :
     a \in {Text(<<Ignore, blocking, other>>, FALSE), Text(<<IgnoreNextLine, other, Dashes, Prose>>, TRUE)},
     b \in {Plain, Text(<<Ignore, blocking>>, TRUE), Text(<<Ignore, other, Dashes, blocking>>, TRUE),
            Text(<<Ignore, other>>, FALSE)},
     c \in {Plain, Text(<<Ignore, other, Dashes, blocking>>, TRUE)}},
   async_defs : {<<>>}, run_calls : {{}}, path : {Src}]

MCPrograms == Staged \cup Commented
  \cup [parses : {FALSE}, lines : {<<Text(<<Ignore, blocking>>, FALSE), Plain>>},
        async_defs : {<<>>}, run_calls : {{}}, path : {Src}]

\* No configuration, one that ignores a rule, one that raises it and lowers the other.
Conf(i, s) == [ignore |-> i, severity |-> s]
MCConfigs == {Conf({}, <<>>), Conf({blocking}, <<>>),
              Conf({}, [r \in Rule |-> IF r = blocking THEN "CRITICAL" ELSE "WARNING"])}

MCDowngrades == {{}, Rule}
MCPolicies == {[fail_on_unused |-> TRUE, fail_on_unjustified |-> TRUE, max_unused |-> NoLimit],
               [fail_on_unused |-> FALSE, fail_on_unjustified |-> FALSE, max_unused |-> 0]}
=============================================================================
