----------------------------- MODULE MCBaseline -----------------------------
EXTENDS Baseline, TLC

CONSTANTS p1, p2, rule, old, newer

MCFile == {1, 2}
MCRule == {rule}
MCSpelling == {"src/", "/w/src/"}

\* The findings on line 2 are of the opt-in kind.
MCOptIn == {v \in Finding : v.line = 2}

Cmd(k, s, f, b) == [kind |-> k, spelling |-> s, selected |-> f, broad |-> b]

\* Two processes, which are interchangeable: every kind of command on the whole
\* tree, and scans of one file only, with --report-broad-except, and with the target
\* written as an absolute path.
MCCommands == {Cmd(k, "src/", MCFile, FALSE) : k \in Kind}
              \cup {Cmd("scan", "src/", {1}, FALSE), Cmd("scan", "src/", MCFile, TRUE),
                    Cmd("scan", "/w/src/", MCFile, FALSE)}
Symmetry == Permutations({p1, p2})
=============================================================================
