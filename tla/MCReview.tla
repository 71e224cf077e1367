------------------------------ MODULE MCReview ------------------------------
EXTENDS Review

CONSTANTS f1, f2, f3, old, oldBad, new, newBad

MCFile == {f1, f2, f3}
MCOldLine == {old, oldBad}
MCNewLine == {new, newBad}
MCBadLine == {oldBad, newBad}

Src(l) == [present |-> TRUE, parses |-> TRUE, lines |-> l]

\* f1 varies; f2 may be broken or deleted; f3 is excluded and full of findings.
MCWorktrees ==
  {[f \in MCFile |-> IF f = f1 THEN a ELSE IF f = f2 THEN b ELSE Src(<<newBad>>)] :
     a \in {Src(l) : l \in UNION {[1..n -> MCOldLine \cup MCNewLine] : n \in 0..2}},
     b \in {Src(<<newBad, oldBad>>), [Src(<<newBad>>) EXCEPT !.parses = FALSE],
            [Src(<<old>>) EXCEPT !.present = FALSE]}}
=============================================================================
