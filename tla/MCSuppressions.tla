--------------------------- MODULE MCSuppressions ---------------------------
EXTENDS Suppressions

CONSTANTS r1, r2, MaxText

MCRule == {r1, r2}

\* Every text of at most MaxText tokens, and two longer ones: a rule id in the
\* justification, and a second directive on the line.
Texts == UNION {[1..n -> Token] : n \in 0..MaxText}
           \cup {<<Ignore, r1, Dashes, r2>>, <<Ignore, r1, IgnoreNextLine, r2>>}

\* All texts in files of at most two lines.
ShortFiles == UNION {[1..n -> [code : BOOLEAN, text : Texts, newline : {TRUE}]] : n \in 0..2}

\* Longer files of the lines a target depends on, and files with form feeds.
PickedTexts == {<<>>, <<Prose>>, <<Ignore, r1>>, <<Ignore, r2>>, <<IgnoreNextLine, r2>>}
LongFiles == [1..3 -> [code : BOOLEAN, text : PickedTexts, newline : {TRUE}]]
FeedFiles == [1..2 -> [code : BOOLEAN, text : PickedTexts, newline : BOOLEAN]]

MCFiles == ShortFiles \cup LongFiles \cup FeedFiles
=============================================================================
