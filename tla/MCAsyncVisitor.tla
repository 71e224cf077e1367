--------------------------- MODULE MCAsyncVisitor ---------------------------
EXTENDS AsyncVisitor

CONSTANT Size      \* nodes of a tree; they are numbered so that a parent comes first

MCNode == 1..Size

Parents == {p \in [MCNode -> MCNode \cup {None}] :
              p[1] = None /\ \A n \in MCNode \ {1} : p[n] \in 1..(n - 1)}
Kinds   == {k \in [MCNode -> NodeKind] : k[1] = "other"}
Functions(k) == {n \in MCNode : k[n] \in {"async", "def", "lambda"}}

\* Node 1 is the module; a function's children may be in its head.
Shapes == UNION {[root : {1}, parent : {p}, kind : {k}, isolating : BOOLEAN,
                  head : SUBSET {n \in MCNode \ {1} : p[n] \in Functions(k)}] :
                 p \in Parents, k \in Kinds}

\* The scope of each node, from the parents down.
ScopeIn(s) ==
  LET f[n \in MCNode] ==
        IF n = 1 THEN None
        ELSE LET p == s.parent[n]
             IN  IF s.kind[p] = "async" THEN p
                 ELSE IF s.isolating /\ s.kind[p] \in {"def", "lambda"} THEN None ELSE f[p]
  IN  f

MCTrees == {[root |-> s.root, parent |-> s.parent, kind |-> s.kind, head |-> s.head,
             isolating |-> s.isolating, scope |-> ScopeIn(s)] : s \in Shapes}
=============================================================================
