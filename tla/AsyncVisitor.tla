---------------------------- MODULE AsyncVisitor ----------------------------
(***************************************************************************)
(* The depth-first walk every rule is built on (pyvibe/rules/base.py): one *)
(* field, _current_async_func, saved on the way into a function, set, and  *)
(* restored on the way out.  AsyncContextVisitor does so for async defs    *)
(* only; AsyncBlockingCallVisitor also clears the field in sync functions  *)
(* and lambdas.  The calls a rule looks for are reported where the field   *)
(* is set, as in os_blocking.py, asyncio_run.py or httpx_client_sync.py.   *)
(***************************************************************************)
EXTENDS Naturals, Sequences

CONSTANTS Node,     \* nodes of a syntax tree
          Trees,    \* the trees that may be walked
          None,     \* no enclosing async function; also the module's parent
          Unseen    \* the walk has not come to the node
ASSUME NodeAssumption == None \notin Node /\ Unseen \notin Node \cup {None}

\* "call": a call the rule's pattern matches; "other": any other node.
NodeKind == {"async", "def", "lambda", "call", "other"}

\* parent and kind are the tree; head holds the nodes that are a decorator, a
\* default or an annotation of their parent.  scope is no part of the tree but
\* what Python's grammar says of it: the async function whose code the node
\* belongs to, under the reading in force (isolating or not).
Tree == [root : Node, parent : [Node -> Node \cup {None}], kind : [Node -> NodeKind],
         head : SUBSET Node, isolating : BOOLEAN, scope : [Node -> Node \cup {None}]]

\* AsyncBlockingCallVisitor: a nested sync callable is not the coroutine's code.
Clears(t, n) == t.isolating /\ t.kind[n] \in {"def", "lambda"}

\* The scope of what is written inside node n.
Inside(t, n) == IF t.kind[n] = "async" THEN n
                ELSE IF Clears(t, n) THEN None ELSE t.scope[n]

\* The lexical scope rule: the module has none, every other node is in the scope
\* its parent gives to what is inside it.
Lexical(t) ==
  /\ t.parent[t.root] = None /\ t.scope[t.root] = None
  /\ \A n \in Node \ {t.root} : t.parent[n] \in Node /\ t.scope[n] = Inside(t, t.parent[n])

\* Every node can be reached from the module: a set that holds the root and the
\* children of its members holds them all.
Rooted(t) == \A S \in SUBSET Node :
               t.root \in S /\ (\A n \in Node : t.parent[n] \in S => n \in S) => S = Node

ASSUME TreesAssumption == Trees \subseteq Tree /\ \A t \in Trees : Lexical(t) /\ Rooted(t)

VARIABLES tree,     \* the tree being walked
          stack,    \* the visit_ calls that have not returned, outermost first
          current,  \* self._current_async_func
          seen,     \* history: the field's value when the walk came to each node
          flagged   \* self.violations
vars == <<tree, stack, current, seen, flagged>>

\* saved: the local variable `previous`; todo: the children generic_visit has left.
Frame == [node : Node, saved : Node \cup {None}, todo : SUBSET Node]

TypeOK ==
  /\ tree \in Tree /\ Lexical(tree)
  /\ stack \in Seq(Frame)
  /\ current \in Node \cup {None}
  /\ seen \in [Node -> Node \cup {None, Unseen}]
  /\ flagged \subseteq Node

-----------------------------------------------------------------------------
Children(n) == {c \in Node : tree.parent[c] = n}
Top  == stack[Len(stack)]
Rest == SubSeq(stack, 1, Len(stack) - 1)

\* The value the field is given on the way into node n.
MSetOnEntry(n) == IF tree.kind[n] = "async" THEN n ELSE current

SetOnEntry(n) == IF tree.kind[n] = "async" THEN n
                 ELSE IF Clears(tree, n) THEN None ELSE current

MVisitNamesFunction(n, below) ==
  /\ stack' = Append(below, [node |-> n, saved |-> current, todo |-> Children(n)])
  /\ seen' = [seen EXCEPT ![n] = current]
  /\ flagged' = IF tree.kind[n] = "call" THEN flagged \cup {current} ELSE flagged
  /\ current' = SetOnEntry(n)

\* The walk comes to node n, below the frames `below`.
Visit(n, below) ==
  /\ stack' = Append(below, [node |-> n, saved |-> current, todo |-> Children(n)])
  /\ seen' = [seen EXCEPT ![n] = current]
  /\ flagged' = IF tree.kind[n] = "call" /\ current # None THEN flagged \cup {n} ELSE flagged
  /\ current' = SetOnEntry(n)

Init ==
  /\ tree \in Trees
  /\ stack = <<>>
  /\ current = None
  /\ seen = [n \in Node |-> Unseen]
  /\ flagged = {}

\* visitor.visit(tree)
Start ==
  /\ stack = <<>> /\ seen[tree.root] = Unseen
  /\ Visit(tree.root, <<>>)
  /\ UNCHANGED tree

\* generic_visit goes on with the next child.
Descend ==
  /\ stack # <<>> /\ Top.todo # {}
  /\ \E c \in Top.todo : Visit(c, Append(Rest, [Top EXCEPT !.todo = @ \ {c}]))
  /\ UNCHANGED tree

MReturnForgets ==
  /\ stack # <<>> /\ Top.todo = {}
  /\ stack' = Rest
  /\ current' = IF tree.kind[Top.node] = "async" THEN None
                ELSE IF Clears(tree, Top.node) THEN Top.saved ELSE current
  /\ UNCHANGED <<tree, seen, flagged>>

\* The visit_ method returns; those that saved the field restore it.
Return ==
  /\ stack # <<>> /\ Top.todo = {}
  /\ stack' = Rest
  /\ current' = IF tree.kind[Top.node] = "async" \/ Clears(tree, Top.node)
                  THEN Top.saved ELSE current
  /\ UNCHANGED <<tree, seen, flagged>>

Next == Start \/ Descend \/ Return

Spec == Init /\ [][Next]_vars

-----------------------------------------------------------------------------
(***************************************************************************)
(* Properties                                                              *)
(***************************************************************************)

\* At every node the field names the async function whose code the node is
\* part of, however functions, lambdas and classes are nested in each other and
\* whatever has been walked before it.
FieldIsLexicalScope == \A n \in Node : seen[n] # Unseen => seen[n] = tree.scope[n]

\* Once the walk is over every node has been looked at, the field is clear
\* again, and the calls reported are those of async code.
Walked == stack = <<>> /\ seen[tree.root] # Unseen
ReportIsExact ==
  Walked => /\ \A n \in Node : seen[n] # Unseen
            /\ current = None
            /\ flagged = {n \in Node : tree.kind[n] = "call" /\ tree.scope[n] # None}

\* base.py:20: the field is set to the function's name "while visiting its body";
\* decorators and defaults are evaluated where the def statement is.
SetOnlyInBody ==
  \A n \in Node : seen[n] # Unseen /\ n \in tree.head => seen[n] = tree.scope[tree.parent[n]]
=============================================================================
