---------------------------- MODULE ContextRules ----------------------------
(***************************************************************************)
(* The rules that judge a node by what encloses it: silent_except.py       *)
(* (PYVIBE-017), while_true_no_await.py (018), retry_no_backoff.py (019)   *)
(* and queue_put_nowait.py (020).  Each keeps its context in fields that   *)
(* visit_ methods set on the way in and restore on the way out.  The four  *)
(* walks visit the same nodes and share nothing, so one walk has them all. *)
(***************************************************************************)
EXTENDS Naturals, Sequences, FiniteSets

CONSTANTS Node,   \* nodes of a syntax tree
          Trees   \* the trees that may be walked
ASSUME NodeAssumption == IsFiniteSet(Node)

NodeKind == {"module", "async", "def", "lambda", "class", "for", "asyncfor", "while", "try",
             "handler", "if", "call", "await", "asyncwith", "yield", "raise", "break", "return",
             "continue", "increment", "other"}

\* What the rules read off a node.  body, last: it is a statement of its parent's
\* body, and the last one.  retry: for attempt in range(N).  forever: while True.
\* sleep, timeout, put: a call that sleeps or backs off, has timeout=, is put_nowait.
\* bare, base, exception, full, timeout: what a handler catches (timeout: nothing
\* but TimeoutError).  nosec: # nosec B110.  pass: pass or ...; alone: a raise
\* without an exception.  absent: if x not in y.  star: a try with except*, which 019
\* and 020 do not look at.
Mark == {"body", "last", "retry", "forever", "sleep", "timeout", "put", "bare", "base",
         "exception", "full", "nosec", "pass", "alone", "absent", "star"}

\* above[n] is n and the nodes that enclose it.  broad is --report-broad-except.
Tree == [root : Node, parent : [Node -> Node], above : [Node -> SUBSET Node],
         kind : [Node -> NodeKind], marks : [Node -> SUBSET Mark], broad : BOOLEAN]

WellFormed(t) ==
  /\ t.above[t.root] = {t.root} /\ t.kind[t.root] = "module"
  /\ \A n \in Node \ {t.root} : /\ t.above[n] = {n} \cup t.above[t.parent[n]]
                                /\ n \notin t.above[t.parent[n]]
                                /\ t.kind[n] = "handler" => t.kind[t.parent[n]] = "try"

ASSUME TreesAssumption == Trees \subseteq Tree /\ \A t \in Trees : WellFormed(t)

VARIABLES tree,    \* the tree being walked
          stack,   \* the visit_ calls that have not returned, outermost first
          ctx,     \* the fields of the visitors
          flagged  \* the rules' violations
vars == <<tree, stack, ctx, flagged>>

\* async: _current_async_func of 018 and 019, _in_async of 017.  gen:
\* _current_func_is_async_gen.  loops: _retry_loop_stack.  reraising:
\* _reraising_handlers.  protected: _protected_depth.
Context == [async : BOOLEAN, gen : BOOLEAN, loops : Seq(BOOLEAN), reraising : Nat, protected : Nat]
Frame   == [node : Node, saved : Context, todo : SUBSET Node]

TypeOK ==
  /\ tree \in Tree
  /\ stack \in Seq(Frame)
  /\ ctx \in Context
  /\ flagged \subseteq {"017", "018", "019", "020"} \X Node

-----------------------------------------------------------------------------
Children(t, n) == {c \in Node \ {t.root} : t.parent[c] = n}
Below(t, n)    == {m \in Node : n \in t.above[m]}

\* The nodes of n's body, without what is inside one of the kinds `stops`.
Reached(t, n, stops) ==
  {m \in Node : \E c \in Children(t, n) : /\ "body" \in t.marks[c] /\ c \in t.above[m]
                                          /\ \A k \in (t.above[m] \ {m}) \cap Below(t, c) : t.kind[k] \notin stops}

Functions == {"async", "def", "lambda"}
Scopes    == Functions \cup {"class"}
Loops     == {"for", "asyncfor", "while"}
Calls(t, nodes, mark) == {m \in nodes : t.kind[m] = "call" /\ mark \in t.marks[m]}
Handlers(t, n) == {h \in Children(t, n) : t.kind[h] = "handler"}

\* PYVIBE-019, _check_handler: ends with continue, does not sleep, has no if with a
\* raise or break in it, and is no poll.
RetriesAtOnce(t, h) ==
  /\ "star" \notin t.marks[t.parent[h]]
  /\ \E c \in Children(t, h) : t.kind[c] = "continue" /\ {"body", "last"} \subseteq t.marks[c]
  /\ Calls(t, Reached(t, h, {}), "sleep") = {}
  /\ \A m \in Reached(t, h, {}) : t.kind[m] = "if" => \A k \in Below(t, m) : t.kind[k] \notin {"raise", "break"}
  /\ "timeout" \in t.marks[h] => Calls(t, Reached(t, t.parent[h], {}), "timeout") = {}

\* PYVIBE-018: an infinite loop without an await, and no search for a free name: one
\* that counts up and leaves only where `x not in y`.
Leaving(t, n) == {m \in Reached(t, n, Loops \cup Scopes) : t.kind[m] \in {"return", "break"}}
FreeNameSearch(t, w) ==
  LET own == Reached(t, w, Loops \cup Scopes)
  IN  /\ \E m \in own : t.kind[m] = "increment"
      /\ Leaving(t, w) # {}
      /\ \A e \in Leaving(t, w) : \E b \in own :
           t.kind[b] = "if" /\ "absent" \in t.marks[b] /\ e \in Leaving(t, b)
Spins(t, w) ==
  /\ t.kind[w] = "while" /\ "forever" \in t.marks[w]
  /\ \A m \in Reached(t, w, {"def", "async"}) : t.kind[m] # "await"
  /\ ~FreeNameSearch(t, w)
Yields(t, f) == \E m \in Reached(t, f, {"def", "async"}) : t.kind[m] = "yield"

\* PYVIBE-017: an empty handler; the ones that catch everything count in async code
\* where the try can be suspended.
Suspends(t, n) == \E m \in Reached(t, n, Scopes) : t.kind[m] \in {"await", "asyncfor", "asyncwith"}
Silences(t, h, async) ==
  /\ \A c \in Children(t, h) : "body" \in t.marks[c] => "pass" \in t.marks[c]
  /\ "nosec" \notin t.marks[h]
  /\ IF {"bare", "base"} \cap t.marks[h] # {} THEN async /\ Suspends(t, t.parent[h])
     ELSE "exception" \in t.marks[h] /\ t.broad
Reraises(t, h) ==
  \E c \in Children(t, h) : t.kind[c] = "raise" /\ {"body", "last", "alone"} \subseteq t.marks[c]

\* PYVIBE-020, _catches_queuefull
CatchesFull(t, n) ==
  /\ t.kind[n] = "try" /\ "star" \notin t.marks[n]
  /\ \E h \in Handlers(t, n) : t.marks[h] \cap {"bare", "exception", "full"} # {}
Shields(t, n) == n # t.root /\ "body" \in t.marks[n] /\ CatchesFull(t, t.parent[n])

-----------------------------------------------------------------------------
Top  == stack[Len(stack)]
Rest == SubSeq(stack, 1, Len(stack) - 1)
Function(n)   == tree.kind[n] \in Functions
PushesLoop(n) == tree.kind[n] \in {"for", "while"}
Reraising(n)  == IF tree.kind[n] = "handler" /\ Reraises(tree, n) THEN 1 ELSE 0
Shielding(n)  == IF Shields(tree, n) THEN 1 ELSE 0

\* The fields on the way into node n.
MEntered(n) ==
  [async     |-> IF Function(n) THEN tree.kind[n] = "async" ELSE ctx.async,
   gen       |-> IF Function(n) THEN tree.kind[n] = "async" /\ Yields(tree, n) ELSE ctx.gen,
   loops     |-> IF PushesLoop(n) THEN Append(ctx.loops, tree.kind[n] = "for" /\ "retry" \in tree.marks[n])
                 ELSE ctx.loops,
   reraising |-> IF Function(n) THEN 0 ELSE ctx.reraising + Reraising(n),
   protected |-> ctx.protected + Shielding(n)]

Entered(n) ==
  [async     |-> IF Function(n) THEN tree.kind[n] = "async" ELSE ctx.async,
   gen       |-> IF Function(n) THEN tree.kind[n] = "async" /\ Yields(tree, n) ELSE ctx.gen,
   loops     |-> IF Function(n) THEN <<>>
                 ELSE IF PushesLoop(n) THEN Append(ctx.loops, tree.kind[n] = "for" /\ "retry" \in tree.marks[n])
                 ELSE ctx.loops,
   reraising |-> IF Function(n) THEN 0 ELSE ctx.reraising + Reraising(n),
   protected |-> ctx.protected + Shielding(n)]

\* ... and on the way out, where the functions have kept theirs.
MLeft(n, saved) ==
  [async     |-> IF Function(n) THEN saved.async ELSE ctx.async,
   gen       |-> IF Function(n) THEN saved.gen ELSE ctx.gen,
   loops     |-> IF Function(n) THEN saved.loops
                 ELSE IF PushesLoop(n) THEN SubSeq(ctx.loops, 1, Len(ctx.loops) - 1) ELSE ctx.loops,
   reraising |-> IF Function(n) THEN saved.reraising ELSE ctx.reraising - Reraising(n),
   protected |-> IF n # tree.root /\ "body" \in tree.marks[n] /\ tree.kind[tree.parent[n]] = "try"
                 THEN ctx.protected - 1 ELSE ctx.protected]

Left(n, saved) ==
  [async     |-> IF Function(n) THEN saved.async ELSE ctx.async,
   gen       |-> IF Function(n) THEN saved.gen ELSE ctx.gen,
   loops     |-> IF Function(n) THEN saved.loops
                 ELSE IF PushesLoop(n) THEN SubSeq(ctx.loops, 1, Len(ctx.loops) - 1) ELSE ctx.loops,
   reraising |-> IF Function(n) THEN saved.reraising ELSE ctx.reraising - Reraising(n),
   protected |-> ctx.protected - Shielding(n)]

InRetryLoop == ctx.loops # <<>> /\ ctx.loops[Len(ctx.loops)]

MSpinning(n) == ctx.async /\ Spins(tree, n)

Spinning(n) == ctx.async /\ ~ctx.gen /\ Spins(tree, n)

Silencing(n) == tree.kind[n] = "handler" /\ ctx.reraising = 0 /\ Silences(tree, n, ctx.async)
Unguarded(n) == Calls(tree, {n}, "put") # {} /\ Entered(n).protected = 0

\* What the four rules report at node n; 019 does so at the try.
Reports(n) ==
  {<<"019", h>> : h \in {h \in Handlers(tree, n) : ctx.async /\ InRetryLoop /\ RetriesAtOnce(tree, h)}}
  \cup (IF Spinning(n) THEN {<<"018", n>>} ELSE {})
  \cup (IF Silencing(n) THEN {<<"017", n>>} ELSE {})
  \cup (IF Unguarded(n) THEN {<<"020", n>>} ELSE {})

Visit(n, below) ==
  /\ stack' = Append(below, [node |-> n, saved |-> ctx, todo |-> Children(tree, n)])
  /\ ctx' = Entered(n)
  /\ flagged' = flagged \cup Reports(n)
  /\ UNCHANGED tree

NoContext == [async |-> FALSE, gen |-> FALSE, loops |-> <<>>, reraising |-> 0, protected |-> 0]

\* visitor.visit(tree)
Init ==
  /\ tree \in Trees
  /\ stack = <<[node |-> tree.root, saved |-> NoContext, todo |-> Children(tree, tree.root)]>>
  /\ ctx = NoContext
  /\ flagged = {}

Descend ==
  /\ stack # <<>>
  /\ \E c \in Top.todo : Visit(c, Append(Rest, [Top EXCEPT !.todo = @ \ {c}]))

Return ==
  /\ stack # <<>> /\ Top.todo = {}
  /\ stack' = Rest /\ ctx' = Left(Top.node, Top.saved)
  /\ UNCHANGED <<tree, flagged>>

Next == Descend \/ Return

Spec == Init /\ [][Next]_vars

-----------------------------------------------------------------------------
(***************************************************************************)
(* Properties                                                              *)
(***************************************************************************)

\* Of the nodes around a place, `around`: those of its own function, the function.
OwnFunction(t, around) ==
  {f \in around : t.kind[f] \in Functions /\ \A g \in around : t.kind[g] \in Functions => g \in t.above[f]}
Local(t, around) == {m \in around : m \notin OwnFunction(t, around) /\ OwnFunction(t, around) \subseteq t.above[m]}

InCoroutine(t, around) == \E f \in OwnFunction(t, around) : t.kind[f] = "async"
InGenerator(t, around) == \E f \in OwnFunction(t, around) : t.kind[f] = "async" /\ Yields(t, f)
InRetry(t, around) ==
  \E l \in Local(t, around) : /\ t.kind[l] = "for" /\ "retry" \in t.marks[l]
                              /\ \A k \in Local(t, around) : t.kind[k] \in {"for", "while"} => k \in t.above[l]
InReraising(t, around) == \E h \in Local(t, around) : t.kind[h] = "handler" /\ Reraises(t, h)

\* The fields say what encloses the place the walk is at, whatever it has walked
\* before: the coroutine and the loop are the innermost ones, neither loops nor
\* handlers of an outer function count, and no counter drifts.
ContextIsLexical ==
  stack # <<>> =>
    LET around == tree.above[Top.node]
    IN  /\ ctx.async = InCoroutine(tree, around)
        /\ ctx.gen = InGenerator(tree, around)
        /\ InRetryLoop <=> InRetry(tree, around)
        /\ ctx.reraising > 0 <=> InReraising(tree, around)
        /\ ctx.protected > 0 <=> \E n \in around : Shields(tree, n)

\* A finished walk leaves the fields as they were and has reported exactly the
\* handlers, loops and calls that their surroundings condemn.
ReportIsExact ==
  stack = <<>> =>
    /\ ctx = NoContext
    /\ \A n \in Node :
         LET around == tree.above[n] \ {n}
         IN  /\ <<"019", n>> \in flagged <=> /\ tree.kind[n] = "handler" /\ RetriesAtOnce(tree, n)
                                            /\ InCoroutine(tree, around) /\ InRetry(tree, around)
             /\ <<"018", n>> \in flagged <=> /\ Spins(tree, n)
                                            /\ InCoroutine(tree, around) /\ ~InGenerator(tree, around)
             /\ <<"017", n>> \in flagged <=> /\ tree.kind[n] = "handler" /\ ~InReraising(tree, around)
                                            /\ Silences(tree, n, InCoroutine(tree, around))
             /\ <<"020", n>> \in flagged <=> /\ Calls(tree, {n}, "put") # {}
                                            /\ \A m \in tree.above[n] : ~Shields(tree, m)

\* retry_no_backoff.py:181: "`continue` resumes the innermost loop": a handler is
\* reported when the loop that its continue resumes is a retry loop.
Resumes(t, h, l) ==
  /\ l \in Local(t, t.above[h]) /\ t.kind[l] \in Loops
  /\ \E c \in t.above[h] : c \in Children(t, l) /\ "body" \in t.marks[c]
  /\ \A k \in Local(t, t.above[h]) :
       t.kind[k] \in Loops /\ (\E c \in t.above[h] : c \in Children(t, k) /\ "body" \in t.marks[c]) => k \in t.above[l]
ContinueRetries ==
  \A h \in Node : <<"019", h>> \in flagged => \E l \in Node : Resumes(tree, h, l) /\ "retry" \in tree.marks[l]
=============================================================================
