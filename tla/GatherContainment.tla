------------------------- MODULE GatherContainment -------------------------
(***************************************************************************)
(* When PYVIBE-013 leaves an asyncio.gather() alone                        *)
(* (pyvibe/rules/gather_no_return_exceptions.py, class _Containment): a    *)
(* depth-first search, with a memo, through the functions whose coroutines *)
(* are gathered and those they await, for one that lets an exception out.  *)
(* One stack holds the calls of arg_contained, awaitable_contained,        *)
(* func_contained and walk that have not returned.                         *)
(***************************************************************************)
EXTENDS Naturals, Sequences, FiniteSets

CONSTANTS Node, Name,
          Programs,   \* the modules that may be analysed
          Unknown     \* an awaitable whose form is not understood

\* A function an awaitable names: f(...) or self.f(...), or asyncio.to_thread of
\* one.  sleep() names none; ensure_future, create_task and a nested gather name
\* those of their arguments.
Ref == [how : {"call", "thread"}, self : BOOLEAN, id : Name]

NodeKind == {"module", "class", "def", "lambda", "await", "raise", "call", "try", "handler", "other"}

\* above[n] is n and the nodes that enclose it.  body and final: the statements of a
\* try and of its finally; broad and cancel: the handlers that catch Exception, and
\* those that catch nothing but cancellation.  plain: the defs that are not async.
\* site is the gather call, its refs the gathered awaitables.
Program ==
  [root : Node, site : Node, parent : [Node -> Node], above : [Node -> SUBSET Node],
   kind : [Node -> NodeKind], name : [Node -> Name], refs : [Node -> SUBSET (Ref \cup {Unknown})],
   body : SUBSET Node, final : SUBSET Node, broad : SUBSET Node, cancel : SUBSET Node,
   plain : SUBSET Node, decorated : SUBSET Node]

WellFormed(p) ==
  /\ p.kind[p.root] = "module" /\ p.above[p.root] = {p.root}
  /\ \A n \in Node \ {p.root} :
       p.above[n] = {n} \cup p.above[p.parent[n]] /\ n \notin p.above[p.parent[n]]
  /\ \A n \in Node : \A m \in p.above[n] :
       /\ p.above[m] \subseteq p.above[n]
       /\ m # n => \E c \in p.above[n] \ {p.root} : p.parent[c] = m
  /\ \A n \in p.body \cup p.final : n # p.root /\ p.kind[p.parent[n]] = "try"
  /\ \A n \in Node \ {p.root} : p.kind[n] = "handler" => p.kind[p.parent[n]] = "try"
  /\ \A n \in p.body : p.kind[n] # "handler"
  /\ p.kind[p.site] = "await"

ASSUME ProgramAssumption ==
  /\ IsFiniteSet(Node) /\ Unknown \notin Ref
  /\ Programs \subseteq Program /\ \A p \in Programs : WellFormed(p)

VARIABLES program,  \* the module and the gather call in it
          stack,    \* the calls that have not returned, outermost first
          memo,     \* self._memo
          status    \* "search", "unwind" after a leak, or the answer
vars == <<program, stack, memo, status>>

\* refs is what an await, or the gather itself, has left; todo what any other node has.
\* host: the function being analysed; protected and cancel: the arguments of walk.
Frame == [node : Node, host : Node, protected : BOOLEAN, cancel : BOOLEAN,
          todo : SUBSET Node, refs : SUBSET (Ref \cup {Unknown})]

TypeOK ==
  /\ program \in Program /\ WellFormed(program)
  /\ stack \in Seq(Frame)
  /\ memo \in [Node -> {"none", "contained", "leaks"}]
  /\ status \in {"search", "unwind", "contained", "reported"}

-----------------------------------------------------------------------------
Children(p, n) == {c \in Node \ {p.root} : p.parent[c] = n}
Below(p, n)    == {m \in Node : n \in p.above[m]}
Outside(p, n)  == p.above[n] \ {n}

\* The innermost of some nodes that enclose one another.
Innermost(p, S) == CHOOSE n \in S : S \subseteq p.above[n]

\* _defs_in: the functions of that name whose nearest function, class or module is s.
DefsIn(p, s, id) ==
  {d \in Node : /\ p.kind[d] = "def" /\ p.name[d] = id /\ s \in Outside(p, d)
                /\ \A a \in Outside(p, d) :
                     p.kind[a] \in {"def", "class", "module"} => a \in p.above[s]}

\* _func_stack at the gather call: the functions inside its nearest class, if any.
FuncStack(p) == {f \in p.above[p.site] :
                /\ p.kind[f] = "def"
                /\ \A c \in p.above[p.site] : p.kind[c] = "class" => c \in p.above[f]}

SiteHost(p) == IF FuncStack(p) = {} THEN p.root ELSE Innermost(p, FuncStack(p))

SiteClass(p) == {c \in p.above[p.site] :
                /\ p.kind[c] = "class"
                /\ \A d \in p.above[p.site] : p.kind[d] = "class" => d \in p.above[c]}

\* self._flat: the module's functions, overridden by those of each enclosing one.
Flat(p, id) ==
  LET owners == {f \in FuncStack(p) : DefsIn(p, f, id) # {}}
  IN  DefsIn(p, IF owners = {} THEN p.root ELSE Innermost(p, owners), id)

Candidates(p, r, host) ==
  IF r.self THEN UNION {DefsIn(p, c, r.id) : c \in SiteClass(p)}
  ELSE IF DefsIn(p, host, r.id) # {} THEN DefsIn(p, host, r.id) ELSE Flat(p, r.id)

\* _resolve: {} when there is no such function, several, or a decorated one.
Resolve(p, r, host) ==
  {d \in Candidates(p, r, host) \ p.decorated : Candidates(p, r, host) = {d}}

Handlers(p, t) == {h \in Children(p, t) : p.kind[h] = "handler"}

\* _try_is_swallowing
Swallows(p, t) ==
  /\ Handlers(p, t) \cap p.broad # {}
  /\ \A h \in Handlers(p, t) \ p.cancel : \A m \in Below(p, h) : p.kind[m] # "raise"

\* A finally with a call, an await or a raise in it.
LeakyFinally(p, t) ==
  \E c \in Children(p, t) \cap p.final : \E m \in Below(p, c) : p.kind[m] \in {"call", "await", "raise"}

\* _sync_contains_exceptions
SyncContained(p, f) ==
  /\ f \in p.plain
  /\ \E t \in Children(p, f) : /\ Children(p, f) = {t} /\ p.kind[t] = "try" /\ Swallows(p, t)
                            /\ Children(p, t) \subseteq p.body \cup Handlers(p, t)

Understood(p, r, host) ==
  /\ r # Unknown
  /\ Resolve(p, r, host) # {}
  /\ r.how = "thread" => \A f \in Resolve(p, r, host) : SyncContained(p, f)

-----------------------------------------------------------------------------
Top  == stack[Len(stack)]
Rest == SubSeq(stack, 1, Len(stack) - 1)

\* The arguments of walk for child c of the top frame's node.
ProtectedAt(c) == Top.protected \/ (c \in program.body /\ Swallows(program, Top.node))
CancelAt(c)    == IF program.kind[c] = "handler" THEN c \in program.cancel ELSE Top.cancel

\* Frames at work on a function: the functions of self._inprogress.
InProgress == {f \in Node : program.kind[f] = "def" /\ \E i \in 1..Len(stack) : stack[i].node = f}

Call(f) == [node |-> f, host |-> f, protected |-> FALSE, cancel |-> FALSE,
            todo |-> Children(program, f), refs |-> {}]

Init ==
  /\ program \in Programs
  /\ stack = <<[node |-> program.site, host |-> SiteHost(program), protected |-> FALSE,
                cancel |-> FALSE, todo |-> {}, refs |-> program.refs[program.site]]>>
  /\ memo = [n \in Node |-> "none"]
  /\ status = "search"

Searching == status = "search"
Leaks     == status' = "unwind" /\ UNCHANGED <<program, stack, memo>>
Goes(s)   == stack' = s /\ UNCHANGED <<program, memo, status>>

\* walk() on child c, whose turn it is.
MSkipAnyHandler(c) ==
  /\ \/ program.kind[c] \in {"def", "lambda"}
     \/ program.kind[c] = "raise" /\ (CancelAt(c) \/ program.kind[Top.node] = "handler")
     \/ program.kind[c] = "await" /\ ProtectedAt(c)
  /\ Goes(Append(Rest, [Top EXCEPT !.todo = @ \ {c}]))

Skip(c) ==
  /\ \/ program.kind[c] \in {"def", "lambda"}
     \/ program.kind[c] = "raise" /\ CancelAt(c)
     \/ program.kind[c] = "await" /\ ProtectedAt(c)
  /\ Goes(Append(Rest, [Top EXCEPT !.todo = @ \ {c}]))

Leak(c) ==
  /\ \/ program.kind[c] = "raise" /\ ~CancelAt(c)
     \/ program.kind[c] = "try" /\ LeakyFinally(program, c)
  /\ Leaks

\* An await nobody guards, or a node with others in it.
Enter(c) ==
  /\ \/ program.kind[c] = "await" /\ ~ProtectedAt(c)
     \/ program.kind[c] = "try" /\ ~LeakyFinally(program, c)
     \/ program.kind[c] \in {"class", "call", "handler", "other"}
  /\ Goes(Append(Append(Rest, [Top EXCEPT !.todo = @ \ {c}]),
       [node |-> c, host |-> Top.host, protected |-> ProtectedAt(c), cancel |-> CancelAt(c),
        todo |-> IF program.kind[c] = "await" THEN {} ELSE Children(program, c),
        refs |-> IF program.kind[c] = "await" THEN program.refs[c] ELSE {}]))

Walk == Searching /\ \E c \in Top.todo : Skip(c) \/ Leak(c) \/ Enter(c)

\* awaitable_contained, for one of the functions the awaited expression names, and
\* func_contained, which looks into the memo and at the functions being analysed.
GiveUp(r) ==
  /\ ~ /\ Understood(program, r, Top.host)
       /\ r.how = "call" => \A f \in Resolve(program, r, Top.host) : memo[f] # "leaks"
  /\ Leaks

Known(r) ==
  /\ Understood(program, r, Top.host)
  /\ \/ r.how = "thread"
     \/ \E f \in Resolve(program, r, Top.host) :
          memo[f] = "contained" \/ (memo[f] = "none" /\ f \in InProgress)
  /\ Goes(Append(Rest, [Top EXCEPT !.refs = @ \ {r}]))

MAnalyze(r) ==
  /\ Understood(program, r, Top.host) /\ r.how = "call"
  /\ \E f \in Resolve(program, r, Top.host) :
       /\ memo[f] = "none"
       /\ Goes(Append(Append(Rest, [Top EXCEPT !.refs = @ \ {r}]), Call(f)))

Analyze(r) ==
  /\ Understood(program, r, Top.host) /\ r.how = "call"
  /\ \E f \in Resolve(program, r, Top.host) :
       /\ memo[f] = "none" /\ f \notin InProgress
       /\ Goes(Append(Append(Rest, [Top EXCEPT !.refs = @ \ {r}]), Call(f)))

FollowRef ==
  Searching /\ \E r \in Top.refs : GiveUp(r) \/ Known(r) \/ Analyze(r)

\* A call returns; func_contained keeps its answer.
MEnds(answer, end) ==
  /\ stack' = Rest
  /\ memo' = IF program.kind[Top.node] = "def" THEN [memo EXCEPT ![Top.node] = end] ELSE memo
  /\ status' = IF Len(stack) = 1 THEN end ELSE status
  /\ UNCHANGED program

Ends(answer, end) ==
  /\ stack' = Rest
  /\ memo' = IF program.kind[Top.node] = "def" THEN [memo EXCEPT ![Top.node] = answer] ELSE memo
  /\ status' = IF Len(stack) = 1 THEN end ELSE status
  /\ UNCHANGED program

Return == Searching /\ Top.todo = {} /\ Top.refs = {} /\ Ends("contained", "contained")

\* ok[0] is False, and so is every all(...) on the way out.
Unwind == status = "unwind" /\ Ends("leaks", "reported")

Next == Walk \/ FollowRef \/ Return \/ Unwind

Spec == Init /\ [][Next]_vars

-----------------------------------------------------------------------------
(***************************************************************************)
(* Properties                                                              *)
(***************************************************************************)

\* What belongs to the body of f itself: not the nested functions, nor what is
\* inside an awaited expression or a raise.
OwnNodes(p, f) ==
  {n \in Below(p, f) \ {f} : \A m \in Outside(p, n) \cap (Below(p, f) \ {f}) :
     p.kind[m] \notin {"def", "lambda", "await", "raise"}}

\* Inside f, n is in the body of a try that swallows exceptions.
Guarded(p, f, n) ==
  \E s \in p.above[n] \cap (Below(p, f) \ {f}) : s \in p.body /\ Swallows(p, p.parent[s])

\* Inside f, the nearest handler around n catches nothing but cancellation.
InCancellation(p, f, n) ==
  \E h \in Outside(p, n) \cap (Below(p, f) \ {f}) :
    /\ p.kind[h] = "handler" /\ h \in p.cancel
    /\ \A g \in Outside(p, n) \cap (Below(p, f) \ {f}) : p.kind[g] = "handler" => g \in p.above[h]

FreeAwaits(p, f) == {n \in OwnNodes(p, f) : p.kind[n] = "await" /\ ~Guarded(p, f, n)}

\* f lets an exception out by itself.
LetsOut(p, f) ==
  \/ \E n \in OwnNodes(p, f) : p.kind[n] = "raise" /\ ~InCancellation(p, f, n)
  \/ \E n \in OwnNodes(p, f) : p.kind[n] = "try" /\ LeakyFinally(p, n)
  \/ \E n \in FreeAwaits(p, f) : \E r \in p.refs[n] : ~Understood(p, r, f)

Calls(p, refs, host) == UNION {Resolve(p, r, host) : r \in {q \in refs : q # Unknown /\ q.how = "call"}}

\* No member lets an exception out, and none awaits a function outside.
Closed(p, S) ==
  \A f \in S : ~LetsOut(p, f) /\ \A n \in FreeAwaits(p, f) : Calls(p, p.refs[n], f) \subseteq S

\* The gathered functions belong to a closed set: nothing they can reach leaks.
Contained(p) ==
  /\ \A r \in p.refs[p.site] : Understood(p, r, SiteHost(p))
  /\ \E S \in SUBSET {d \in Node : p.kind[d] = "def"} :
       Closed(p, S) /\ Calls(p, p.refs[p.site], SiteHost(p)) \subseteq S

\* The answer is the greatest fixed point: "contained" exactly when no function
\* that can be reached lets an exception out, although a function met again while
\* it is being analysed counts as contained and what is concluded from that is
\* kept in the memo.
VerdictIsExact ==
  /\ status = "contained" => Contained(program)
  /\ status = "reported" => ~Contained(program)

\* Recursion ends: a function is never begun while it is being analysed, nor
\* after it has been.
EachFunctionOnce ==
  /\ \A i, j \in 1..Len(stack) :
       i # j /\ program.kind[stack[i].node] = "def" => stack[i].node # stack[j].node
  /\ \A i \in 1..Len(stack) : program.kind[stack[i].node] = "def" => memo[stack[i].node] = "none"
=============================================================================
