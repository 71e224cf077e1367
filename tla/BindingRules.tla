---------------------------- MODULE BindingRules ----------------------------
(***************************************************************************)
(* The rules that look a call up: by the names its receiver is written     *)
(* with (PYVIBE-001, 003, 010 to 012 and 014 to 016), by the names the     *)
(* file's imports have bound so far (002, 004, 008, and 005 at the end),   *)
(* or by what becomes of its result in the rest of the function (006, 007, *)
(* 009).  The walks visit the same nodes in the order of the source and    *)
(* share nothing, so one walk has them all.                                *)
(***************************************************************************)
EXTENDS Integers, Sequences

CONSTANTS Size,        \* nodes of a tree, numbered in the order of the source
          Trees,
          Celery,      \* celery and the modules below it
          Frameworks,  \* the other task frameworks and the modules below them
          CeleryLike,  \* names and dotted paths with "celery" in them
          AppLike      \* names with "app" in them

Node == 1..Size

NodeKind == {"module", "async", "def", "lambda", "class", "import", "from", "assign", "with", "try",
             "call", "use", "yield", "other"}

\* import `module` as `name`; from `module` import `attr` as `name`; `name` = <value>;
\* with <value> as `name`; a call or a use of `name`, or of `name`.`attr`; a function
\* under the decorator @`name` or @`name`.`attr`.  "" is for what is not there.
\* value, receiver, argument, finally: what the node is to its parent.  discarded: an
\* expression statement.  limit: time_limit= or soft_time_limit=.  nohang: os.WNOHANG.
Tree == [kind : [Node -> NodeKind], parent : [Node -> Node], above : [Node -> SUBSET Node],
         name : [Node -> STRING], attr : [Node -> STRING], module : [Node -> STRING],
         marks : [Node -> SUBSET {"value", "receiver", "argument", "finally", "discarded", "limit", "nohang"}]]

Preorder(t) ==
  /\ t.kind[1] = "module" /\ t.above[1] = {1}
  /\ \A n \in Node \ {1} : /\ t.parent[n] < n /\ t.above[n] = {n} \cup t.above[t.parent[n]]
                           /\ \A m \in t.parent[n]..(n - 1) : t.parent[n] \in t.above[m]

ASSUME TreesAssumption ==
  /\ Size \in Nat \ {0} /\ Trees \subseteq Tree /\ \A t \in Trees : Preorder(t)
  /\ \A t \in Trees, n \in Node : t.kind[n] \notin {"import", "from"} => t.module[n] = ""
  /\ "" \notin Celery \cup Frameworks

VARIABLES tree,    \* the tree being walked
          stack,   \* the visit_ calls that have not returned, outermost first
          scope,   \* the fields that are restored on the way out of a function
          file,    \* the fields that only grow
          flagged  \* the rules' violations
vars == <<tree, stack, scope, file, flagged>>

-----------------------------------------------------------------------------
Functions == {"async", "def", "lambda"}
Children(t, n) == {c \in Node \ {1} : t.parent[c] = n}
Below(t, n)    == {m \in Node : n \in t.above[m]}

\* What is inside n, but not inside (nor itself) one of the kinds `stops`.
Inside(t, n, stops) ==
  {m \in Below(t, n) \ {n} : \A k \in (t.above[m] \cap Below(t, n)) \ {n} : t.kind[k] \notin stops}

Calls(t, n, name, attr) == t.kind[n] = "call" /\ t.name[n] = name /\ t.attr[n] = attr
Method(t, n, attrs)     == t.kind[n] = "call" /\ t.attr[n] \in attrs

\* The rules that know a call by its text.
AsyncSleep(t, n)       == Calls(t, n, "time", "sleep")
AsyncioRun(t, n)       == Calls(t, n, "asyncio", "run")
HttpxSync(t, n)        == t.name[n] = "httpx" /\ Method(t, n, {"get", "post"})
OsBlocking(t, n)       == \/ t.name[n] = "os" /\ Method(t, n, {"system", "popen"})
                          \/ Calls(t, n, "os", "waitpid") /\ "nohang" \notin t.marks[n]
RunUntilComplete(t, n) == Method(t, n, {"run_until_complete"})
HttpxClientSync(t, n)  == Calls(t, n, "httpx", "Client")
CreateTask(t, n)       == Calls(t, n, "asyncio", "create_task") /\ "discarded" \in t.marks[n]
EnsureFuture(t, n)     == Calls(t, n, "asyncio", "ensure_future") /\ "discarded" \in t.marks[n]

ByText(t, n) ==
  (IF AsyncSleep(t, n) THEN {"001"} ELSE {}) \cup (IF AsyncioRun(t, n) THEN {"003"} ELSE {})
  \cup (IF HttpxSync(t, n) THEN {"010"} ELSE {}) \cup (IF OsBlocking(t, n) THEN {"011"} ELSE {})
  \cup (IF RunUntilComplete(t, n) THEN {"015"} ELSE {}) \cup (IF HttpxClientSync(t, n) THEN {"016"} ELSE {})
Discarded(t, n) ==
  (IF CreateTask(t, n) THEN {"012"} ELSE {}) \cup (IF EnsureFuture(t, n) THEN {"014"} ELSE {})

\* The rules that know a library by the names bound to it, and what they look for.
Requests  == [rule |-> "002", module |-> "requests", attrs |-> {"get", "post"}, bare |-> FALSE]
Threading == [rule |-> "004", module |-> "threading", attrs |-> {"Lock", "RLock"}, bare |-> TRUE]
Sqlite3   == [rule |-> "008", module |-> "sqlite3", attrs |-> {"connect"}, bare |-> TRUE]
Library   == {Requests, Threading, Sqlite3}

VisitImport(t, n, lib)     == t.kind[n] = "import" /\ t.module[n] = lib.module
VisitImportFrom(t, n, lib) == t.kind[n] = "from" /\ t.module[n] = lib.module /\ lib.bare /\ t.attr[n] \in lib.attrs

\* PYVIBE-007, _PopenUsage: the calls of Popen in f itself that f waits for, at once
\* or through a name.
Popen(t, n) == Calls(t, n, "subprocess", "Popen")
Waits(t, n) == Method(t, n, {"wait", "communicate"})
MBlockingPopens(t, f) ==
  LET own == Inside(t, f, {"def", "lambda"})
  IN  {p \in own : /\ Popen(t, p)
                   /\ \/ "receiver" \in t.marks[p] /\ Waits(t, t.parent[p])
                      \/ /\ "value" \in t.marks[p] /\ t.name[t.parent[p]] # ""
                         /\ \E w \in own : Waits(t, w) /\ t.name[w] = t.name[t.parent[p]]}

BlockingPopens(t, f) ==
  LET own == Inside(t, f, Functions)
  IN  {p \in own : /\ Popen(t, p)
                   /\ \/ "receiver" \in t.marks[p] /\ Waits(t, t.parent[p])
                      \/ /\ "value" \in t.marks[p] /\ t.name[t.parent[p]] # ""
                         /\ \E w \in own : Waits(t, w) /\ t.name[w] = t.name[t.parent[p]]}

\* PYVIBE-009: every mention of the handle in the body of the with w is `name.method`
\* handed to a thread.
Open(t, n) == Calls(t, n, "open", "")
Offloads(t, n) == Calls(t, n, "asyncio", "to_thread") \/ Method(t, n, {"run_in_executor"})
Mentions(t, w) ==
  {m \in Below(t, w) \ {w} : /\ \A k \in t.above[m] \cap Children(t, w) : "value" \notin t.marks[k]
                             /\ t.kind[m] \in {"call", "use", "assign", "with"} /\ t.name[m] = t.name[w]}
HandleOnlyDelegated(t, w) ==
  /\ Mentions(t, w) # {}
  /\ \A m \in Mentions(t, w) : /\ t.kind[m] = "use" /\ t.attr[m] # "" /\ "argument" \in t.marks[m]
                               /\ Offloads(t, t.parent[m])

\* PYVIBE-006
Shallow(t, f) == Inside(t, f, {"async", "def", "class"})
ContextVarNames(t) ==
  {t.name[a] : a \in {a \in Node : t.kind[a] = "assign" /\ \E c \in Children(t, a) :
                        "value" \in t.marks[c] /\ (Calls(t, c, "ContextVar", "") \/ Calls(t, c, "contextvars", "ContextVar"))}}
SetCall(t, n)      == Method(t, n, {"set"}) /\ t.name[n] \in ContextVarNames(t)
FinallyReset(t, n) == t.kind[n] = "try" /\ \E c \in Children(t, n) :
                        "finally" \in t.marks[c] /\ \E m \in Below(t, c) : Method(t, m, {"reset"})
LeavesContext(t, f) ==
  t.kind[f] = "async" /\ \A m \in Shallow(t, f) : t.kind[m] # "yield" /\ ~FinallyReset(t, m)
FirstSet(t, f) ==
  {n \in Shallow(t, f) : SetCall(t, n) /\ \A m \in Shallow(t, f) : SetCall(t, m) => n <= m}

\* PYVIBE-005, _is_task_decorator and _has_time_limit, once the whole file is read.
Imported(from, name) == \E b \in from.imported : b[1] = name
ModuleOf(from, name) == (CHOOSE b \in from.imported : b[1] = name)[2]
TaskReceiver(from, name) ==
  \/ from.celery
  \/ IF Imported(from, name) THEN ModuleOf(from, name) \in CeleryLike ELSE name \in AppLike \cup CeleryLike
Unlimited(t, from, f) ==
  /\ from.other => from.celery
  /\ \/ t.name[f] = "shared_task" /\ t.attr[f] = ""
     \/ t.attr[f] = "task" /\ t.name[f] # "" /\ TaskReceiver(from, t.name[f])
  /\ "limit" \notin t.marks[f]
-----------------------------------------------------------------------------
Top  == stack[Len(stack)]
Rest == SubSeq(stack, 1, Len(stack) - 1)

\* async: _current_async_func of the blocking-call rules.  task: that of 012 and
\* 014, which nested sync functions leave alone.  popens: _blocking_popen_ids.
Entered(n) ==
  [async  |-> IF tree.kind[n] \in Functions THEN tree.kind[n] = "async" ELSE scope.async,
   task   |-> scope.task \/ tree.kind[n] = "async",
   popens |-> IF tree.kind[n] = "async" THEN BlockingPopens(tree, n) ELSE scope.popens]

MLeft(n, saved) ==
  [async  |-> IF tree.kind[n] \in Functions THEN saved.async ELSE scope.async,
   task   |-> IF tree.kind[n] = "async" THEN saved.task ELSE scope.task,
   popens |-> IF tree.kind[n] = "async" THEN {} ELSE scope.popens]

Left(n, saved) ==
  [async  |-> IF tree.kind[n] \in Functions THEN saved.async ELSE scope.async,
   task   |-> IF tree.kind[n] = "async" THEN saved.task ELSE scope.task,
   popens |-> IF tree.kind[n] = "async" THEN saved.popens ELSE scope.popens]

\* _imported_from: the last import of a name counts.
MVisitImported(n) ==
  IF tree.kind[n] \notin {"import", "from"} THEN file.imported
  ELSE file.imported \cup {<<tree.name[n], tree.module[n]>>}

VisitImported(n) ==
  IF tree.kind[n] \notin {"import", "from"} THEN file.imported
  ELSE {b \in file.imported : b[1] # tree.name[n]} \cup {<<tree.name[n], tree.module[n]>>}

VisitWith(n) ==
  {c \in Children(tree, n) : /\ scope.async /\ tree.kind[n] = "with" /\ tree.name[n] # ""
                             /\ "value" \in tree.marks[c] /\ Open(tree, c) /\ HandleOnlyDelegated(tree, n)}

\* modules, bare: the alias sets of 002, 004 and 008.  delegated: of 009.  The rest:
\* of 005.
Collected(n) ==
  [modules   |-> file.modules \cup {<<lib.rule, tree.name[n]>> : lib \in {l \in Library : VisitImport(tree, n, l)}},
   bare      |-> file.bare \cup {<<lib.rule, tree.name[n]>> : lib \in {l \in Library : VisitImportFrom(tree, n, l)}},
   delegated |-> file.delegated \cup VisitWith(n),
   imported  |-> VisitImported(n),
   celery    |-> file.celery \/ tree.module[n] \in Celery,
   other     |-> file.other \/ tree.module[n] \in Frameworks,
   defs      |-> IF tree.kind[n] \in {"def", "async"} THEN file.defs \cup {n} ELSE file.defs]

\* _get_requests_method, _is_sqlite_connect, _get_threading_primitive
ByImport(n, lib) ==
  /\ tree.kind[n] = "call"
  /\ \/ tree.attr[n] \in lib.attrs /\ <<lib.rule, tree.name[n]>> \in file.modules
     \/ tree.attr[n] = "" /\ <<lib.rule, tree.name[n]>> \in file.bare

SubprocessMethod(n) ==
  \/ tree.name[n] = "subprocess" /\ Method(tree, n, {"run", "call", "check_output"})
  \/ Popen(tree, n) /\ n \in scope.popens

\* What visit_Call, visit_Expr and visit_AsyncFunctionDef report at node n.
Reports(n) ==
  (IF ~scope.async THEN {} ELSE
     {<<rule, n>> : rule \in ByText(tree, n)
                     \cup {lib.rule : lib \in {l \in Library : ByImport(n, l)}}
                     \cup (IF SubprocessMethod(n) THEN {"007"} ELSE {})
                     \cup (IF ~Open(tree, n) THEN {} ELSE IF n \in file.delegated THEN {"009 WARNING"} ELSE {"009"})})
  \cup (IF scope.task THEN Discarded(tree, n) \X {n} ELSE {})
  \cup (IF LeavesContext(tree, n) THEN {"006"} \X FirstSet(tree, n) ELSE {})

Visit(n, below) ==
  /\ stack' = Append(below, [node |-> n, saved |-> scope, todo |-> Children(tree, n)])
  /\ scope' = Entered(n)
  /\ file' = Collected(n)
  /\ flagged' = flagged \cup Reports(n)
  /\ UNCHANGED tree

NoScope == [async |-> FALSE, task |-> FALSE, popens |-> {}]
Empty   == [modules |-> {}, bare |-> {}, delegated |-> {}, imported |-> {}, celery |-> FALSE, other |-> FALSE, defs |-> {}]

\* visitor.visit(tree)
Init ==
  /\ tree \in Trees
  /\ stack = <<[node |-> 1, saved |-> NoScope, todo |-> Children(tree, 1)]>>
  /\ scope = NoScope /\ file = Empty
  /\ flagged = {}

Descend ==
  /\ stack # <<>>
  /\ \E c \in Top.todo : /\ \A d \in Top.todo : c <= d
                         /\ Visit(c, Append(Rest, [Top EXCEPT !.todo = @ \ {c}]))

Return ==
  /\ Len(stack) > 1 /\ Top.todo = {}
  /\ stack' = Rest /\ scope' = Left(Top.node, Top.saved)
  /\ UNCHANGED <<tree, file, flagged>>

\* CeleryTaskTimeLimitRule.visit_Module
CheckTasks ==
  /\ Len(stack) = 1 /\ Top.todo = {}
  /\ stack' = <<>>
  /\ flagged' = flagged \cup {<<"005", f>> : f \in {f \in file.defs : Unlimited(tree, file, f)}}
  /\ UNCHANGED <<tree, scope, file>>

Next == Descend \/ Return \/ CheckTasks

Spec == Init /\ [][Next]_vars

-----------------------------------------------------------------------------
(***************************************************************************)
(* Properties                                                              *)
(***************************************************************************)

RuleId == {"001", "002", "003", "004", "005", "006", "007", "008", "009", "009 WARNING", "010",
           "011", "012", "014", "015", "016"}
TypeOK ==
  /\ tree \in Tree
  /\ stack \in Seq([node : Node, todo : SUBSET Node,
                    saved : [async : BOOLEAN, task : BOOLEAN, popens : SUBSET Node]])
  /\ scope \in [async : BOOLEAN, task : BOOLEAN, popens : SUBSET {n \in Node : Popen(tree, n)}]
  /\ file.delegated \subseteq {n \in Node : Open(tree, n)}
  /\ \A b, c \in file.imported : b[1] = c[1] => b = c
  /\ file.defs \subseteq Node
  /\ flagged \subseteq RuleId \X Node

\* The functions around node n, from the innermost.
Enclosing(n) == {f \in tree.above[n] \ {n} : tree.kind[f] \in Functions}
Innermost(n, f) == f \in Enclosing(n) /\ \A g \in Enclosing(n) : g <= f
InCoroutine(n) == \E f \in Node : Innermost(n, f) /\ tree.kind[f] = "async"
SameFunction(m, n) == \A f \in Node : Innermost(m, f) <=> Innermost(n, f)

\* Wherever the walk is, the field restored by the functions is that of the place:
\* the ids of the Popen calls to report belong to the innermost async function.
ScopeIsLexical ==
  \A i \in 1..Len(stack) : i = Len(stack) =>
    LET around == {f \in tree.above[Top.node] : tree.kind[f] = "async"}
    IN  /\ scope.task <=> around # {}
        /\ around = {} => scope.popens = {}
        /\ \A f \in around : (\A g \in around : g <= f) => scope.popens = BlockingPopens(tree, f)

\* PYVIBE-002, 004, 008: an import counts from its line on, for the whole rest of the
\* file, in whatever function it is.
Known(n, lib) ==
  \E i \in 1..(n - 1) : /\ tree.name[i] = tree.name[n]
                        /\ \/ tree.attr[n] \in lib.attrs /\ VisitImport(tree, i, lib)
                           \/ tree.attr[n] = "" /\ VisitImportFrom(tree, i, lib)

\* PYVIBE-007: somebody waits for the child in the very function that starts it.
WaitedFor(p) ==
  \E w \in Node : /\ Waits(tree, w) /\ SameFunction(w, p)
                  /\ \/ "receiver" \in tree.marks[p] /\ w = tree.parent[p]
                     \/ "value" \in tree.marks[p] /\ tree.name[w] = tree.name[tree.parent[p]] /\ tree.name[w] # ""

\* PYVIBE-005: the imports count wherever they are in the file, and of two that
\* bind one name the later.
Imports == {i \in Node : tree.kind[i] \in {"import", "from"}}
LastImport(name) == {i \in Imports : tree.name[i] = name /\ \A j \in Imports : tree.name[j] = name => j <= i}
CeleryTask(f) ==
  /\ tree.kind[f] \in {"def", "async"}
  /\ (\E i \in Imports : tree.module[i] \in Celery) \/ \A i \in Imports : tree.module[i] \notin Frameworks
  /\ \/ tree.name[f] = "shared_task" /\ tree.attr[f] = ""
     \/ /\ tree.name[f] # "" /\ tree.attr[f] = "task"
        /\ \/ \E i \in Imports : tree.module[i] \in Celery
           \/ LastImport(tree.name[f]) = {} /\ tree.name[f] \in AppLike \cup CeleryLike
           \/ \E i \in LastImport(tree.name[f]) : tree.module[i] \in CeleryLike

\* PYVIBE-006: n is the first set of the coroutine f it is written in, and f neither
\* yields nor resets anything in a finally.
Holds(f, n) ==
  LET around == {g \in tree.above[n] \ {n} : tree.kind[g] \in {"async", "def", "class"}}
  IN  f \in around /\ \A g \in around : g <= f
Leaks(n, f) ==
  /\ Holds(f, n) /\ tree.kind[f] = "async"
  /\ \A m \in Node : Holds(f, m) => /\ SetCall(tree, m) => n <= m
                                    /\ tree.kind[m] # "yield" /\ ~FinallyReset(tree, m)

\* A finished walk has left no field behind and has reported exactly the calls, the
\* functions and the tasks that the file as a whole condemns.
ReportIsExact ==
  stack = <<>> =>
    /\ scope = NoScope
    /\ \A n \in Node :
         /\ \A lib \in Library :
              <<lib.rule, n>> \in flagged <=> tree.kind[n] = "call" /\ InCoroutine(n) /\ Known(n, lib)
         /\ <<"007", n>> \in flagged <=>
              /\ InCoroutine(n)
              /\ \/ tree.name[n] = "subprocess" /\ Method(tree, n, {"run", "call", "check_output"})
                 \/ Popen(tree, n) /\ WaitedFor(n)
         /\ <<"009", n>> \in flagged \/ <<"009 WARNING", n>> \in flagged <=> InCoroutine(n) /\ Open(tree, n)
         /\ <<"009 WARNING", n>> \in flagged <=>
              /\ InCoroutine(n) /\ Open(tree, n) /\ "value" \in tree.marks[n]
              /\ LET w == tree.parent[n]
                 IN  tree.kind[w] = "with" /\ tree.name[w] # "" /\ HandleOnlyDelegated(tree, w)
         /\ ~ {<<"009", n>>, <<"009 WARNING", n>>} \subseteq flagged
         /\ <<"005", n>> \in flagged <=> CeleryTask(n) /\ "limit" \notin tree.marks[n]
         /\ <<"006", n>> \in flagged <=> SetCall(tree, n) /\ \E f \in Node : Leaks(n, f)
         /\ \A rule \in {"001", "003", "010", "011", "015", "016"} :
              <<rule, n>> \in flagged <=> rule \in ByText(tree, n) /\ InCoroutine(n)
         /\ \A rule \in {"012", "014"} :
              <<rule, n>> \in flagged <=>
                rule \in Discarded(tree, n) /\ \E f \in Enclosing(n) : tree.kind[f] = "async"

\* async_requests.py:66: "only flag when the receiver name is known to be bound to the
\* `requests` module".  A name that the function assigns is its own variable.
ReceiverIsTheModule ==
  \A n, a \in Node : /\ <<"002", n>> \in flagged
                     /\ tree.kind[a] = "assign" /\ tree.name[a] = tree.name[n] /\ SameFunction(a, n)
                     => \E i \in Imports : tree.name[i] = tree.name[n] /\ SameFunction(i, n)
=============================================================================
