--------------------------- MODULE MCBindingRules ---------------------------
EXTENDS BindingRules, TLC

(***************************************************************************)
(* A tree is written as the list of its nodes in the order of the source,  *)
(* each with its depth.  A file has two scopes, one in the other, and      *)
(* places for a piece of code before, in, between and after them.          *)
(***************************************************************************)
MCSize == 21
MCCelery == {"celery"}
MCFrameworks == {"huey"}
MCCeleryLike == {"celery", "proj.celery", "celery_app"}
MCAppLike == {"app", "celery_app"}

N(d, k, name, attr, m) == <<[depth |-> d, kind |-> k, name |-> name, attr |-> attr, module |-> "", marks |-> m]>>
Call(d, name, attr, m) == N(d, "call", name, attr, m)
Import(module, name)   == <<[depth |-> 0, kind |-> "import", name |-> name, attr |-> "", module |-> module, marks |-> {}]>>
From(module, attr, name) ==
  <<[depth |-> 0, kind |-> "from", name |-> name, attr |-> attr, module |-> module, marks |-> {}]>>

Async == N(0, "async", "", "", {})
Scopes == {Async, N(0, "def", "", "", {}), N(0, "class", "", "", {})}
Lambda == N(0, "lambda", "", "", {})
V == {"value"}

\* A name is bound to a library, or to another one; a call goes to the name.
Uses == Call(0, "x", "get", {}) \o Call(0, "x", "", {})
Bindings == {Import("requests", "x"), Import("sqlite3", "x"), From("threading", "Lock", "x"), From("requests", "get", "x"),
             N(0, "assign", "x", "", {})}

\* A child is started, kept, and waited for; the handle of a file is used.
Started == N(0, "assign", "p", "", {}) \o Call(1, "subprocess", "Popen", V)
Chained == Call(0, "", "wait", {}) \o Call(1, "subprocess", "Popen", {"receiver"})
Managed == N(0, "with", "p", "", {}) \o Call(1, "subprocess", "Popen", V)
Waited  == Call(0, "p", "wait", {})
Handed  == Call(0, "asyncio", "to_thread", {}) \o N(1, "use", "f", "read", {"argument"})
Read    == Call(0, "f", "read", {})
Bare    == Call(0, "loop", "run_in_executor", {}) \o N(1, "use", "f", "", {"argument"})
Opened  == Call(0, "open", "", {})

\* A context variable is declared, set, and reset in a finally.
Declared == N(0, "assign", "v", "", {}) \o Call(1, "contextvars", "ContextVar", V)
Set      == Call(0, "v", "set", {})
Finally(m) == N(0, "try", "", "", {}) \o N(1, "other", "", "", m) \o Call(2, "v", "reset", {})
Yielded  == N(0, "yield", "", "", {})

\* Calls known by their text.
Texts == {Call(0, "time", "sleep", {}), Call(0, "asyncio", "run", {}), Call(0, "httpx", "get", {}),
          Call(0, "os", "waitpid", {}), Call(0, "os", "waitpid", {"nohang"}), Call(0, "loop", "run_until_complete", {}),
          Call(0, "httpx", "Client", {}), Call(0, "asyncio", "create_task", {"discarded"}),
          Call(0, "asyncio", "ensure_future", {"discarded"}), Call(0, "asyncio", "create_task", {}),
          Call(0, "subprocess", "run", {})}

Table(f) == f @@ <<>>
Deeper(code, by) == Table([i \in 1..Len(code) |-> [code[i] EXCEPT !.depth = @ + by]])

\* a; scope s: (b; scope t: c; d); e
File(s, t, a, b, c, d, e) ==
  N(0, "module", "", "", {}) \o Deeper(a, 1) \o Deeper(s, 1) \o Deeper(b, 2) \o Deeper(t, 2)
  \o Deeper(c, 3) \o Deeper(d, 2) \o Deeper(e, 1)

With(body) == N(0, "with", "f", "", {}) \o Call(1, "open", "", V) \o Deeper(body, 1)
Handles == {Handed, Read, Bare, Handed \o Read, Handed \o Lambda \o Deeper(Read, 1), Opened, With(Handed)}

Task(k, name, attr, m) == N(0, k, name, attr, m)
Tasks == {Task("def", "app", "task", {}), Task("async", "x", "task", {}), Task("def", "x", "task", {"limit"}),
          Task("def", "shared_task", "", {}), Task("def", "celery_app", "task", {}), Task("def", "app", "command", {})}
Makers == {Import("celery", "celery"), Import("huey", "x"), From("proj.celery", "app", "x"), From("proj.celery", "app", "app"),
           From("proj", "app", "app"), From("proj", "y", "x")}

Nothing == <<>>
Codes ==
  {File(s, t, bind[1], bind[2] \o Uses, bind[3] \o Uses, Uses, bind[4] \o Uses) :
     s \in Scopes, t \in Scopes,
     bind \in {[[k \in 1..4 |-> Nothing] EXCEPT ![i] = x, ![j] = y] : i, j \in 1..4, x \in Bindings, y \in Bindings}}
  \cup {File(s, Lambda, Import("requests", "x"), Uses, Uses, Uses, Uses) : s \in Scopes}
  \cup {File(s, t, Nothing, b, c, d, e) : s \in Scopes, t \in Scopes, b \in {Started, Waited, Chained},
          c \in {Started, Waited, Chained, Started \o Waited, Managed \o Deeper(Waited, 1),
                Async \o Deeper(Started \o Waited, 1)},
          d \in {Started, Waited, Started \o Waited}, e \in {Nothing, Async \o Deeper(Started, 1)}}
  \cup {File(s, t, Nothing, b, With(c), With(d), Nothing) : s \in Scopes, t \in Scopes,
          b \in {Nothing, Opened}, c \in Handles, d \in Handles}
  \cup {File(s, t, a, b, c, d, e) : s \in Scopes, t \in Scopes \cup {Lambda}, a \in {Nothing, Declared},
          b \in {Nothing, Set, Finally({"finally"})}, c \in {Set, Yielded},
          d \in {Set, Yielded, Finally({"finally"}), Finally({})}, e \in {Nothing, Declared}}
  \cup {File(s, t, Nothing, x, x, x, x) : s \in Scopes, t \in Scopes \cup {Lambda}, x \in Texts}
  \cup {File(s, t, a, b, Nothing, d, e) : s \in Tasks, t \in {Async} \cup {Task("def", "x", "task", {})},
          a \in {Nothing} \cup Makers, b \in {Nothing, Import("huey", "x")}, d \in {Nothing}, e \in {Nothing} \cup Makers}

\* Short files end with nodes that mean nothing.
TreeOf(code) ==
  LET padded == Table(code \o [i \in 1..(MCSize - Len(code)) |-> N(1, "other", "", "", {})[1]])
      parent == Table([n \in Node |-> IF n = 1 THEN 1 ELSE CHOOSE p \in 1..(n - 1) :
                          /\ padded[p].depth = padded[n].depth - 1
                          /\ \A q \in (p + 1)..(n - 1) : padded[q].depth >= padded[n].depth])
      above[n \in Node] == IF n = 1 THEN {1} ELSE {n} \cup above[parent[n]]
  IN  [kind   |-> Table([n \in Node |-> padded[n].kind]),   parent |-> parent, above |-> Table(above),
       name   |-> Table([n \in Node |-> padded[n].name]),   attr   |-> Table([n \in Node |-> padded[n].attr]),
       module |-> Table([n \in Node |-> padded[n].module]), marks  |-> Table([n \in Node |-> padded[n].marks])]

MCTrees == {TreeOf(code) : code \in Codes}
=============================================================================
