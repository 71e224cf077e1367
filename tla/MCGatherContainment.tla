------------------------ MODULE MCGatherContainment ------------------------
EXTENDS GatherContainment, TLC

(***************************************************************************)
(* Nodes: 1 the module; 2, 3, 4 the functions f, g, h; 5 the coroutine     *)
(* main with the gather call 6; 7 a second g inside main.  Each of f, g, h *)
(* and of the inner g has four nodes of its own: 10 n .. 10 n + 3.         *)
(***************************************************************************)
Own(n)  == (10 * n)..(10 * n + 3)
MCNode  == (1..7) \cup UNION {Own(n) : n \in {2, 3, 4, 7}}
MCName  == {"f", "g", "h", "main"}
Call_(id)   == [how |-> "call", self |-> FALSE, id |-> id]
Thread(id)  == [how |-> "thread", self |-> FALSE, id |-> id]

\* A body: the kinds and parents (0 the function) of its nodes, and what they are.
Body(k, p, b, fi, br, ca, r) ==
  [kind |-> k, parent |-> p, body |-> b, final |-> fi, broad |-> br, cancel |-> ca, refs |-> r]

\* await a; await b
TwoAwaits(a, b) == Body(<<"await", "await", "other", "other">>, <<0, 0, 0, 0>>, {}, {}, {}, {},
                        <<a, b, {}, {}>>)
\* try: await a  except <h>: <kind> b
Try(a, h, k, b) ==
  Body(<<"try", "await", "handler", k>>, <<0, 1, 1, 3>>, {2}, {},
       IF h = "broad" THEN {3} ELSE {}, IF h = "cancel" THEN {3} ELSE {}, <<{}, a, {}, b>>)
\* try: await a  except Exception: ...  finally: <kind>
Finally(a, k) == Body(<<"try", "await", "handler", k>>, <<0, 1, 1, 1>>, {2}, {4}, {3}, {},
                      <<{}, a, {}, {}>>)
\* def g(): await a   then await b, and a raise in a lambda or a statement
Nested(a, k, b) == Body(<<"def", "await", k, "await">>, <<0, 1, 0, 0>>, {}, {}, {}, {}, <<{}, a, {}, b>>)

f == {Call_("f")}
g == {Call_("g")}
h == {Call_("h")}
unknown == {Unknown}
Plain == TwoAwaits({}, {})

FBodies == {TwoAwaits(g, g \cup h), Try(g, "broad", "raise", {}), Try(g, "broad", "await", h),
            Try(h, "cancel", "raise", {}), Try(g, "other", "raise", {}), Finally(g, "call"),
            Nested(unknown, "lambda", g)}
GBodies == {TwoAwaits(f, h), TwoAwaits(f, unknown), Try(unknown, "broad", "await", f), Try(f, "cancel", "raise", {}),
            Finally(f, "other"), TwoAwaits({Thread("h")}, {}), Plain}
HBodies == {Plain, TwoAwaits(f, {}), TwoAwaits(unknown, {}), Try({}, "broad", "call", {}), Try({}, "broad", "raise", {}),
            Try(f, "cancel", "raise", {})}

\* Where the gather call is, and where the inner g and h are.
Layouts == {"module", "inner", "class"}

ParentIn(layout, bodies) == [n \in MCNode |->
  CASE n \in {1, 2, 3} -> 1
    [] n = 4 -> IF layout = "class" THEN 7 ELSE 1
    [] n = 5 -> IF layout = "class" THEN 7 ELSE 1
    [] n = 6 -> 5
    [] n = 7 -> IF layout = "inner" THEN 5 ELSE 1
    [] OTHER -> LET owner == n \div 10
                    up    == bodies[owner].parent[(n % 10) + 1]
                IN  IF up = 0 THEN owner ELSE 10 * owner + up - 1]

\* A statement that is not numbered in a body belongs to no set.
Marked(bodies, S(_)) == {n \in MCNode : n > 9 /\ (n % 10) + 1 \in S(bodies[n \div 10])}

\* A function TLC computes once and not at each application.
Table(fcn) == fcn @@ <<>>

ProgramOf(layout, bodies, plain, args) ==
  LET parent == Table(ParentIn(layout, bodies))
      above[n \in MCNode] == IF n = 1 THEN {1} ELSE {n} \cup above[parent[n]]
  IN  [root |-> 1, site |-> 6, parent |-> parent, above |-> Table(above),
       kind |-> Table([n \in MCNode |->
         CASE n = 1 -> "module" [] n \in 2..5 -> "def" [] n = 6 -> "await"
           [] n = 7 -> IF layout = "inner" THEN "def" ELSE IF layout = "class" THEN "class" ELSE "other"
           [] OTHER -> bodies[n \div 10].kind[(n % 10) + 1]]),
       name |-> Table([n \in MCNode |-> CASE n = 2 -> "f" [] n = 4 -> "h" [] n = 5 -> "main" [] OTHER -> "g"]),
       refs |-> Table([n \in MCNode |-> IF n = 6 THEN args ELSE
                   IF n > 9 THEN bodies[n \div 10].refs[(n % 10) + 1] ELSE {}]),
       body |-> Marked(bodies, LAMBDA b : b.body), final |-> Marked(bodies, LAMBDA b : b.final),
       broad |-> Marked(bodies, LAMBDA b : b.broad), cancel |-> Marked(bodies, LAMBDA b : b.cancel),
       plain |-> plain, decorated |-> {}]

Args == {f, f \cup g, {[how |-> "call", self |-> TRUE, id |-> "h"]}}

MCPrograms ==
  {ProgramOf(layout, (2 :> fb) @@ (3 :> gb) @@ (4 :> hb) @@ (7 :> Plain), {4}, args) :
     layout \in Layouts, fb \in FBodies, gb \in GBodies, hb \in HBodies, args \in Args}
=============================================================================
