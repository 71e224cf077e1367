--------------------------- MODULE MCContextRules ---------------------------
EXTENDS ContextRules, TLC

(***************************************************************************)
(* A tree is three layers of two or three nodes, one in the other, around  *)
(* a piece of code of up to six nodes; the same piece stands once more     *)
(* beside the second layer, to be met before or after it.                  *)
(***************************************************************************)
MCNode == 1..22
Layers == {2, 5, 8}

B == {"body"}
L == {"body", "last"}
N(k, p, m) == [kind |-> k, parent |-> p, marks |-> m]

\* The nodes of a layer; a parent is a place in it, and 0 what is around it.  The
\* next layer is in the second node if the third is beside it, or in the third.
Plain(k, m) == <<N(k, 0, B \cup m), N("other", 1, B), N("other", 2, B)>>
Wraps == {Plain("async", {}), Plain("def", {}), Plain("lambda", {}), Plain("for", {"retry"}),
          Plain("while", {}), Plain("asyncfor", {}),
          <<N("for", 0, B \cup {"retry"}), N("other", 1, {}), N("other", 2, B)>>,
          <<N("try", 0, B), N("other", 1, B), N("handler", 1, {"full"})>>,
          <<N("try", 0, B), N("handler", 1, {"exception"}), N("raise", 2, L \cup {"alone"})>>}

\* try: await x  except <h>: <statements>
Try(h, a, b) == <<N("try", 0, B), N("await", 1, B), N("handler", 1, h), N(a[1], 3, a[2]), N(b[1], 3, b[2]),
                  N("call", 2, {"timeout"})>>
Silent == Try({"exception"}, <<"other", B \cup {"pass"}>>, <<"other", L \cup {"pass"}>>)
PieceOf ==
  {Silent, Try({"exception"}, <<"other", B>>, <<"continue", L>>),
   Try({"exception"}, <<"call", B \cup {"sleep"}>>, <<"continue", L>>),
   Try({"timeout"}, <<"other", B>>, <<"continue", L>>),
   Try({"bare"}, <<"other", B \cup {"pass"}>>, <<"other", L \cup {"pass"}>>),
   <<N("try", 0, B \cup {"star"}), N("call", 1, B \cup {"put"}), N("handler", 1, {"full"}),
     N("continue", 3, L), N("other", 3, B), N("other", 1, B)>>,
   Try({"base", "nosec"}, <<"call", B \cup {"put"}>>, <<"continue", B>>),
   <<N("while", 0, B \cup {"forever"}), N("if", 1, B \cup {"absent"}), N("break", 2, B), N("increment", 1, B),
     N("if", 1, B), N("other", 5, B)>>,
   <<N("while", 0, B \cup {"forever"}), N("if", 1, B), N("return", 2, B), N("increment", 1, B),
     N("call", 1, B \cup {"put"}), N("lambda", 1, B)>>,
   <<N("while", 0, B \cup {"forever"}), N("other", 1, B), N("yield", 0, B), N("try", 0, B),
     N("call", 4, B \cup {"put"}), N("handler", 4, {"full"})>>}

At(n, i) == n + i - 1
Inner(wraps, l) == LET g == wraps[(l + 1) \div 3] IN IF g[3].kind = "other" THEN l + 2 ELSE l + 1

\* Node n of the tree, as the list of nodes it belongs to gives it.
Given(wraps, piece, n) ==
  IF n = 1 THEN N("module", 1, {})
  ELSE IF n < 11
    THEN LET l == IF n < 5 THEN 2 ELSE IF n < 8 THEN 5 ELSE 8
             g == wraps[(l + 1) \div 3][n - l + 1]
         IN  [g EXCEPT !.parent = IF @ = 0 THEN IF l = 2 THEN 1 ELSE Inner(wraps, l - 3) ELSE At(l, @)]
    ELSE LET p == IF n < 17 THEN 11 ELSE 17
             g == piece[n - p + 1]
         IN  [g EXCEPT !.parent = IF @ = 0 THEN Inner(wraps, IF p = 11 THEN 8 ELSE 2) ELSE At(p, @)]

Table(f) == f @@ <<>>
TreeOf(wraps, piece, broad) ==
  LET given  == Table([n \in MCNode |-> Given(wraps, piece, n)])
      above[n \in MCNode] == IF n = 1 THEN {1} ELSE {n} \cup above[given[n].parent]
  IN  [root |-> 1, parent |-> Table([n \in MCNode |-> given[n].parent]), above |-> Table(above),
       kind |-> Table([n \in MCNode |-> given[n].kind]), marks |-> Table([n \in MCNode |-> given[n].marks]),
       broad |-> broad]

MCTrees == {TreeOf(<<a, b, c>>, piece, broad) :
              a \in {Plain("async", {}), Plain("for", {"retry"})}, b \in Wraps, c \in Wraps,
              piece \in PieceOf, broad \in {FALSE}}
           \cup {TreeOf(<<Plain("async", {}), b, c>>, Silent, TRUE) : b \in Wraps, c \in Wraps}
=============================================================================
