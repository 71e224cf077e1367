------------------------- MODULE BindingRulesProofs -------------------------
(***************************************************************************)
(* For files of any size and nesting: the fields that the functions        *)
(* restore say at every moment which coroutine the walk is in, and the     *)
(* rules report exactly what the file as a whole condemns.                 *)
(***************************************************************************)
EXTENDS BindingRules, SequenceTheorems, WellFoundedInduction, TLAPS

\* The least-number principle, from the well-foundedness of < on Nat.
LEMMA LeastOf ==
  ASSUME NEW T \in SUBSET Nat, T # {}
  PROVE  \E m \in T : \A k \in T : m <= k
<1>1. PICK m \in T : \A k \in T : <<k, m>> \notin OpToRel(<, Nat)
  BY NatLessThanWellFounded, WFMin
<1>2. \A k \in T : ~ (k < m)
  BY <1>1 DEF OpToRel
<1> QED BY <1>2

-----------------------------------------------------------------------------
(***************************************************************************)
(* Trees, numbered in the order of the source                              *)
(***************************************************************************)
LEMMA TreeTypes ==
  ASSUME NEW t \in Trees
  PROVE  /\ t \in Tree /\ 1 \in Node /\ Node \subseteq Nat
         /\ t.kind \in [Node -> NodeKind] /\ t.parent \in [Node -> Node]
         /\ t.above \in [Node -> SUBSET Node]
         /\ t.kind[1] = "module" /\ t.above[1] = {1}
         /\ \A n \in Node \ {1} :
              /\ t.parent[n] \in Node /\ t.parent[n] < n
              /\ t.above[n] = {n} \cup t.above[t.parent[n]]
              /\ \A m \in t.parent[n]..(n - 1) : t.parent[n] \in t.above[m]
         /\ \A n \in Node : n \in t.above[n] /\ t.above[n] \subseteq Node
<1>1. t \in Tree /\ Preorder(t) /\ Size \in Nat \ {0}
  BY TreesAssumption
<1>2. 1 \in Node /\ Node \subseteq Nat
  BY <1>1 DEF Node
<1>3. t.kind \in [Node -> NodeKind] /\ t.parent \in [Node -> Node] /\ t.above \in [Node -> SUBSET Node]
  BY <1>1 DEF Tree
<1>4. \A n \in Node \ {1} :
        /\ t.parent[n] \in Node /\ t.parent[n] < n
        /\ t.above[n] = {n} \cup t.above[t.parent[n]]
        /\ \A m \in t.parent[n]..(n - 1) : t.parent[n] \in t.above[m]
  BY <1>1, <1>3 DEF Preorder
<1>5. t.kind[1] = "module" /\ t.above[1] = {1}
  BY <1>1 DEF Preorder
<1>6. \A n \in Node : n \in t.above[n] /\ t.above[n] \subseteq Node
  BY <1>3, <1>4, <1>5
<1> QED BY <1>1, <1>2, <1>3, <1>4, <1>5, <1>6

\* A set that holds the module and the children of its members holds every node.
LEMMA TreeInduction ==
  ASSUME NEW t \in Trees, NEW S \in SUBSET Node, 1 \in S,
         \A n \in Node \ {1} : t.parent[n] \in S => n \in S
  PROVE  S = Node
<1> SUFFICES ASSUME Node \ S # {} PROVE FALSE
  OBVIOUS
<1>1. Node \ S \in SUBSET Nat
  BY TreeTypes
<1>2. PICK m \in Node \ S : \A k \in Node \ S : m <= k
  BY <1>1, LeastOf
<1>3. m # 1 /\ t.parent[m] \in Node /\ t.parent[m] < m /\ t.parent[m] \in Nat /\ m \in Nat
  BY TreeTypes
<1>4. t.parent[m] \notin S
  BY <1>2, <1>3
<1> QED BY <1>2, <1>3, <1>4

\* above goes up to the module, over smaller numbers.
LEMMA AboveIsUpwards ==
  ASSUME NEW t \in Trees, NEW n \in Node
  PROVE  1 \in t.above[n] /\ \A m \in t.above[n] : m <= n /\ t.above[m] \subseteq t.above[n]
<1> DEFINE S == {x \in Node : 1 \in t.above[x] /\ \A m \in t.above[x] :
                                                    m <= x /\ t.above[m] \subseteq t.above[x]}
<1>1. 1 \in S
  BY TreeTypes
<1>2. ASSUME NEW x \in Node \ {1}, t.parent[x] \in S PROVE x \in S
  <2> DEFINE p == t.parent[x]
  <2>1. /\ p \in Node /\ p < x /\ t.above[x] = {x} \cup t.above[p] /\ p \in Nat /\ x \in Nat
        /\ t.above[p] \subseteq Nat
    BY TreeTypes
  <2>2. \A m \in t.above[p] : m <= p /\ t.above[m] \subseteq t.above[p] /\ m \in Nat
    BY <1>2, <2>1
  <2>3. 1 \in t.above[p]
    BY <1>2
  <2> HIDE DEF p
  <2>4. \A m \in t.above[x] : m <= x /\ t.above[m] \subseteq t.above[x]
    BY <2>1, <2>2
  <2> QED BY <2>1, <2>3, <2>4
<1>3. S \in SUBSET Node
  OBVIOUS
<1> HIDE DEF S
<1>4. S = Node
  BY <1>1, <1>2, <1>3, TreeInduction
<1> QED BY <1>4 DEF S

\* What is inside a node comes directly after it.
LEMMA InsideIsInterval ==
  ASSUME NEW t \in Trees, NEW m \in Node, NEW q \in t.above[m], NEW x \in q..m
  PROVE  x \in Node /\ q \in t.above[x]
<1> DEFINE S == {n \in Node : \A y \in t.above[n] : \A z \in y..n : z \in Node /\ y \in t.above[z]}
<1>1. 1 \in S
  BY TreeTypes
<1>2. ASSUME NEW n \in Node \ {1}, t.parent[n] \in S PROVE n \in S
  <2> DEFINE p == t.parent[n]
  <2>1. /\ p \in Node /\ p < n /\ t.above[n] = {n} \cup t.above[p] /\ n \in Node
        /\ \A k \in p..(n - 1) : p \in t.above[k]
        /\ Node \subseteq Nat /\ t.above[p] \subseteq Node /\ n \in t.above[n]
    BY TreeTypes
  <2>2. \A y \in t.above[p] : \A z \in y..p : z \in Node /\ y \in t.above[z]
    BY <1>2
  <2> HIDE DEF p
  <2>3. ASSUME NEW y \in t.above[n], NEW z \in y..n
        PROVE  z \in Node /\ y \in t.above[z]
    <3>1. p \in Nat /\ n \in Nat /\ y \in Nat /\ z \in Nat /\ y <= z /\ z <= n
      <4>1. p \in Nat /\ n \in Nat /\ y \in Nat
        BY <2>1
      <4> QED BY <4>1
    <3>2. CASE z = n
      BY <2>1, <3>2
    <3>3. CASE z # n /\ z <= p
      <4>1. y \in t.above[p] /\ z \in y..p
        BY <2>1, <3>1, <3>3
      <4> QED BY <2>2, <4>1
    <3>4. CASE z # n /\ ~(z <= p)
      <4>1. y \in t.above[p] /\ z \in p..(n - 1)
        BY <2>1, <3>1, <3>4
      <4>2. z \in Node
        <5>1. n \in 1..Size /\ p \in 1..Size /\ Size \in Nat
          BY <2>1, TreesAssumption DEF Node
        <5>2. z \in 1..Size
          BY <3>1, <3>4, <5>1
        <5> QED BY <5>2 DEF Node
      <4>3. p \in t.above[z]
        BY <2>1, <4>1
      <4>4. y \in t.above[z]
        BY <4>1, <4>2, <4>3, AboveIsUpwards
      <4> QED BY <4>2, <4>4
    <3> QED BY <3>2, <3>3, <3>4
  <2>4. \A y \in t.above[n] : \A z \in y..n : z \in Node /\ y \in t.above[z]
    BY <2>3
  <2> QED BY <2>1, <2>4
<1>3. S \in SUBSET Node
  OBVIOUS
<1> HIDE DEF S
<1>4. S = Node
  BY <1>1, <1>2, <1>3, TreeInduction
<1> QED BY <1>4 DEF S

\* From a node to one inside it the way goes through a child.
LEMMA ChildTowards ==
  ASSUME NEW t \in Trees, NEW m \in Node, NEW n \in t.above[m], n # m
  PROVE  \E c \in Children(t, n) : c \in t.above[m]
<1> DEFINE S == {x \in Node : \A y \in t.above[x] \ {x} : \E c \in Children(t, y) : c \in t.above[x]}
<1>1. 1 \in S
  BY TreeTypes
<1>2. ASSUME NEW x \in Node \ {1}, t.parent[x] \in S PROVE x \in S
  <2> SUFFICES ASSUME NEW y \in t.above[x] \ {x}
               PROVE  \E c \in Children(t, y) : c \in t.above[x]
    OBVIOUS
  <2>1. t.parent[x] \in Node /\ t.above[x] = {x} \cup t.above[t.parent[x]]
    BY TreeTypes
  <2>2. CASE y = t.parent[x]
    BY <2>1, <2>2 DEF Children
  <2>3. CASE y # t.parent[x]
    BY <1>2, <2>1, <2>3
  <2> QED BY <2>2, <2>3
<1>3. S \in SUBSET Node
  OBVIOUS
<1> HIDE DEF S
<1>4. S = Node
  BY <1>1, <1>2, <1>3, TreeInduction
<1> QED BY <1>4 DEF S

\* What is above a child is above its parent, and the child itself.
LEMMA AboveChild ==
  ASSUME NEW t \in Trees, NEW n \in Node \ {1}
  PROVE  /\ t.above[n] \ {n} = t.above[t.parent[n]] /\ t.parent[n] \in Node
         /\ \A m \in t.above[t.parent[n]] : m < n /\ m \in Node
<1>1. /\ t.parent[n] \in Node /\ t.parent[n] < n /\ t.above[n] = {n} \cup t.above[t.parent[n]]
      /\ Node \subseteq Nat /\ t.above[t.parent[n]] \subseteq Node
  BY TreeTypes
<1>2. \A m \in t.above[t.parent[n]] : m <= t.parent[n]
  BY <1>1, AboveIsUpwards
<1>3. \A m \in t.above[t.parent[n]] : m < n /\ m \in Node
  <2> TAKE m \in t.above[t.parent[n]]
  <2>1. m <= t.parent[n] /\ m \in Nat /\ t.parent[n] \in Nat /\ n \in Nat
    BY <1>1, <1>2
  <2> QED BY <1>1, <2>1
<1>4. n \notin t.above[t.parent[n]]
  <2>1. n \in Nat
    BY <1>1
  <2> QED BY <1>3, <2>1
<1> QED BY <1>1, <1>3, <1>4

-----------------------------------------------------------------------------
(***************************************************************************)
(* What a place is in, from what its parent is in                          *)
(***************************************************************************)

\* The innermost of the nodes above n (n among them) of one of the kinds.
Nearest(n, kinds, f) == /\ f \in tree.above[n] /\ tree.kind[f] \in kinds
                        /\ \A g \in tree.above[n] : tree.kind[g] \in kinds => g <= f

\* What the fields should say inside node n.
Lexical(n) ==
  [async  |-> \E f \in Node : Nearest(n, Functions, f) /\ tree.kind[f] = "async",
   task   |-> \E f \in tree.above[n] : tree.kind[f] = "async",
   popens |-> {p \in Node : \E f \in Node : Nearest(n, {"async"}, f) /\ p \in BlockingPopens(tree, f)}]

\* Innermost is the node itself, if it is of the kind, and otherwise its parent's.
LEMMA NearestStep ==
  ASSUME tree \in Trees, NEW n \in Node \ {1}, NEW kinds, NEW f
  PROVE  Nearest(n, kinds, f) <=> IF tree.kind[n] \in kinds THEN f = n
                                                       ELSE Nearest(tree.parent[n], kinds, f)
<1> DEFINE P == tree.above[tree.parent[n]]
<1>1. tree.above[n] = {n} \cup P /\ n \in Nat /\ \A m \in P : m < n /\ m \in Nat
  <2>1. tree.above[n] = {n} \cup P /\ Node \subseteq Nat
    BY TreeTypes
  <2> QED BY <2>1, AboveChild
<1> HIDE DEF P
<1>2. CASE tree.kind[n] \in kinds
  BY <1>1, <1>2 DEF Nearest
<1>3. CASE tree.kind[n] \notin kinds
  <2>1. Nearest(tree.parent[n], kinds, f) <=>
          /\ f \in P /\ tree.kind[f] \in kinds
          /\ \A g \in P : tree.kind[g] \in kinds => g <= f
    BY DEF Nearest, P
  <2> QED BY <1>1, <1>3, <2>1 DEF Nearest
<1> QED BY <1>2, <1>3

LEMMA LexicalRoot == tree \in Trees => Lexical(1) = NoScope
<1> SUFFICES ASSUME tree \in Trees PROVE Lexical(1) = NoScope
  OBVIOUS
<1>1. tree.above[1] = {1} /\ tree.kind[1] = "module"
  BY TreeTypes
<1>2. \A f : ~Nearest(1, Functions, f) /\ ~Nearest(1, {"async"}, f)
  BY <1>1 DEF Nearest, Functions
<1> QED BY <1>1, <1>2 DEF Lexical, NoScope

LEMMA PopensAreCalls ==
  ASSUME NEW f
  PROVE  \A p \in BlockingPopens(tree, f) : p \in Node /\ Popen(tree, p)
BY DEF BlockingPopens, Inside, Below

\* The fields inside a node are those Entered sets, and those Left finds.
LEMMA LexicalStep ==
  ASSUME tree \in Trees, NEW n \in Node \ {1}
  PROVE  LET s == Lexical(tree.parent[n]) IN
         Lexical(n) =
           [async  |-> IF tree.kind[n] \in Functions THEN tree.kind[n] = "async" ELSE s.async,
            task   |-> s.task \/ tree.kind[n] = "async",
            popens |-> IF tree.kind[n] = "async" THEN BlockingPopens(tree, n) ELSE s.popens]
<1> DEFINE p == tree.parent[n]
<1>1. p \in Node /\ tree.above[n] = {n} \cup tree.above[p] /\ n \in Node
  BY TreeTypes
<1>2. Lexical(n).async = IF tree.kind[n] \in Functions THEN tree.kind[n] = "async" ELSE Lexical(p).async
  <2>1. \A f : Nearest(n, Functions, f) <=> IF tree.kind[n] \in Functions THEN f = n ELSE Nearest(p, Functions, f)
    BY NearestStep
  <2> HIDE DEF p
  <2>2. CASE tree.kind[n] \in Functions
    BY <1>1, <2>1, <2>2 DEF Lexical
  <2>3. CASE tree.kind[n] \notin Functions
    BY <1>1, <2>1, <2>3 DEF Lexical
  <2> QED BY <2>2, <2>3
<1>3. Lexical(n).task = (Lexical(p).task \/ tree.kind[n] = "async")
  BY <1>1 DEF Lexical
<1>4. Lexical(n).popens = IF tree.kind[n] = "async" THEN BlockingPopens(tree, n) ELSE Lexical(p).popens
  <2>1. \A f : Nearest(n, {"async"}, f) <=> IF tree.kind[n] = "async" THEN f = n ELSE Nearest(p, {"async"}, f)
    BY NearestStep
  <2> HIDE DEF p
  <2>2. CASE tree.kind[n] = "async"
    <3>1. Lexical(n).popens = {q \in Node : q \in BlockingPopens(tree, n)}
      BY <1>1, <2>1, <2>2 DEF Lexical
    <3> QED BY <2>2, <3>1, PopensAreCalls
  <2>3. CASE tree.kind[n] # "async"
    BY <1>1, <2>1, <2>3 DEF Lexical
  <2> QED BY <2>2, <2>3
<1>5. Lexical(n) = [async |-> Lexical(n).async, task |-> Lexical(n).task, popens |-> Lexical(n).popens]
  BY DEF Lexical
<1> HIDE DEF p
<1> QED BY <1>2, <1>3, <1>4, <1>5 DEF p

\* Coming out of a node puts the fields back.
LEMMA LeftIsBack ==
  ASSUME tree \in Trees, NEW n \in Node \ {1}, scope = Lexical(n)
  PROVE  Left(n, Lexical(tree.parent[n])) = Lexical(tree.parent[n])
<1> DEFINE s == Lexical(tree.parent[n])
<1>1. scope = [async  |-> IF tree.kind[n] \in Functions THEN tree.kind[n] = "async" ELSE s.async,
               task   |-> s.task \/ tree.kind[n] = "async",
               popens |-> IF tree.kind[n] = "async" THEN BlockingPopens(tree, n) ELSE s.popens]
  BY LexicalStep
<1>2. s = [async |-> s.async, task |-> s.task, popens |-> s.popens] /\ s.task \in BOOLEAN
  BY DEF Lexical
<1> HIDE DEF s
<1>3. /\ tree.kind[n] \notin Functions => scope.async = s.async
      /\ tree.kind[n] # "async" => scope.task = s.task /\ scope.popens = s.popens
  BY <1>1, <1>2
<1> QED BY <1>2, <1>3 DEF Left, s

LEMMA LexicalType ==
  ASSUME NEW n
  PROVE  Lexical(n) \in [async : BOOLEAN, task : BOOLEAN, popens : SUBSET {p \in Node : Popen(tree, p)}]
<1>1. Lexical(n).async \in BOOLEAN /\ Lexical(n).task \in BOOLEAN
  BY DEF Lexical
<1>2. Lexical(n).popens \subseteq {p \in Node : Popen(tree, p)}
  BY PopensAreCalls DEF Lexical
<1>3. Lexical(n) = [async |-> Lexical(n).async, task |-> Lexical(n).task, popens |-> Lexical(n).popens]
  BY DEF Lexical
<1> QED BY <1>1, <1>2, <1>3

\* The words of the properties: the function around a node is the nearest of its parent.
LEMMA InnermostIsNearest ==
  ASSUME tree \in Trees, NEW n \in Node \ {1}
  PROVE  /\ \A f : Innermost(n, f) <=> Nearest(tree.parent[n], Functions, f)
         /\ InCoroutine(n) <=> Lexical(tree.parent[n]).async
         /\ (\E f \in Enclosing(n) : tree.kind[f] = "async") <=> Lexical(tree.parent[n]).task
<1>1. tree.above[n] \ {n} = tree.above[tree.parent[n]]
  BY AboveChild
<1>2. \A f : Innermost(n, f) <=> Nearest(tree.parent[n], Functions, f)
  BY <1>1 DEF Innermost, Enclosing, Nearest
<1>3. InCoroutine(n) <=> Lexical(tree.parent[n]).async
  BY <1>2 DEF InCoroutine, Lexical
<1>4. (\E f \in Enclosing(n) : tree.kind[f] = "async") <=> Lexical(tree.parent[n]).task
  BY <1>1 DEF Enclosing, Lexical, Functions
<1> QED BY <1>2, <1>3, <1>4

-----------------------------------------------------------------------------
(***************************************************************************)
(* What is found by looking inside a function, and around a call           *)
(***************************************************************************)

\* m is inside f itself if f is the innermost of its kind around m.
LEMMA InsideIsNearest ==
  ASSUME tree \in Trees, NEW m \in Node \ {1}, NEW f \in Node, NEW stops,
         tree.kind[m] \notin stops, tree.kind[f] \in stops
  PROVE  m \in Inside(tree, f, stops) <=> Nearest(tree.parent[m], stops, f)
<1> DEFINE P == tree.above[tree.parent[m]]
<1>1. /\ tree.above[m] \ {m} = P /\ m \in tree.above[m] /\ tree.above[m] \subseteq Node
      /\ \A k \in P : k < m
      /\ Node \subseteq Nat
  BY TreeTypes, AboveChild
<1> HIDE DEF P
<1>2. ASSUME m \in Inside(tree, f, stops) PROVE Nearest(tree.parent[m], stops, f)
  <2>1. /\ f \in tree.above[m] /\ m # f
        /\ \A k \in tree.above[m] : f \in tree.above[k] /\ k # f => tree.kind[k] \notin stops
    BY <1>1, <1>2 DEF Inside, Below
  <2>2. f \in P
    BY <1>1, <2>1
  <2>3. ASSUME NEW g \in P, tree.kind[g] \in stops, ~(g <= f) PROVE FALSE
    <3>1. g \in Nat /\ f \in Nat /\ m \in Nat /\ g < m /\ g \in tree.above[m]
      BY <1>1, <2>3
    <3>2. g \in f..m
      BY <2>3, <3>1
    <3>3. f \in tree.above[g]
      BY <2>1, <3>2, InsideIsInterval
    <3> QED BY <2>1, <2>3, <3>1, <3>3
  <2> QED BY <2>2, <2>3 DEF Nearest, P
<1>3. ASSUME Nearest(tree.parent[m], stops, f) PROVE m \in Inside(tree, f, stops)
  <2>1. f \in P /\ \A g \in P : tree.kind[g] \in stops => g <= f
    BY <1>3 DEF Nearest, P
  <2>2. f \in tree.above[m] /\ f # m
    BY <1>1, <2>1
  <2>3. ASSUME NEW k \in tree.above[m], f \in tree.above[k], k # f PROVE tree.kind[k] \notin stops
    <3> SUFFICES ASSUME tree.kind[k] \in stops PROVE FALSE
      OBVIOUS
    <3>1. k \in P
      BY <1>1
    <3>2. f <= k /\ k <= f
      BY <1>1, <2>1, <2>3, <3>1, AboveIsUpwards
    <3>3. k \in Nat /\ f \in Nat
      BY <1>1
    <3> QED BY <2>3, <3>2, <3>3
  <2> QED BY <1>1, <2>2, <2>3 DEF Inside, Below
<1> QED BY <1>2, <1>3

LEMMA NearestIsOne ==
  ASSUME tree \in Trees, NEW n \in Node, NEW kinds, NEW f, NEW g,
         Nearest(n, kinds, f), Nearest(n, kinds, g)
  PROVE  f = g
<1>1. f \in tree.above[n] /\ g \in tree.above[n] /\ f <= g /\ g <= f
  BY DEF Nearest
<1>2. f \in Nat /\ g \in Nat
  BY <1>1, TreeTypes
<1> QED BY <1>1, <1>2

LEMMA CallFacts ==
  ASSUME tree \in Trees, NEW n \in Node, tree.kind[n] = "call"
  PROVE  n # 1 /\ tree.kind[n] \notin Functions /\ tree.parent[n] \in Node
BY TreeTypes DEF Functions

\* The ids kept for the innermost async function hold a call of Popen in a coroutine
\* exactly if that coroutine waits for the child.
LEMMA WaitedMeans ==
  ASSUME tree \in Trees, NEW p \in Node, Popen(tree, p), InCoroutine(p)
  PROVE  p \in Lexical(tree.parent[p]).popens <=> WaitedFor(p)
<1> DEFINE q == tree.parent[p]
<1>1. tree.kind[p] = "call" /\ p # 1 /\ tree.kind[p] \notin Functions /\ q \in Node
  BY CallFacts DEF Popen, Calls
<1>2. PICK f \in Node : Innermost(p, f) /\ tree.kind[f] = "async"
  BY DEF InCoroutine
<1>3. Nearest(q, Functions, f) /\ tree.kind[f] \in Functions
  BY <1>1, <1>2, InnermostIsNearest DEF Functions
<1>4. Nearest(q, {"async"}, f)
  BY <1>2, <1>3 DEF Nearest, Functions
<1>5. p \in Lexical(q).popens <=> p \in BlockingPopens(tree, f)
  <2> HIDE DEF q
  <2>1. \A g : Nearest(q, {"async"}, g) => g = f
    BY <1>1, <1>4, NearestIsOne
  <2> QED BY <1>4, <2>1 DEF Lexical
<1> DEFINE own == Inside(tree, f, Functions)
<1>6. \A w \in Node : tree.kind[w] = "call" => (w \in own <=> Innermost(w, f))
  BY <1>3, CallFacts, InsideIsNearest, InnermostIsNearest
<1>7. \A w \in Node : tree.kind[w] = "call" => (w \in own <=> SameFunction(w, p))
  <2> SUFFICES ASSUME NEW w \in Node, tree.kind[w] = "call"
               PROVE  Innermost(w, f) <=> SameFunction(w, p)
    BY <1>6
  <2>1. w # 1 /\ tree.parent[w] \in Node
    BY CallFacts
  <2>2. SameFunction(w, p) => Innermost(w, f)
    BY <1>2 DEF SameFunction
  <2>3. ASSUME Innermost(w, f), NEW g PROVE Innermost(w, g) <=> Innermost(p, g)
    <3>1. Nearest(tree.parent[w], Functions, f)
      BY <2>1, <2>3, InnermostIsNearest
    <3>2. Innermost(w, g) => g = f
      BY <2>1, <3>1, InnermostIsNearest, NearestIsOne
    <3>3. Innermost(p, g) => g = f
      BY <1>1, <1>3, InnermostIsNearest, NearestIsOne
    <3> QED BY <1>2, <2>3, <3>2, <3>3
  <2> QED BY <2>2, <2>3 DEF SameFunction
<1>8. p \in own
  BY <1>1, <1>2, <1>6
<1>9. own \subseteq Node
  BY DEF Inside, Below
<1>10. \A w : Waits(tree, w) => tree.kind[w] = "call"
  BY DEF Waits, Method
<1>11. Waits(tree, q) => SameFunction(q, p)
  <2> SUFFICES ASSUME Waits(tree, q) PROVE SameFunction(q, p)
    OBVIOUS
  <2>1. q # 1 /\ tree.kind[q] \notin Functions
    BY <1>1, <1>10, CallFacts
  <2>2. \A g : Innermost(p, g) <=> Nearest(q, Functions, g)
    BY <1>1, InnermostIsNearest
  <2>3. \A g : Innermost(q, g) <=> Nearest(tree.parent[q], Functions, g)
    BY <1>1, <2>1, InnermostIsNearest
  <2>4. \A g : Nearest(q, Functions, g) <=> Nearest(tree.parent[q], Functions, g)
    BY <1>1, <2>1, NearestStep
  <2> QED BY <2>2, <2>3, <2>4 DEF SameFunction
<1>12. p \in BlockingPopens(tree, f) <=>
         \/ "receiver" \in tree.marks[p] /\ Waits(tree, q)
         \/ /\ "value" \in tree.marks[p] /\ tree.name[q] # ""
            /\ \E w \in own : Waits(tree, w) /\ tree.name[w] = tree.name[q]
  BY <1>8 DEF BlockingPopens
<1> HIDE DEF own, q
<1>13. (\E w \in own : Waits(tree, w) /\ tree.name[w] = tree.name[q]) <=>
         \E w \in Node : Waits(tree, w) /\ SameFunction(w, p) /\ tree.name[w] = tree.name[q]
  BY <1>7, <1>9, <1>10
<1>14. WaitedFor(p) <=>
         \/ "receiver" \in tree.marks[p] /\ Waits(tree, q) /\ SameFunction(q, p)
         \/ /\ "value" \in tree.marks[p] /\ tree.name[q] # ""
            /\ \E w \in Node : Waits(tree, w) /\ SameFunction(w, p) /\ tree.name[w] = tree.name[q]
  BY <1>1 DEF WaitedFor, q
<1> QED BY <1>5, <1>11, <1>12, <1>13, <1>14 DEF q

\* What visit_AsyncFunctionDef finds first is what leaks.
LEMMA FirstSetMeans ==
  ASSUME tree \in Trees, NEW f \in Node, NEW n \in Node
  PROVE  LeavesContext(tree, f) /\ n \in FirstSet(tree, f) <=> SetCall(tree, n) /\ Leaks(n, f)
<1> DEFINE kinds == {"async", "def", "class"}
<1>1. \A m : \/ SetCall(tree, m) \/ tree.kind[m] = "yield" \/ FinallyReset(tree, m)
             => tree.kind[m] \notin kinds
  BY DEF SetCall, Method, FinallyReset
<1>2. ASSUME tree.kind[f] = "async", NEW m \in Node
      PROVE  m \in Shallow(tree, f) <=> Holds(f, m) /\ tree.kind[m] \notin kinds
  <2>1. Shallow(tree, f) = Inside(tree, f, kinds)
    BY DEF Shallow
  <2>2. CASE m = 1
    <3>1. tree.above[m] = {m}
      BY <2>2, TreeTypes
    <3> QED BY <3>1 DEF Shallow, Inside, Below, Holds
  <2>3. CASE m # 1
    <3>1. Holds(f, m) <=> Nearest(tree.parent[m], kinds, f)
      BY <2>3, AboveChild DEF Holds, Nearest
    <3>2. tree.kind[m] \notin kinds => (m \in Inside(tree, f, kinds) <=> Nearest(tree.parent[m], kinds, f))
      BY <1>2, <2>3, InsideIsNearest
    <3>3. m \in Inside(tree, f, kinds) => tree.kind[m] \notin kinds
      BY TreeTypes DEF Inside, Below
    <3> QED BY <2>1, <3>1, <3>2, <3>3
  <2> QED BY <2>2, <2>3
<1>3. Shallow(tree, f) \subseteq Node
  BY DEF Shallow, Inside, Below
<1>4. LeavesContext(tree, f) /\ n \in FirstSet(tree, f) <=>
        /\ tree.kind[f] = "async" /\ n \in Shallow(tree, f) /\ SetCall(tree, n)
        /\ \A m \in Shallow(tree, f) : /\ SetCall(tree, m) => n <= m
                                       /\ tree.kind[m] # "yield" /\ ~FinallyReset(tree, m)
  BY DEF LeavesContext, FirstSet
<1> HIDE DEF kinds
<1>5. ASSUME tree.kind[f] = "async"
      PROVE  (\A m \in Shallow(tree, f) : /\ SetCall(tree, m) => n <= m
                                          /\ tree.kind[m] # "yield" /\ ~FinallyReset(tree, m))
             <=> \A m \in Node : Holds(f, m) => /\ SetCall(tree, m) => n <= m
                                                /\ tree.kind[m] # "yield" /\ ~FinallyReset(tree, m)
  BY <1>1, <1>2, <1>3, <1>5
<1>6. tree.kind[f] = "async" /\ SetCall(tree, n) => (n \in Shallow(tree, f) <=> Holds(f, n))
  BY <1>1, <1>2
<1> QED BY <1>4, <1>5, <1>6 DEF Leaks

-----------------------------------------------------------------------------
(***************************************************************************)
(* What has been collected, from the nodes that have been visited          *)
(***************************************************************************)
ModulesOf(n)   == {<<lib.rule, tree.name[n]>> : lib \in {l \in Library : VisitImport(tree, n, l)}}
BareOf(n)      == {<<lib.rule, tree.name[n]>> : lib \in {l \in Library : VisitImportFrom(tree, n, l)}}
DelegatedOf(n) == {c \in Children(tree, n) : /\ InCoroutine(n) /\ tree.kind[n] = "with" /\ tree.name[n] # ""
                                             /\ "value" \in tree.marks[c] /\ Open(tree, c)
                                             /\ HandleOnlyDelegated(tree, n)}
\* The imports among V that no later one of V replaces.
Standing(V) == {i \in V \cap Imports : \A j \in V \cap Imports : tree.name[j] = tree.name[i] => j <= i}

Summary(V) ==
  [modules   |-> UNION {ModulesOf(n) : n \in V},
   bare      |-> UNION {BareOf(n) : n \in V},
   delegated |-> UNION {DelegatedOf(n) : n \in V},
   imported  |-> {<<tree.name[i], tree.module[i]>> : i \in Standing(V)},
   celery    |-> \E n \in V : tree.module[n] \in Celery,
   other     |-> \E n \in V : tree.module[n] \in Frameworks,
   defs      |-> {n \in V : tree.kind[n] \in {"def", "async"}}]

LEMMA SummaryRoot == tree \in Trees => Summary({1}) = Empty
<1> SUFFICES ASSUME tree \in Trees PROVE Summary({1}) = Empty
  OBVIOUS
<1>1. tree.kind[1] = "module" /\ tree.module[1] = "" /\ 1 \in Node
  BY TreeTypes, TreesAssumption
<1>2. ModulesOf(1) = {} /\ BareOf(1) = {} /\ DelegatedOf(1) = {} /\ 1 \notin Imports
  BY <1>1 DEF ModulesOf, BareOf, DelegatedOf, Imports, VisitImport, VisitImportFrom
<1>3. "" \notin Celery /\ "" \notin Frameworks
  BY TreesAssumption
<1>4. Standing({1}) = {}
  BY <1>2 DEF Standing
<1> QED BY <1>1, <1>2, <1>3, <1>4 DEF Summary, Empty

\* The next node adds what Collected says.
LEMMA CollectedMeans ==
  ASSUME tree \in Trees, NEW V \in SUBSET Node, NEW n \in Node \ {1}, \A m \in V : m < n,
         file = Summary(V), scope = Lexical(tree.parent[n])
  PROVE  Collected(n) = Summary(V \cup {n})
<1> DEFINE W == V \cup {n}
<1>1. UNION {ModulesOf(m) : m \in W} = (UNION {ModulesOf(m) : m \in V}) \cup ModulesOf(n)
  <2> DEFINE X == UNION {ModulesOf(m) : m \in W}
             Y == UNION {ModulesOf(m) : m \in V}
  <2>1. \A b : b \in X <=> \E m \in W : b \in ModulesOf(m)
    OBVIOUS
  <2>2. \A b : b \in Y <=> \E m \in V : b \in ModulesOf(m)
    OBVIOUS
  <2>3. \A m : m \in W <=> m \in V \/ m = n
    OBVIOUS
  <2> HIDE DEF W, X, Y
  <2>4. X = Y \cup ModulesOf(n)
    BY <2>1, <2>2, <2>3
  <2> QED BY <2>4 DEF X, Y
<1>2. UNION {BareOf(m) : m \in W} = (UNION {BareOf(m) : m \in V}) \cup BareOf(n)
  <2> DEFINE X == UNION {BareOf(m) : m \in W}
             Y == UNION {BareOf(m) : m \in V}
  <2>1. \A b : b \in X <=> \E m \in W : b \in BareOf(m)
    OBVIOUS
  <2>2. \A b : b \in Y <=> \E m \in V : b \in BareOf(m)
    OBVIOUS
  <2>3. \A m : m \in W <=> m \in V \/ m = n
    OBVIOUS
  <2> HIDE DEF W, X, Y
  <2>4. X = Y \cup BareOf(n)
    BY <2>1, <2>2, <2>3
  <2> QED BY <2>4 DEF X, Y
<1>3. UNION {DelegatedOf(m) : m \in W} = (UNION {DelegatedOf(m) : m \in V}) \cup DelegatedOf(n)
  <2> DEFINE X == UNION {DelegatedOf(m) : m \in W}
             Y == UNION {DelegatedOf(m) : m \in V}
  <2>1. \A b : b \in X <=> \E m \in W : b \in DelegatedOf(m)
    OBVIOUS
  <2>2. \A b : b \in Y <=> \E m \in V : b \in DelegatedOf(m)
    OBVIOUS
  <2>3. \A m : m \in W <=> m \in V \/ m = n
    OBVIOUS
  <2> HIDE DEF W, X, Y
  <2>4. X = Y \cup DelegatedOf(n)
    BY <2>1, <2>2, <2>3
  <2> QED BY <2>4 DEF X, Y
<1>4. VisitWith(n) = DelegatedOf(n)
  BY InnermostIsNearest DEF VisitWith, DelegatedOf
<1>5. {m \in W : tree.kind[m] \in {"def", "async"}} =
        IF tree.kind[n] \in {"def", "async"} THEN {m \in V : tree.kind[m] \in {"def", "async"}} \cup {n}
                                             ELSE {m \in V : tree.kind[m] \in {"def", "async"}}
  OBVIOUS
<1>6. VisitImported(n) = {<<tree.name[i], tree.module[i]>> : i \in Standing(W)}
  <2>1. n \in Imports <=> tree.kind[n] \in {"import", "from"}
    BY DEF Imports
  <2>2. file.imported = {<<tree.name[i], tree.module[i]>> : i \in Standing(V)}
    BY DEF Summary
  <2>3. CASE n \notin Imports
    <3>1. W \cap Imports = V \cap Imports
      BY <2>3
    <3>2. Standing(W) = Standing(V)
      BY <3>1 DEF Standing
    <3> QED BY <2>1, <2>2, <2>3, <3>2 DEF VisitImported
  <2>4. CASE n \in Imports
    <3>1. n \in Nat /\ V \subseteq Nat
      BY TreeTypes
    <3>2. \A m \in V : m \in Nat /\ m < n
      BY <3>1
    <3>3. Standing(W) = {n} \cup {i \in Standing(V) : tree.name[i] # tree.name[n]}
      <4>1. n \in Standing(W)
        BY <2>4, <3>1, <3>2 DEF Standing
      <4>2. ASSUME NEW i \in V
            PROVE  i \in Standing(W) <=> i \in Standing(V) /\ tree.name[i] # tree.name[n]
        BY <2>4, <3>1, <3>2 DEF Standing
      <4>3. Standing(W) \subseteq W /\ Standing(V) \subseteq V
        BY DEF Standing
      <4> QED BY <4>1, <4>2, <4>3
    <3>4. VisitImported(n) = {b \in file.imported : b[1] # tree.name[n]} \cup {<<tree.name[n], tree.module[n]>>}
      BY <2>1, <2>4 DEF VisitImported
    <3>5. {b \in file.imported : b[1] # tree.name[n]}
            = {<<tree.name[i], tree.module[i]>> : i \in {i \in Standing(V) : tree.name[i] # tree.name[n]}}
      BY <2>2
    <3> QED BY <3>3, <3>4, <3>5
  <2> QED BY <2>3, <2>4
<1>7. /\ (file.celery \/ tree.module[n] \in Celery) = (\E m \in W : tree.module[m] \in Celery)
      /\ (file.other \/ tree.module[n] \in Frameworks) = (\E m \in W : tree.module[m] \in Frameworks)
  BY DEF Summary
<1>8. /\ file.modules = UNION {ModulesOf(m) : m \in V} /\ file.bare = UNION {BareOf(m) : m \in V}
      /\ file.delegated = UNION {DelegatedOf(m) : m \in V}
      /\ file.defs = {m \in V : tree.kind[m] \in {"def", "async"}}
  BY DEF Summary
<1>9. /\ Collected(n).modules = file.modules \cup ModulesOf(n)
      /\ Collected(n).bare = file.bare \cup BareOf(n)
      /\ Collected(n).delegated = file.delegated \cup VisitWith(n)
      /\ Collected(n).imported = VisitImported(n)
      /\ Collected(n).celery = (file.celery \/ tree.module[n] \in Celery)
      /\ Collected(n).other = (file.other \/ tree.module[n] \in Frameworks)
      /\ Collected(n).defs = IF tree.kind[n] \in {"def", "async"} THEN file.defs \cup {n} ELSE file.defs
  BY DEF Collected, ModulesOf, BareOf
<1> DEFINE c == Collected(n)
<1>10. c = [modules |-> c.modules, bare |-> c.bare, delegated |-> c.delegated, imported |-> c.imported,
            celery |-> c.celery, other |-> c.other, defs |-> c.defs]
  BY DEF Collected
<1>11. Summary(W) =
        [modules |-> UNION {ModulesOf(m) : m \in W}, bare |-> UNION {BareOf(m) : m \in W},
         delegated |-> UNION {DelegatedOf(m) : m \in W},
         imported |-> {<<tree.name[i], tree.module[i]>> : i \in Standing(W)},
         celery |-> \E m \in W : tree.module[m] \in Celery,
         other |-> \E m \in W : tree.module[m] \in Frameworks,
         defs |-> {m \in W : tree.kind[m] \in {"def", "async"}}]
  BY DEF Summary
<1> HIDE DEF W
<1>12. /\ c.modules = UNION {ModulesOf(m) : m \in W} /\ c.bare = UNION {BareOf(m) : m \in W}
       /\ c.delegated = UNION {DelegatedOf(m) : m \in W}
  BY <1>1, <1>2, <1>3, <1>4, <1>8, <1>9
<1>13. /\ c.imported = {<<tree.name[i], tree.module[i]>> : i \in Standing(W)}
       /\ c.celery = (\E m \in W : tree.module[m] \in Celery)
       /\ c.other = (\E m \in W : tree.module[m] \in Frameworks)
       /\ c.defs = {m \in W : tree.kind[m] \in {"def", "async"}}
  BY <1>5, <1>6, <1>7, <1>8, <1>9
<1> HIDE DEF c
<1>14. c = Summary(W)
  <2> DEFINE ms == UNION {ModulesOf(m) : m \in W}
             bs == UNION {BareOf(m) : m \in W}
             ds == UNION {DelegatedOf(m) : m \in W}
             is == {<<tree.name[i], tree.module[i]>> : i \in Standing(W)}
             fs == {m \in W : tree.kind[m] \in {"def", "async"}}
             ce == \E m \in W : tree.module[m] \in Celery
             ot == \E m \in W : tree.module[m] \in Frameworks
  <2>1. Summary(W) = [modules |-> ms, bare |-> bs, delegated |-> ds, imported |-> is,
                      celery |-> ce, other |-> ot, defs |-> fs]
    BY <1>11
  <2>2. /\ c.modules = ms /\ c.bare = bs /\ c.delegated = ds /\ c.imported = is
        /\ c.celery = ce /\ c.other = ot /\ c.defs = fs
    BY <1>12, <1>13
  <2> HIDE DEF ms, bs, ds, is, fs, ce, ot
  <2> QED BY <1>10, <2>1, <2>2
<1> QED BY <1>14 DEF c, W

-----------------------------------------------------------------------------
(***************************************************************************)
(* What is reported, from the file as a whole                              *)
(***************************************************************************)
Delegable(n) == /\ "value" \in tree.marks[n] /\ tree.kind[tree.parent[n]] = "with"
                /\ tree.name[tree.parent[n]] # "" /\ HandleOnlyDelegated(tree, tree.parent[n])
StartsProcess(n) == \/ tree.name[n] = "subprocess" /\ Method(tree, n, {"run", "call", "check_output"})
                    \/ Popen(tree, n) /\ WaitedFor(n)
BoundCall(n, lib) == tree.kind[n] = "call" /\ Known(n, lib)

\* The rules that condemn node n.
RulesAt(n) ==
  (IF ~InCoroutine(n) THEN {} ELSE
     ByText(tree, n) \cup {lib.rule : lib \in {l \in Library : BoundCall(n, l)}}
     \cup (IF StartsProcess(n) THEN {"007"} ELSE {})
     \cup (IF ~Open(tree, n) THEN {} ELSE IF Delegable(n) THEN {"009 WARNING"} ELSE {"009"}))
  \cup (IF \E f \in Enclosing(n) : tree.kind[f] = "async" THEN Discarded(tree, n) ELSE {})
\* What visiting node n should report.
Says(n) == {<<rule, n>> : rule \in RulesAt(n)}
           \cup {<<"006", m>> : m \in {m \in Node : LeavesContext(tree, n) /\ m \in FirstSet(tree, n)}}

LEMMA OneLibraryEach == \A l, m \in Library : l.rule = m.rule => l = m
<1>1. Requests.rule = "002" /\ Threading.rule = "004" /\ Sqlite3.rule = "008"
  BY DEF Requests, Threading, Sqlite3
<1>2. Library = {Requests, Threading, Sqlite3}
  BY DEF Library
<1> QED BY <1>1, <1>2

\* The names bound by what has been read are those bound above the call.
LEMMA ByImportMeans ==
  ASSUME tree \in Trees, NEW n \in Node, NEW lib \in Library, file = Summary(1..(n - 1))
  PROVE  ByImport(n, lib) <=> BoundCall(n, lib)
<1> DEFINE V == 1..(n - 1)
<1>1. \A b : b \in file.modules <=> \E i \in V : b \in ModulesOf(i)
  BY DEF Summary
<1>2. \A b : b \in file.bare <=> \E i \in V : b \in BareOf(i)
  BY DEF Summary
<1>3. \A i : <<lib.rule, tree.name[n]>> \in ModulesOf(i) <=> tree.name[i] = tree.name[n] /\ VisitImport(tree, i, lib)
  BY OneLibraryEach DEF ModulesOf
<1>4. \A i : <<lib.rule, tree.name[n]>> \in BareOf(i) <=> tree.name[i] = tree.name[n] /\ VisitImportFrom(tree, i, lib)
  BY OneLibraryEach DEF BareOf
<1>5. <<lib.rule, tree.name[n]>> \in file.modules <=>
        \E i \in V : tree.name[i] = tree.name[n] /\ VisitImport(tree, i, lib)
  BY <1>1, <1>3
<1>6. <<lib.rule, tree.name[n]>> \in file.bare <=>
        \E i \in V : tree.name[i] = tree.name[n] /\ VisitImportFrom(tree, i, lib)
  BY <1>2, <1>4
<1>7. Known(n, lib) <=>
        \/ /\ tree.attr[n] \in lib.attrs
           /\ \E i \in V : tree.name[i] = tree.name[n] /\ VisitImport(tree, i, lib)
        \/ /\ tree.attr[n] = ""
           /\ \E i \in V : tree.name[i] = tree.name[n] /\ VisitImportFrom(tree, i, lib)
  BY DEF Known
<1> HIDE DEF V
<1> QED BY <1>5, <1>6, <1>7 DEF ByImport, BoundCall

\* The opens noted at a with statement are the delegable ones in coroutines.
LEMMA DelegatedMeans ==
  ASSUME tree \in Trees, NEW n \in Node \ {1}, file = Summary(1..(n - 1)), InCoroutine(n), Open(tree, n)
  PROVE  n \in file.delegated <=> Delegable(n)
<1> DEFINE w == tree.parent[n]
<1>1. w \in Node /\ w < n /\ Node \subseteq Nat /\ Node = 1..Size
  BY TreeTypes DEF Node
<1>2. w \in 1..(n - 1)
  BY <1>1
<1>3. n \in file.delegated <=> \E i \in 1..(n - 1) : n \in DelegatedOf(i)
  BY DEF Summary
<1>4. \A i : n \in DelegatedOf(i) => i = w
  BY DEF DelegatedOf, Children
<1>5. n \in DelegatedOf(w) <=> InCoroutine(w) /\ Delegable(n)
  BY DEF DelegatedOf, Children, Delegable
<1>6. Delegable(n) => InCoroutine(w)
  <2> SUFFICES ASSUME tree.kind[w] = "with" PROVE InCoroutine(w)
    BY DEF Delegable
  <2>1. w # 1 /\ tree.kind[w] \notin Functions
    BY TreeTypes DEF Functions
  <2>2. Lexical(w).async
    BY InnermostIsNearest
  <2>3. Lexical(w).async = Lexical(tree.parent[w]).async
    <3> HIDE DEF w
    <3> QED BY <1>1, <2>1, LexicalStep
  <2> QED BY <1>1, <2>1, <2>2, <2>3, InnermostIsNearest
<1> QED BY <1>2, <1>3, <1>4, <1>5, <1>6

\* A visit with the right fields reports what it should.
LEMMA ReportsMeans ==
  ASSUME tree \in Trees, NEW n \in Node \ {1}, file = Summary(1..(n - 1)), scope = Lexical(tree.parent[n])
  PROVE  Reports(n) = Says(n)
<1> DEFINE libs  == {lib.rule : lib \in {l \in Library : BoundCall(n, l)}}
           proc  == IF StartsProcess(n) THEN {"007"} ELSE {}
           opens == IF ~Open(tree, n) THEN {} ELSE IF Delegable(n) THEN {"009 WARNING"} ELSE {"009"}
           first == {<<"006", m>> : m \in {m \in Node : LeavesContext(tree, n) /\ m \in FirstSet(tree, n)}}
<1>1. /\ scope.async <=> InCoroutine(n)
      /\ scope.task <=> \E f \in Enclosing(n) : tree.kind[f] = "async"
  BY InnermostIsNearest
<1>2. {lib.rule : lib \in {l \in Library : ByImport(n, l)}} = libs
  <2>1. {l \in Library : ByImport(n, l)} = {l \in Library : BoundCall(n, l)}
    BY ByImportMeans
  <2> QED BY <2>1
<1>3. InCoroutine(n) => (SubprocessMethod(n) <=> StartsProcess(n))
  BY WaitedMeans DEF SubprocessMethod, StartsProcess
<1>4. InCoroutine(n) => (IF ~Open(tree, n) THEN {} ELSE IF n \in file.delegated THEN {"009 WARNING"} ELSE {"009"}) = opens
  BY DelegatedMeans
<1>5. (IF LeavesContext(tree, n) THEN {"006"} \X FirstSet(tree, n) ELSE {}) = first
  <2>1. FirstSet(tree, n) \subseteq Node
    BY DEF FirstSet, Shallow, Inside, Below
  <2> QED BY <2>1
<1>6. Reports(n) =
        (IF ~InCoroutine(n) THEN {} ELSE {<<rule, n>> : rule \in ByText(tree, n) \cup libs \cup proc \cup opens})
        \cup (IF \E f \in Enclosing(n) : tree.kind[f] = "async" THEN Discarded(tree, n) \X {n} ELSE {})
        \cup first
  <2> DEFINE mine   == (IF SubprocessMethod(n) THEN {"007"} ELSE {})
             handle == (IF ~Open(tree, n) THEN {} ELSE IF n \in file.delegated THEN {"009 WARNING"} ELSE {"009"})
             known  == {lib.rule : lib \in {l \in Library : ByImport(n, l)}}
             leaks  == (IF LeavesContext(tree, n) THEN {"006"} \X FirstSet(tree, n) ELSE {})
  <2>1. Reports(n) =
          (IF ~scope.async THEN {} ELSE {<<rule, n>> : rule \in ByText(tree, n) \cup known \cup mine \cup handle})
          \cup (IF scope.task THEN Discarded(tree, n) \X {n} ELSE {})
          \cup leaks
    BY DEF Reports
  <2>2. known = libs /\ leaks = first /\ (InCoroutine(n) => mine = proc /\ handle = opens)
    BY <1>2, <1>3, <1>4, <1>5
  <2> HIDE DEF mine, handle, known, leaks, libs, proc, opens, first
  <2>3. CASE InCoroutine(n)
    BY <1>1, <2>1, <2>2, <2>3
  <2>4. CASE ~InCoroutine(n)
    BY <1>1, <2>1, <2>2, <2>4
  <2> QED BY <2>3, <2>4
<1>7. Says(n) = {<<rule, n>> : rule \in
                   (IF ~InCoroutine(n) THEN {} ELSE ByText(tree, n) \cup libs \cup proc \cup opens)
                   \cup (IF \E f \in Enclosing(n) : tree.kind[f] = "async" THEN Discarded(tree, n) ELSE {})}
                \cup first
  BY DEF Says, RulesAt
<1> DEFINE own == ByText(tree, n) \cup libs \cup proc \cup opens
           dis == Discarded(tree, n)
           inco == InCoroutine(n)
           task == \E f \in Enclosing(n) : tree.kind[f] = "async"
<1>8. /\ Reports(n) = (IF ~inco THEN {} ELSE {<<rule, n>> : rule \in own})
                      \cup (IF task THEN dis \X {n} ELSE {}) \cup first
      /\ Says(n) = {<<rule, n>> : rule \in (IF ~inco THEN {} ELSE own) \cup (IF task THEN dis ELSE {})} \cup first
  BY <1>6, <1>7
<1> HIDE DEF own, dis, inco, task, first
<1> QED BY <1>8

\* Each rule by its own condition: the rules do not get into each other's way.
LEMMA RuleByRule ==
  ASSUME NEW n
  PROVE  /\ \A lib \in Library : lib.rule \in RulesAt(n) <=> InCoroutine(n) /\ BoundCall(n, lib)
         /\ "007" \in RulesAt(n) <=> InCoroutine(n) /\ StartsProcess(n)
         /\ "009 WARNING" \in RulesAt(n) <=> InCoroutine(n) /\ Open(tree, n) /\ Delegable(n)
         /\ "009" \in RulesAt(n) <=> InCoroutine(n) /\ Open(tree, n) /\ ~Delegable(n)
         /\ \A rule \in {"001", "003", "010", "011", "015", "016"} :
              rule \in RulesAt(n) <=> rule \in ByText(tree, n) /\ InCoroutine(n)
         /\ \A rule \in {"012", "014"} :
              rule \in RulesAt(n) <=> rule \in Discarded(tree, n) /\ \E f \in Enclosing(n) : tree.kind[f] = "async"
         /\ "005" \notin RulesAt(n) /\ "006" \notin RulesAt(n)
         /\ RulesAt(n) \subseteq RuleId
<1> DEFINE text  == ByText(tree, n)
           libs  == {lib.rule : lib \in {l \in Library : BoundCall(n, l)}}
           dis   == Discarded(tree, n)
           inco  == InCoroutine(n)
           task  == \E f \in Enclosing(n) : tree.kind[f] = "async"
           start == StartsProcess(n)
           open  == Open(tree, n)
           deleg == Delegable(n)
<1>1. text \subseteq {"001", "003", "010", "011", "015", "016"}
  BY DEF ByText
<1>2. dis \subseteq {"012", "014"}
  BY DEF Discarded
<1>3. \A lib \in Library : lib.rule \in {"002", "004", "008"}
  <2>1. Requests.rule = "002" /\ Threading.rule = "004" /\ Sqlite3.rule = "008"
    BY DEF Requests, Threading, Sqlite3
  <2> QED BY <2>1 DEF Library
<1>4. \A lib \in Library : lib.rule \in libs <=> BoundCall(n, lib)
  BY OneLibraryEach
<1>5. libs \subseteq {"002", "004", "008"}
  BY <1>3
<1>6. RulesAt(n) = (IF ~inco THEN {} ELSE
                      text \cup libs \cup (IF start THEN {"007"} ELSE {})
                      \cup (IF ~open THEN {} ELSE IF deleg THEN {"009 WARNING"} ELSE {"009"}))
                   \cup (IF task THEN dis ELSE {})
  BY DEF RulesAt
<1> HIDE DEF text, libs, dis, inco, task, start, open, deleg
<1>7. \A lib \in Library : lib.rule \in RulesAt(n) <=> inco /\ BoundCall(n, lib)
  BY <1>1, <1>2, <1>3, <1>4, <1>6
<1>8. /\ "007" \in RulesAt(n) <=> inco /\ start
      /\ "009 WARNING" \in RulesAt(n) <=> inco /\ open /\ deleg
      /\ "009" \in RulesAt(n) <=> inco /\ open /\ ~deleg
      /\ "005" \notin RulesAt(n) /\ "006" \notin RulesAt(n)
  BY <1>1, <1>2, <1>5, <1>6
<1>9. \A rule \in {"001", "003", "010", "011", "015", "016"} : rule \in RulesAt(n) <=> rule \in text /\ inco
  BY <1>2, <1>5, <1>6
<1>10. \A rule \in {"012", "014"} : rule \in RulesAt(n) <=> rule \in dis /\ task
  BY <1>1, <1>5, <1>6
<1>11. RulesAt(n) \subseteq RuleId
  BY <1>1, <1>2, <1>5, <1>6 DEF RuleId
<1> QED BY <1>7, <1>8, <1>9, <1>10, <1>11 DEF text, libs, dis, inco, task, start, open, deleg

\* Once all has been read, a task is what the whole file makes a task.
LEMMA TaskMeans ==
  ASSUME tree \in Trees, NEW f \in Node, file = Summary(Node)
  PROVE  f \in file.defs /\ Unlimited(tree, file, f) <=> CeleryTask(f) /\ "limit" \notin tree.marks[f]
<1> DEFINE nm == tree.name[f]
           last == LastImport(nm)
<1>1. \A n \in Node : n \notin Imports => tree.module[n] \notin Celery /\ tree.module[n] \notin Frameworks
  BY TreesAssumption DEF Imports
<1>2. Imports \subseteq Node /\ Node \subseteq Nat
  BY TreeTypes DEF Imports
<1>3. /\ file.celery <=> \E i \in Imports : tree.module[i] \in Celery
      /\ file.other <=> \E i \in Imports : tree.module[i] \in Frameworks
      /\ f \in file.defs <=> tree.kind[f] \in {"def", "async"}
  BY <1>1, <1>2 DEF Summary
<1>4. \A i : i \in Standing(Node) /\ tree.name[i] = nm <=> i \in last
  BY <1>2 DEF Standing, LastImport
<1>5. file.imported = {<<tree.name[i], tree.module[i]>> : i \in Standing(Node)}
  BY DEF Summary
<1>6. \A i, j \in last : i = j
  <2> SUFFICES ASSUME NEW i \in last, NEW j \in last PROVE i = j
    OBVIOUS
  <2>1. i <= j /\ j <= i /\ i \in Nat /\ j \in Nat
    BY <1>2 DEF LastImport
  <2> QED BY <2>1
<1> HIDE DEF last
<1>7. \A b : b \in file.imported /\ b[1] = nm <=> \E i \in last : b = <<nm, tree.module[i]>>
  <2>1. \A b : b \in file.imported /\ b[1] = nm => \E i \in last : b = <<nm, tree.module[i]>>
    <3> SUFFICES ASSUME NEW b \in file.imported, b[1] = nm
                 PROVE  \E i \in last : b = <<nm, tree.module[i]>>
      OBVIOUS
    <3>1. PICK i \in Standing(Node) : b = <<tree.name[i], tree.module[i]>>
      BY <1>5
    <3>2. tree.name[i] = nm
      BY <3>1
    <3> QED BY <1>4, <3>1, <3>2
  <2>2. \A i \in last : <<nm, tree.module[i]>> \in file.imported
    BY <1>4, <1>5
  <2> QED BY <2>1, <2>2
<1> HIDE DEF nm
<1>8. Imported(file, nm) <=> last # {}
  BY <1>7 DEF Imported
<1>9. ASSUME NEW i \in last PROVE ModuleOf(file, nm) = tree.module[i]
  <2>1. \E b \in file.imported : b[1] = nm
    BY <1>7
  <2> DEFINE b == CHOOSE b \in file.imported : b[1] = nm
  <2>2. b \in file.imported /\ b[1] = nm
    BY <2>1
  <2>3. ModuleOf(file, nm) = b[2]
    BY DEF ModuleOf
  <2> HIDE DEF b
  <2>4. b = <<nm, tree.module[i]>>
    BY <1>6, <1>7, <2>2
  <2> QED BY <2>3, <2>4
<1>10. TaskReceiver(file, nm) <=>
         \/ \E i \in Imports : tree.module[i] \in Celery
         \/ last = {} /\ nm \in AppLike \cup CeleryLike
         \/ \E i \in last : tree.module[i] \in CeleryLike
  <2>1. CASE last = {}
    BY <1>3, <1>8, <2>1 DEF TaskReceiver
  <2>2. CASE last # {}
    BY <1>3, <1>8, <1>9, <2>2 DEF TaskReceiver
  <2> QED BY <2>1, <2>2
<1> QED BY <1>3, <1>10 DEF Unlimited, CeleryTask, nm, last

-----------------------------------------------------------------------------
(***************************************************************************)
(* The walk                                                                *)
(***************************************************************************)
Scope == [async : BOOLEAN, task : BOOLEAN, popens : SUBSET {n \in Node : Popen(tree, n)}]
Frame == [node : Node, todo : SUBSET Node, saved : [async : BOOLEAN, task : BOOLEAN, popens : SUBSET Node]]

Types == tree \in Trees /\ stack \in Seq(Frame)

\* The calls that have not returned lead down the tree, and each keeps the fields of
\* the one below it.
Path ==
  /\ \A i \in 1..Len(stack) : /\ stack[i].todo \subseteq Children(tree, stack[i].node)
                              /\ i = 1 => stack[i].node = 1
  /\ \A i \in 1..Len(stack) : i > 1 => /\ stack[i].node # 1
                                       /\ stack[i - 1].node = tree.parent[stack[i].node]
                                       /\ stack[i].saved = Lexical(stack[i - 1].node)
  /\ \A i, j \in 1..Len(stack) : i < j => /\ stack[i].node < stack[j].node
                                          /\ stack[i].node \in tree.above[stack[j].node]

\* n is in, or is, a node that some call has still to visit.
Pending(n) == \E i \in 1..Len(stack) : \E c \in stack[i].todo : c \in tree.above[n]

\* The nodes up to k have been visited, the others are pending.
Frontier(k) == /\ \A n \in Node : Pending(n) <=> k < n
               /\ \A i \in 1..Len(stack) : stack[i].node <= k
\* What has been collected and reported is that of the nodes up to k.
Reached(k)  == file = Summary(1..k) /\ flagged = UNION {Says(n) : n \in 1..k}

Place == scope = Lexical(Top.node)

Overdue  == {<<"005", f>> : f \in {f \in Node : CeleryTask(f) /\ "limit" \notin tree.marks[f]}}
Finished == /\ scope = NoScope /\ file = Summary(Node)
            /\ flagged = (UNION {Says(n) : n \in Node}) \cup Overdue

Inv == /\ Types /\ Path
       /\ stack # <<>> => Place /\ \E k \in Node : Frontier(k) /\ Reached(k)
       /\ stack = <<>> => Finished

\* All of this depends on the walk through the tree alone.
LEMMA LexicalStays ==
  ASSUME tree' = tree
  PROVE  \A n : Lexical(n)' = Lexical(n) /\ (InCoroutine(n)' <=> InCoroutine(n))
BY DEF Lexical, Nearest, InCoroutine, Innermost, Enclosing

LEMMA SummaryStays ==
  ASSUME tree' = tree
  PROVE  \A V : Summary(V)' = Summary(V)
<1>1. \A n : ModulesOf(n)' = ModulesOf(n) /\ BareOf(n)' = BareOf(n)
  BY DEF ModulesOf, BareOf
<1>2. \A n : DelegatedOf(n)' = DelegatedOf(n)
  BY LexicalStays DEF DelegatedOf
<1>3. \A V : Standing(V)' = Standing(V)
  BY DEF Standing, Imports
<1> QED BY <1>1, <1>2, <1>3 DEF Summary

LEMMA SaysStays ==
  ASSUME tree' = tree
  PROVE  /\ \A n : Says(n)' = Says(n)
         /\ Overdue' = Overdue
<1>1. \A n : StartsProcess(n)' <=> StartsProcess(n)
  BY DEF StartsProcess, WaitedFor, SameFunction, Innermost, Enclosing
<1>2. \A n : Delegable(n)' <=> Delegable(n)
  BY DEF Delegable
<1>3. \A n, lib : BoundCall(n, lib)' <=> BoundCall(n, lib)
  BY DEF BoundCall, Known
<1>4. \A n : Enclosing(n)' = Enclosing(n)
  BY DEF Enclosing
<1>5. \A n : {lib.rule : lib \in {l \in Library : BoundCall(n, l)}}' = {lib.rule : lib \in {l \in Library : BoundCall(n, l)}}
  BY <1>3
<1>6. \A n : RulesAt(n)' = RulesAt(n)
  BY <1>1, <1>2, <1>4, <1>5, LexicalStays DEF RulesAt
<1>7. \A n : Says(n)' = Says(n)
  BY <1>6 DEF Says
<1>8. Overdue' = Overdue
  BY DEF Overdue, CeleryTask, LastImport, Imports
<1> QED BY <1>7, <1>8

LEMMA InitInv == Init => Inv
<1> SUFFICES ASSUME Init PROVE Inv
  OBVIOUS
<1> DEFINE f == [node |-> 1, saved |-> NoScope, todo |-> Children(tree, 1)]
<1>1. tree \in Trees /\ 1 \in Node /\ Node \subseteq Nat
  BY TreeTypes DEF Init
<1>2. stack = <<f>> /\ scope = NoScope /\ file = Empty /\ flagged = {}
  BY DEF Init
<1>3. f \in Frame /\ f.node = 1 /\ f.todo = Children(tree, 1)
  BY <1>1 DEF Frame, NoScope, Children
<1> HIDE DEF f
<1>4. /\ stack \in Seq(Frame) /\ Len(stack) = 1 /\ stack[1] = f /\ stack # <<>>
      /\ 1..Len(stack) = {1} /\ Top = f
  BY <1>2, <1>3 DEF Top
<1>5. Types
  BY <1>1, <1>4 DEF Types
<1>6. Path
  BY <1>3, <1>4 DEF Path
<1>7. Place
  BY <1>1, <1>2, <1>3, <1>4, LexicalRoot DEF Place
<1>8. Frontier(1)
  <2>1. ASSUME NEW n \in Node PROVE Pending(n) <=> 1 < n
    <3>1. Pending(n) <=> \E c \in Children(tree, 1) : c \in tree.above[n]
      BY <1>3, <1>4 DEF Pending
    <3>2. CASE n = 1
      <4>1. tree.above[n] = {1} /\ 1 \notin Children(tree, 1)
        BY <1>1, <3>2, TreeTypes DEF Children
      <4> QED BY <3>1, <3>2, <4>1
    <3>3. CASE n # 1
      <4>1. 1 < n
        <5>1. n \in 1..Size /\ Size \in Nat
          BY TreesAssumption DEF Node
        <5> QED BY <3>3, <5>1
      <4>2. \E c \in Children(tree, 1) : c \in tree.above[n]
        BY <1>1, <3>3, AboveIsUpwards, ChildTowards
      <4> QED BY <3>1, <4>1, <4>2
    <3> QED BY <3>2, <3>3
  <2>2. \A i \in 1..Len(stack) : stack[i].node <= 1
    BY <1>3, <1>4
  <2> QED BY <2>1, <2>2 DEF Frontier
<1>9. Reached(1)
  <2>1. 1..1 = {1}
    OBVIOUS
  <2>2. tree.above[1] = {1} /\ tree.kind[1] = "module"
    BY <1>1, TreeTypes
  <2>3. Enclosing(1) = {} /\ ~InCoroutine(1) /\ ~LeavesContext(tree, 1)
    BY <2>2 DEF Enclosing, InCoroutine, Innermost, LeavesContext
  <2>4. RulesAt(1) = {}
    BY <2>3 DEF RulesAt
  <2>5. Says(1) = {}
    BY <2>3, <2>4 DEF Says
  <2> QED BY <1>1, <1>2, <2>1, <2>5, SummaryRoot DEF Reached
<1> QED BY <1>1, <1>4, <1>5, <1>6, <1>7, <1>8, <1>9 DEF Inv

\* The stack without its top.
LEMMA RestFacts ==
  ASSUME stack \in Seq(Frame), stack # <<>>
  PROVE  /\ Len(stack) \in Nat \ {0} /\ Top \in Frame /\ Top = stack[Len(stack)]
         /\ Rest \in Seq(Frame) /\ Len(Rest) = Len(stack) - 1
         /\ \A i \in 1..(Len(stack) - 1) : Rest[i] = stack[i]
         /\ \A i \in 1..Len(stack) : stack[i] \in Frame
<1> DEFINE n == Len(stack) - 1
<1>1. Len(stack) \in Nat \ {0} /\ n \in Nat /\ \A i \in 1..Len(stack) : stack[i] \in Frame
  BY EmptySeq, ElementOfSeq
<1>2. \A i \in 1..n : stack[i] \in Frame
  BY <1>1
<1>3. Top \in Frame /\ Top = stack[Len(stack)]
  BY <1>1 DEF Top
<1>4. Rest = SubSeq(stack, 1, n)
  BY DEF Rest
<1> HIDE DEF n
<1>5. Rest \in Seq(Frame) /\ Len(Rest) = n /\ \A i \in 1..n : Rest[i] = stack[i]
  BY <1>1, <1>2, <1>4, SubSeqProperties
<1> QED BY <1>1, <1>3, <1>5 DEF n

\* The child that is visited next is the node after the last one visited.
LEMMA NextIsNext ==
  ASSUME Types, Path, stack # <<>>, NEW k \in Node, Frontier(k),
         NEW c \in Top.todo, \A d \in Top.todo : c <= d
  PROVE  c = k + 1 /\ c \in Node \ {1} /\ tree.parent[c] = Top.node
<1> DEFINE l == Len(stack)
<1>1. /\ tree \in Trees /\ l \in Nat \ {0} /\ Top = stack[l] /\ l \in 1..l
      /\ \A i \in 1..l : stack[i] \in Frame
      /\ Node \subseteq Nat /\ Node = 1..Size /\ Size \in Nat
  <2>1. tree \in Trees /\ l \in Nat \ {0} /\ Top = stack[l] /\ \A i \in 1..l : stack[i] \in Frame
    BY RestFacts DEF Types
  <2>2. Node \subseteq Nat /\ Node = 1..Size /\ Size \in Nat
    BY <2>1, TreeTypes, TreesAssumption DEF Node
  <2> QED BY <2>1, <2>2
<1>2. \A i \in 1..l : \A d \in stack[i].todo : /\ d \in Node \ {1} /\ tree.parent[d] = stack[i].node
                                               /\ d \in tree.above[d] /\ k < d /\ d \in Nat
  <2> SUFFICES ASSUME NEW i \in 1..l, NEW d \in stack[i].todo
               PROVE  /\ d \in Node \ {1} /\ tree.parent[d] = stack[i].node
                      /\ d \in tree.above[d] /\ k < d
    BY <1>1
  <2>1. d \in Node \ {1} /\ tree.parent[d] = stack[i].node
    BY DEF Path, Children
  <2>2. d \in tree.above[d]
    BY <1>1, <2>1, TreeTypes
  <2>3. Pending(d)
    BY <2>2 DEF Pending
  <2> QED BY <2>1, <2>2, <2>3 DEF Frontier
<1>3. c \in Node \ {1} /\ tree.parent[c] = Top.node /\ k < c /\ c \in Nat /\ k \in Nat
  BY <1>1, <1>2
<1>4. c = k + 1
  <2> SUFFICES ASSUME c # k + 1 PROVE FALSE
    OBVIOUS
  <2>1. k + 1 \in Node /\ k + 1 < c
    <3>1. c \in 1..Size /\ k \in 1..Size /\ Size \in Nat
      BY <1>1, <1>3
    <3>2. k + 1 \in 1..Size /\ k + 1 < c
      BY <1>3, <2>1, <3>1
    <3> QED BY <1>1, <3>2
  <2>2. Pending(k + 1)
    <3>1. k < k + 1
      BY <1>3
    <3> QED BY <2>1, <3>1 DEF Frontier
  <2>3. PICK i \in 1..l : \E d \in stack[i].todo : d \in tree.above[k + 1]
    BY <2>2 DEF Pending
  <2>4. PICK d \in stack[i].todo : d \in tree.above[k + 1]
    BY <2>3
  <2>5. d = k + 1
    <3>1. d <= k + 1
      BY <1>1, <2>1, <2>4, AboveIsUpwards
    <3>2. k < d /\ d \in Nat
      BY <1>2
    <3> QED BY <1>3, <3>1, <3>2
  <2>6. i # l
    BY <1>1, <1>3, <2>1, <2>5
  <2>7. i + 1 \in 1..l /\ i + 1 > 1 /\ (i + 1) - 1 = i /\ i < i + 1
    BY <1>1, <2>6
  <2> DEFINE p == stack[i + 1].node
  <2>8. /\ p \in Node /\ stack[i].node < p /\ p <= k /\ stack[i].node \in Node
        /\ p \in Nat /\ stack[i].node \in Nat
    BY <1>1, <2>7 DEF Path, Frontier, Frame
  <2>9. p \in tree.above[Top.node]
    <3>1. CASE i + 1 = l
      BY <1>1, <2>8, <3>1, TreeTypes
    <3>2. CASE i + 1 # l
      <4>1. i + 1 < l
        BY <1>1, <2>7, <3>2
      <4> QED BY <1>1, <2>7, <4>1 DEF Path
    <3> QED BY <3>1, <3>2
  <2>10. p \in tree.above[c]
    <3>1. tree.above[c] \ {c} = tree.above[Top.node]
      BY <1>1, <1>3, AboveChild
    <3> HIDE DEF p
    <3> QED BY <2>9, <3>1
  <2>11. d \in p..c
    <3>1. p <= k /\ d = k + 1 /\ k + 1 < c /\ p \in Nat /\ k \in Nat /\ c \in Nat
      BY <1>3, <2>1, <2>5, <2>8
    <3> HIDE DEF p
    <3> QED BY <3>1
  <2>12. p \in tree.above[d]
    <3>1. c \in Node /\ tree \in Trees
      BY <1>1, <1>3
    <3> HIDE DEF p
    <3> QED BY <2>10, <2>11, <3>1, InsideIsInterval
  <2>13. p \in tree.above[stack[i].node]
    <3>1. d # p
      BY <1>3, <2>5, <2>8
    <3>2. d \in Node \ {1} /\ tree.parent[d] = stack[i].node
      BY <1>2
    <3>3. tree.above[d] \ {d} = tree.above[stack[i].node]
      BY <1>1, <3>2, AboveChild
    <3> HIDE DEF p
    <3> QED BY <2>12, <3>1, <3>3
  <2>14. p <= stack[i].node
    BY <1>1, <2>8, <2>13, AboveIsUpwards
  <2> QED BY <2>8, <2>14
<1> QED BY <1>3, <1>4

\* What the visit of c reports and collects is what the nodes up to c give.
LEMMA VisitReaches ==
  ASSUME tree \in Trees, NEW k \in Node, Reached(k), NEW c \in Node \ {1}, c = k + 1,
         scope = Lexical(tree.parent[c]), tree' = tree,
         file' = Collected(c), flagged' = flagged \cup Reports(c)
  PROVE  Reached(c)'
<1>1. k \in Nat /\ c \in Nat /\ (1..k) \subseteq Node /\ Node \subseteq Nat
  <2>1. k \in 1..Size /\ Size \in Nat
    BY TreesAssumption DEF Node
  <2> QED BY <2>1 DEF Node
<1>2. c - 1 = k /\ 1..c = (1..k) \cup {c} /\ \A m \in 1..k : m < c
  BY <1>1
<1>3. file = Summary(1..k) /\ file = Summary(1..(c - 1))
  BY <1>2 DEF Reached
<1>4. Collected(c) = Summary((1..k) \cup {c})
  BY <1>1, <1>2, <1>3, CollectedMeans
<1>5. Reports(c) = Says(c)
  BY <1>3, ReportsMeans
<1>6. UNION {Says(n) : n \in 1..c} = (UNION {Says(n) : n \in 1..k}) \cup Says(c)
  <2> DEFINE V == 1..k
             W == 1..c
             X == UNION {Says(n) : n \in W}
             Y == UNION {Says(n) : n \in V}
  <2>1. \A b : b \in X <=> \E m \in W : b \in Says(m)
    OBVIOUS
  <2>2. \A b : b \in Y <=> \E m \in V : b \in Says(m)
    OBVIOUS
  <2>3. W = V \cup {c}
    BY <1>2
  <2> HIDE DEF V, W, X, Y
  <2>4. X = Y \cup Says(c)
    BY <2>1, <2>2, <2>3
  <2> QED BY <2>4 DEF V, W, X, Y
<1>7. file' = Summary(1..c) /\ flagged' = UNION {Says(n) : n \in 1..c}
  BY <1>2, <1>4, <1>5, <1>6 DEF Reached
<1>8. Summary(1..c)' = Summary(1..c)
  BY SummaryStays
<1>9. \A n : Says(n)' = Says(n)
  BY SaysStays
<1> QED BY <1>7, <1>8, <1>9 DEF Reached

LEMMA DescendInv == Inv /\ Descend => Inv'
<1> SUFFICES ASSUME Inv, Descend PROVE Inv'
  OBVIOUS
<1>1. PICK c \in Top.todo : /\ \A d \in Top.todo : c <= d
                            /\ Visit(c, Append(Rest, [Top EXCEPT !.todo = @ \ {c}]))
  BY DEF Descend
<1> DEFINE left == [Top EXCEPT !.todo = @ \ {c}]
           f == [node |-> c, saved |-> scope, todo |-> Children(tree, c)]
           below == Append(Rest, left)
           l == Len(stack)
<1>2. /\ stack' = Append(below, f) /\ scope' = Entered(c) /\ file' = Collected(c)
      /\ flagged' = flagged \cup Reports(c) /\ tree' = tree /\ stack # <<>>
  BY <1>1 DEF Visit, Descend
<1>3. Types /\ Path /\ Place /\ tree \in Trees
  BY <1>2 DEF Inv, Types
<1>4. PICK k \in Node : Frontier(k) /\ Reached(k)
  BY <1>2 DEF Inv
<1>5. /\ l \in Nat \ {0} /\ Top \in Frame /\ Top = stack[l] /\ l \in 1..l
      /\ Rest \in Seq(Frame) /\ Len(Rest) = l - 1 /\ \A i \in 1..(l - 1) : Rest[i] = stack[i]
      /\ \A i \in 1..l : stack[i] \in Frame
  <2>1. l \in Nat \ {0} => l \in 1..l
    OBVIOUS
  <2> QED BY <1>2, <1>3, <2>1, RestFacts DEF Types
<1>6. c = k + 1 /\ c \in Node \ {1} /\ tree.parent[c] = Top.node
  BY <1>1, <1>2, <1>3, <1>4, NextIsNext
<1>7. scope = Lexical(tree.parent[c])
  BY <1>3, <1>6 DEF Place
<1>8. /\ left \in Frame /\ left.node = Top.node /\ left.saved = Top.saved /\ left.todo = Top.todo \ {c}
      /\ f \in Frame /\ f.node = c /\ f.saved = scope /\ f.todo = Children(tree, c)
  <2>1. scope \in [async : BOOLEAN, task : BOOLEAN, popens : SUBSET Node]
    BY <1>7, LexicalType
  <2> QED BY <1>5, <1>6, <2>1 DEF Frame, Children
<1> HIDE DEF left, f
<1>9. /\ below \in Seq(Frame) /\ Len(below) = l /\ below[l] = left
      /\ \A i \in 1..(l - 1) : below[i] = stack[i]
  BY <1>5, <1>8, AppendProperties
<1> HIDE DEF below
<1>10. /\ stack' \in Seq(Frame) /\ Len(stack') = l + 1 /\ stack' # <<>>
       /\ stack'[l + 1] = f /\ stack'[l] = left
       /\ \A i \in 1..(l - 1) : stack'[i] = stack[i]
  BY <1>2, <1>5, <1>8, <1>9, AppendProperties
<1> HIDE DEF l
<1>11. \A i \in 1..l : /\ stack'[i].node = stack[i].node /\ stack'[i].saved = stack[i].saved
                       /\ stack'[i].todo = stack[i].todo \ {c}
                       /\ stack[i].node \in Node
  <2> SUFFICES ASSUME NEW i \in 1..l
               PROVE  /\ stack'[i].node = stack[i].node /\ stack'[i].saved = stack[i].saved
                      /\ stack'[i].todo = stack[i].todo \ {c}
                      /\ stack[i].node \in Node
    OBVIOUS
  <2>1. stack[i].node \in Node
    BY <1>5 DEF Frame
  <2>2. CASE i = l
    BY <1>5, <1>8, <1>10, <2>1, <2>2
  <2>3. CASE i # l
    <3>1. i \in 1..(l - 1) /\ i < l
      BY <1>5, <2>3
    <3>2. stack'[i] = stack[i]
      BY <1>10, <3>1
    <3>3. c \notin stack[i].todo
      <4>1. stack[i].node < Top.node /\ stack[i].todo \subseteq Children(tree, stack[i].node)
        BY <1>3, <1>5, <3>1 DEF Path, l
      <4>2. stack[i].node \in Nat
        BY <1>3, <2>1, TreeTypes
      <4>3. stack[i].node # Top.node
        BY <4>1, <4>2
      <4> QED BY <1>6, <4>1, <4>3 DEF Children
    <3> QED BY <2>1, <3>2, <3>3
  <2> QED BY <2>2, <2>3
<1>12. /\ \A n : Children(tree, n)' = Children(tree, n)
       /\ \A n : Lexical(n)' = Lexical(n)
  BY <1>2, LexicalStays DEF Children
<1>13. Types'
  BY <1>2, <1>3, <1>10 DEF Types
<1>14. Path'
  <2>1. \A i \in 1..(l + 1) : /\ stack'[i].todo \subseteq Children(tree, stack'[i].node)
                              /\ i = 1 => stack'[i].node = 1
    <3> SUFFICES ASSUME NEW i \in 1..(l + 1)
                 PROVE  /\ stack'[i].todo \subseteq Children(tree, stack'[i].node)
                        /\ i = 1 => stack'[i].node = 1
      OBVIOUS
    <3>1. CASE i = l + 1
      BY <1>5, <1>8, <1>10, <3>1
    <3>2. CASE i # l + 1
      <4>1. i \in 1..l
        BY <1>5, <3>2
      <4>2. stack[i].todo \subseteq Children(tree, stack[i].node) /\ (i = 1 => stack[i].node = 1)
        BY <1>3, <4>1 DEF Path, l
      <4> QED BY <1>11, <4>1, <4>2
    <3> QED BY <3>1, <3>2
  <2>2. \A i \in 1..(l + 1) : i > 1 => /\ stack'[i].node # 1
                                       /\ stack'[i - 1].node = tree.parent[stack'[i].node]
                                       /\ stack'[i].saved = Lexical(stack'[i - 1].node)
    <3> SUFFICES ASSUME NEW i \in 1..(l + 1), i > 1
                 PROVE  /\ stack'[i].node # 1
                        /\ stack'[i - 1].node = tree.parent[stack'[i].node]
                        /\ stack'[i].saved = Lexical(stack'[i - 1].node)
      OBVIOUS
    <3>1. CASE i = l + 1
      <4>1. i - 1 = l
        BY <1>5, <3>1
      <4> QED BY <1>5, <1>6, <1>7, <1>8, <1>10, <3>1, <4>1
    <3>2. CASE i # l + 1
      <4>1. i \in 1..l /\ i - 1 \in 1..l
        BY <1>5, <3>2
      <4>2. /\ stack[i].node # 1 /\ stack[i - 1].node = tree.parent[stack[i].node]
            /\ stack[i].saved = Lexical(stack[i - 1].node)
        BY <1>3, <4>1 DEF Path, l
      <4> QED BY <1>11, <4>1, <4>2
    <3> QED BY <3>1, <3>2
  <2>3. \A i, j \in 1..(l + 1) : i < j => /\ stack'[i].node < stack'[j].node
                                          /\ stack'[i].node \in tree.above[stack'[j].node]
    <3> SUFFICES ASSUME NEW i \in 1..(l + 1), NEW j \in 1..(l + 1), i < j
                 PROVE  /\ stack'[i].node < stack'[j].node
                        /\ stack'[i].node \in tree.above[stack'[j].node]
      OBVIOUS
    <3>1. i \in 1..l
      BY <1>5
    <3>2. CASE j = l + 1
      <4> DEFINE p == stack[i].node
      <4>1. p \in tree.above[Top.node]
        <5>1. CASE i = l
          BY <1>3, <1>5, <1>11, <5>1, TreeTypes
        <5>2. CASE i # l
          <6>1. i < l
            BY <1>5, <3>1, <5>2
          <6> QED BY <1>3, <1>5, <3>1, <6>1 DEF Path, l
        <5> QED BY <5>1, <5>2
      <4>2. p \in tree.above[c] /\ p < c
        <5>1. /\ tree.above[c] \ {c} = tree.above[Top.node]
              /\ \A m \in tree.above[Top.node] : m < c
          BY <1>3, <1>6, AboveChild
        <5> HIDE DEF p
        <5> QED BY <4>1, <5>1
      <4> QED BY <1>8, <1>10, <1>11, <3>1, <3>2, <4>2
    <3>3. CASE j # l + 1
      <4>1. j \in 1..l
        BY <1>5, <3>3
      <4>2. stack[i].node < stack[j].node /\ stack[i].node \in tree.above[stack[j].node]
        BY <1>3, <3>1, <4>1 DEF Path, l
      <4> QED BY <1>11, <3>1, <4>1, <4>2
    <3> QED BY <3>2, <3>3
  <2> QED BY <1>2, <1>10, <1>12, <2>1, <2>2, <2>3 DEF Path
<1>15. Place'
  <2>1. Entered(c) = Lexical(c)
    BY <1>3, <1>6, <1>7, LexicalStep DEF Entered
  <2>2. Top'.node = c
    BY <1>8, <1>10 DEF Top
  <2>3. Lexical(c)' = Lexical(c)
    BY <1>12
  <2> QED BY <1>2, <2>1, <2>2, <2>3 DEF Place
<1>16. Frontier(c)'
  <2>1. /\ k \in Nat /\ c \in Nat /\ Node \subseteq Nat
        /\ \A n \in Node : (\E i \in 1..l : \E d \in stack[i].todo : d \in tree.above[n]) <=> k < n
        /\ \A i \in 1..l : stack[i].node <= k
    BY <1>3, <1>4, <1>6, TreeTypes DEF Frontier, Pending, l
  <2>2. ASSUME NEW n \in Node, c < n
        PROVE  \E i \in 1..(l + 1) : \E d \in stack'[i].todo : d \in tree.above[n]
    <3>1. k < n
      BY <1>6, <2>1, <2>2
    <3>2. PICK i \in 1..l : \E d \in stack[i].todo : d \in tree.above[n]
      BY <2>1, <3>1
    <3>3. PICK d \in stack[i].todo : d \in tree.above[n]
      BY <3>2
    <3>4. CASE d = c
      <4>1. \E e \in Children(tree, c) : e \in tree.above[n]
        <5>1. c # n /\ c \in tree.above[n]
          BY <2>1, <2>2, <3>3, <3>4
        <5> QED BY <1>3, <5>1, ChildTowards
      <4>2. l + 1 \in 1..(l + 1) /\ stack'[l + 1].todo = Children(tree, c)
        BY <1>5, <1>8, <1>10
      <4> QED BY <4>1, <4>2
    <3>5. CASE d # c
      <4>1. d \in stack'[i].todo /\ i \in 1..(l + 1)
        BY <1>5, <1>11, <3>3, <3>5
      <4> QED BY <3>3, <4>1
    <3> QED BY <3>4, <3>5
  <2>3. ASSUME NEW n \in Node, NEW i \in 1..(l + 1), NEW d \in stack'[i].todo, d \in tree.above[n]
        PROVE  c < n
    <3>1. c < d /\ d \in Node
      <4>1. CASE i = l + 1
        <5>1. d \in Children(tree, c)
          BY <1>8, <1>10, <4>1
        <5> QED BY <1>3, <5>1, TreeTypes DEF Children
      <4>2. CASE i # l + 1
        <5>1. i \in 1..l
          BY <1>5, <4>2
        <5>2. d \in stack[i].todo /\ d # c
          BY <1>11, <2>3, <5>1
        <5>3. d \in Node /\ d \in tree.above[d]
          BY <1>3, <5>1, <5>2, TreeTypes DEF Path, Children, l
        <5>4. k < d
          BY <2>1, <5>1, <5>2, <5>3
        <5> QED BY <1>6, <2>1, <5>2, <5>3, <5>4
      <4> QED BY <4>1, <4>2
    <3>2. d <= n
      BY <1>3, <2>3, AboveIsUpwards
    <3> QED BY <2>1, <3>1, <3>2
  <2>4. \A i \in 1..(l + 1) : stack'[i].node <= c
    <3> SUFFICES ASSUME NEW i \in 1..(l + 1) PROVE stack'[i].node <= c
      OBVIOUS
    <3>1. CASE i = l + 1
      BY <1>8, <1>10, <2>1, <3>1
    <3>2. CASE i # l + 1
      <4>1. i \in 1..l
        BY <1>5, <3>2
      <4>2. stack'[i].node = stack[i].node /\ stack[i].node <= k /\ stack[i].node \in Nat
        BY <1>11, <2>1, <4>1
      <4> QED BY <1>6, <2>1, <4>2
    <3> QED BY <3>1, <3>2
  <2>5. \A n : Pending(n)' <=> \E i \in 1..(l + 1) : \E d \in stack'[i].todo : d \in tree.above[n]
    BY <1>2, <1>10 DEF Pending
  <2>6. \A n \in Node : Pending(n)' <=> c < n
    BY <2>2, <2>3, <2>5
  <2> QED BY <1>10, <2>4, <2>6 DEF Frontier
<1>17. Reached(c)'
  BY <1>2, <1>3, <1>4, <1>6, <1>7, VisitReaches
<1> QED BY <1>6, <1>10, <1>13, <1>14, <1>15, <1>16, <1>17 DEF Inv

\* The call on top has nothing left to do; the fields are its caller's again.
LEMMA ReturnInv == Inv /\ Return => Inv'
<1> SUFFICES ASSUME Inv, Return PROVE Inv'
  OBVIOUS
<1> DEFINE l == Len(stack)
<1>1. /\ l > 1 /\ Top.todo = {} /\ stack' = Rest /\ scope' = Left(Top.node, Top.saved)
      /\ tree' = tree /\ file' = file /\ flagged' = flagged
      /\ Types /\ Path /\ tree \in Trees /\ stack \in Seq(Frame)
  BY DEF Return, Inv, Types
<1>2. stack # <<>> /\ Place
  <2>1. stack # <<>>
    BY <1>1, EmptySeq
  <2> QED BY <2>1 DEF Inv
<1>3. PICK k \in Node : Frontier(k) /\ Reached(k)
  BY <1>2 DEF Inv
<1>4. /\ l \in Nat \ {0} /\ Top \in Frame /\ Top = stack[l]
      /\ stack' \in Seq(Frame) /\ Len(stack') = l - 1
      /\ \A i \in 1..(l - 1) : stack'[i] = stack[i]
  BY <1>1, <1>2, RestFacts
<1>5. stack' # <<>> /\ l \in 1..l /\ l - 1 \in 1..(l - 1) /\ Top' = stack[l - 1]
  <2>1. l \in 1..l /\ l - 1 \in 1..(l - 1) /\ Len(stack') # 0
    BY <1>1, <1>4
  <2> QED BY <1>4, <2>1, EmptySeq DEF Top
<1>6. /\ Top.node \in Node \ {1} /\ stack[l - 1].node = tree.parent[Top.node]
      /\ Top.saved = Lexical(tree.parent[Top.node])
  BY <1>1, <1>4, <1>5 DEF Path, Frame
<1>7. /\ \A n : Children(tree, n)' = Children(tree, n)
      /\ \A n : Lexical(n)' = Lexical(n)
  BY <1>1, LexicalStays DEF Children
<1> HIDE DEF l
<1>8. Types'
  BY <1>1, <1>4 DEF Types
<1>9. Path'
  <2>1. \A i \in 1..(l - 1) : i \in 1..l /\ (i > 1 => i - 1 \in 1..(l - 1) /\ i - 1 \in 1..l)
    BY <1>4
  <2>2. \A i \in 1..(l - 1) : /\ stack'[i].todo \subseteq Children(tree, stack'[i].node)
                              /\ i = 1 => stack'[i].node = 1
    BY <1>1, <1>4, <2>1 DEF Path, l
  <2>3. \A i \in 1..(l - 1) : i > 1 => /\ stack'[i].node # 1
                                       /\ stack'[i - 1].node = tree.parent[stack'[i].node]
                                       /\ stack'[i].saved = Lexical(stack'[i - 1].node)
    BY <1>1, <1>4, <2>1 DEF Path, l
  <2>4. \A i, j \in 1..(l - 1) : i < j => /\ stack'[i].node < stack'[j].node
                                          /\ stack'[i].node \in tree.above[stack'[j].node]
    BY <1>1, <1>4, <2>1 DEF Path, l
  <2> QED BY <1>1, <1>4, <1>7, <2>2, <2>3, <2>4 DEF Path
<1>10. Place'
  <2>1. scope = Lexical(Top.node)
    BY <1>2 DEF Place
  <2>2. scope' = Lexical(tree.parent[Top.node])
    BY <1>1, <1>6, <2>1, LeftIsBack
  <2> QED BY <1>5, <1>6, <1>7, <2>2 DEF Place
<1>11. Frontier(k)'
  <2>1. \A n : Pending(n)' <=> \E i \in 1..(l - 1) : \E d \in stack[i].todo : d \in tree.above[n]
    BY <1>1, <1>4 DEF Pending
  <2>2. \A n : Pending(n) <=> \E i \in 1..l : \E d \in stack[i].todo : d \in tree.above[n]
    BY DEF Pending, l
  <2>3. \A i \in 1..l : i \in 1..(l - 1) \/ i = l
    BY <1>4
  <2>4. \A i \in 1..(l - 1) : i \in 1..l
    BY <1>4
  <2>5. \A n : Pending(n)' <=> Pending(n)
    BY <1>1, <1>4, <2>1, <2>2, <2>3, <2>4
  <2>6. \A i \in 1..(l - 1) : stack'[i].node <= k
    BY <1>3, <1>4, <2>4 DEF Frontier, l
  <2> QED BY <1>3, <1>4, <2>5, <2>6 DEF Frontier
<1>12. Reached(k)'
  BY <1>1, <1>3, SummaryStays, SaysStays DEF Reached
<1> QED BY <1>5, <1>8, <1>9, <1>10, <1>11, <1>12 DEF Inv

\* Nothing is pending at the module's end: every node has been visited.
LEMMA CheckTasksInv == Inv /\ CheckTasks => Inv'
<1> SUFFICES ASSUME Inv, CheckTasks PROVE Inv'
  OBVIOUS
<1>1. /\ Len(stack) = 1 /\ Top.todo = {} /\ stack' = <<>> /\ tree' = tree /\ scope' = scope /\ file' = file
      /\ flagged' = flagged \cup {<<"005", f>> : f \in {f \in file.defs : Unlimited(tree, file, f)}}
      /\ Types /\ Path /\ tree \in Trees /\ stack \in Seq(Frame)
  BY DEF CheckTasks, Inv, Types
<1>2. stack # <<>> /\ Place
  <2>1. stack # <<>>
    BY <1>1, EmptySeq
  <2> QED BY <2>1 DEF Inv
<1>3. PICK k \in Node : Frontier(k) /\ Reached(k)
  BY <1>2 DEF Inv
<1>4. 1..k = Node
  <2>1. Node = 1..Size /\ Size \in Nat \ {0}
    BY TreesAssumption DEF Node
  <2>2. Size \in Node
    BY <2>1
  <2>3. ~Pending(Size)
    BY <1>1 DEF Pending, Top
  <2>4. ~(k < Size)
    BY <1>3, <2>2, <2>3 DEF Frontier
  <2>5. k = Size
    BY <2>1, <2>4
  <2> QED BY <2>1, <2>5
<1>5. scope = NoScope
  <2>1. Top.node = 1
    BY <1>1 DEF Path, Top
  <2> QED BY <1>1, <1>2, <2>1, LexicalRoot DEF Place
<1>6. file = Summary(Node) /\ flagged = UNION {Says(n) : n \in Node}
  BY <1>3, <1>4 DEF Reached
<1>7. {f \in file.defs : Unlimited(tree, file, f)} = {f \in Node : CeleryTask(f) /\ "limit" \notin tree.marks[f]}
  <2>1. file.defs \subseteq Node
    BY <1>6 DEF Summary
  <2>2. \A f \in Node : f \in file.defs /\ Unlimited(tree, file, f) <=> CeleryTask(f) /\ "limit" \notin tree.marks[f]
    BY <1>1, <1>6, TaskMeans
  <2> QED BY <2>1, <2>2
<1>8. flagged' = (UNION {Says(n) : n \in Node}) \cup Overdue
  BY <1>1, <1>6, <1>7 DEF Overdue
<1>9. Finished'
  <2>1. /\ Summary(Node)' = Summary(Node) /\ \A n : Says(n)' = Says(n)
        /\ Overdue' = Overdue
    BY <1>1, SummaryStays, SaysStays
  <2> QED BY <1>1, <1>5, <1>6, <1>8, <2>1 DEF Finished
<1>10. Types' /\ Path'
  <2>1. stack' \in Seq(Frame) /\ Len(stack') = 0 /\ 1..Len(stack') = {}
    BY <1>1, EmptySeq
  <2> QED BY <1>1, <2>1 DEF Types, Path
<1> QED BY <1>1, <1>9, <1>10 DEF Inv

LEMMA StutterInv == Inv /\ UNCHANGED vars => Inv'
<1> SUFFICES ASSUME Inv, UNCHANGED vars PROVE Inv'
  OBVIOUS
<1>1. tree' = tree /\ stack' = stack /\ scope' = scope /\ file' = file /\ flagged' = flagged
  BY DEF vars
<1>2. /\ \A n : Lexical(n)' = Lexical(n)
      /\ \A V : Summary(V)' = Summary(V)
      /\ \A n : Says(n)' = Says(n)
      /\ Overdue' = Overdue
  BY <1>1, LexicalStays, SummaryStays, SaysStays
<1>3. Types' /\ Path'
  <2>1. Path'
    BY <1>1, <1>2 DEF Inv, Path, Children
  <2> QED BY <1>1, <2>1 DEF Inv, Types
<1>4. Place' <=> Place
  BY <1>1, <1>2 DEF Place, Top
<1>5. \A k : Frontier(k)' <=> Frontier(k)
  BY <1>1 DEF Frontier, Pending
<1>6. \A k : Reached(k)' <=> Reached(k)
  BY <1>1, <1>2 DEF Reached
<1>7. Finished' <=> Finished
  BY <1>1, <1>2 DEF Finished
<1> QED BY <1>1, <1>3, <1>4, <1>5, <1>6, <1>7 DEF Inv

LEMMA NextInv == Inv /\ [Next]_vars => Inv'
BY DescendInv, ReturnInv, CheckTasksInv, StutterInv DEF Next

-----------------------------------------------------------------------------
(***************************************************************************)
(* The theorems                                                            *)
(***************************************************************************)

\* What Inv says of file and flagged at any moment.
LEMMA SoFar ==
  ASSUME Inv
  PROVE  \E V \in SUBSET Node : /\ file = Summary(V)
                                /\ flagged \subseteq (UNION {Says(n) : n \in Node}) \cup Overdue
<1>1. CASE stack = <<>>
  BY <1>1 DEF Inv, Finished
<1>2. CASE stack # <<>>
  <2>1. PICK k \in Node : Reached(k)
    BY <1>2 DEF Inv
  <2>2. 1..k \in SUBSET Node
    <3>1. Node = 1..Size /\ Size \in Nat
      BY TreesAssumption DEF Node
    <3> QED BY <3>1
  <2>3. \A b \in UNION {Says(n) : n \in 1..k} : b \in UNION {Says(n) : n \in Node}
    BY <2>2
  <2> QED BY <2>1, <2>2, <2>3 DEF Reached
<1> QED BY <1>1, <1>2

LEMMA InvTypes == Inv => TypeOK
<1> SUFFICES ASSUME Inv PROVE TypeOK
  OBVIOUS
<1>1. tree \in Trees /\ tree \in Tree /\ stack \in Seq(Frame)
  BY TreesAssumption DEF Inv, Types
<1>2. scope \in Scope
  <2>1. CASE stack = <<>>
    <3>1. scope = [async |-> FALSE, task |-> FALSE, popens |-> {}]
      BY <2>1 DEF Inv, Finished, NoScope
    <3>2. {} \in SUBSET {n \in Node : Popen(tree, n)} /\ FALSE \in BOOLEAN
      OBVIOUS
    <3> QED BY <3>1, <3>2 DEF Scope
  <2>2. CASE stack # <<>>
    BY <2>2, LexicalType DEF Inv, Place, Scope
  <2> QED BY <2>1, <2>2
<1>3. PICK V \in SUBSET Node : /\ file = Summary(V)
                               /\ flagged \subseteq (UNION {Says(n) : n \in Node}) \cup Overdue
  BY SoFar
<1>4. file.delegated \subseteq {n \in Node : Open(tree, n)}
  BY <1>3 DEF Summary, DelegatedOf, Children
<1>5. \A b, c \in file.imported : b[1] = c[1] => b = c
  <2>1. file.imported = {<<tree.name[i], tree.module[i]>> : i \in Standing(V)}
    BY <1>3 DEF Summary
  <2>2. ASSUME NEW i \in Standing(V), NEW j \in Standing(V), tree.name[i] = tree.name[j] PROVE i = j
    <3>1. i <= j /\ j <= i /\ i \in V /\ j \in V
      BY <2>2 DEF Standing
    <3>2. i \in Nat /\ j \in Nat
      BY <1>1, <3>1, TreeTypes
    <3> QED BY <3>1, <3>2
  <2> QED BY <2>1, <2>2
<1>6. file.defs \subseteq Node
  BY <1>3 DEF Summary
<1>7. flagged \subseteq RuleId \X Node
  <2>1. \A n \in Node : Says(n) \subseteq RuleId \X Node
    <3> SUFFICES ASSUME NEW n \in Node PROVE Says(n) \subseteq RuleId \X Node
      OBVIOUS
    <3>1. RulesAt(n) \subseteq RuleId /\ "006" \in RuleId
      BY RuleByRule DEF RuleId
    <3>2. \A rule \in RulesAt(n) : <<rule, n>> \in RuleId \X Node
      BY <3>1
    <3>3. \A m \in Node : <<"006", m>> \in RuleId \X Node
      BY <3>1
    <3> QED BY <3>2, <3>3 DEF Says
  <2>2. Overdue \subseteq RuleId \X Node
    <3>1. "005" \in RuleId
      BY DEF RuleId
    <3>2. \A f \in Node : <<"005", f>> \in RuleId \X Node
      BY <3>1
    <3> QED BY <3>2 DEF Overdue
  <2> QED BY <1>3, <2>1, <2>2
<1> QED BY <1>1, <1>2, <1>4, <1>5, <1>6, <1>7 DEF TypeOK, Scope, Frame

\* The fields of the place: the innermost async function's calls of Popen.
LEMMA InvScope == Inv => ScopeIsLexical
<1> SUFFICES ASSUME Inv, NEW i \in 1..Len(stack), i = Len(stack)
             PROVE  LET around == {f \in tree.above[Top.node] : tree.kind[f] = "async"}
                    IN  /\ scope.task <=> around # {}
                        /\ around = {} => scope.popens = {}
                        /\ \A f \in around : (\A g \in around : g <= f) => scope.popens = BlockingPopens(tree, f)
  BY DEF ScopeIsLexical
<1>1. stack # <<>> /\ stack \in Seq(Frame) /\ tree \in Trees
  BY EmptySeq DEF Inv, Types
<1>2. scope = Lexical(Top.node) /\ Top.node \in Node
  BY <1>1, RestFacts DEF Inv, Place, Frame
<1> DEFINE n == Top.node
           around == {f \in tree.above[n] : tree.kind[f] = "async"}
<1>3. \A f : Nearest(n, {"async"}, f) <=> f \in around /\ \A g \in around : g <= f
  BY DEF Nearest
<1> HIDE DEF n
<1>4. scope.task <=> around # {}
  BY <1>2 DEF Lexical, n
<1>5. scope.popens = {p \in Node : \E f \in Node : Nearest(n, {"async"}, f) /\ p \in BlockingPopens(tree, f)}
  BY <1>2 DEF Lexical, n
<1>6. around = {} => scope.popens = {}
  BY <1>3, <1>5
<1>7. ASSUME NEW f \in around, \A g \in around : g <= f
      PROVE  scope.popens = BlockingPopens(tree, f)
  <2>1. Nearest(n, {"async"}, f) /\ f \in Node /\ n \in Node
    BY <1>1, <1>2, <1>3, <1>7, TreeTypes DEF n
  <2>2. \A g : Nearest(n, {"async"}, g) => g = f
    BY <1>1, <2>1, NearestIsOne
  <2>3. BlockingPopens(tree, f) \subseteq Node
    BY PopensAreCalls
  <2> QED BY <1>5, <2>1, <2>2, <2>3
<1> QED BY <1>4, <1>6, <1>7 DEF n

\* At the end a pair is reported exactly if the rule condemns the node, or it is the
\* first set of a coroutine that leaks, or a task without a limit.
LEMMA FlaggedAtTheEnd ==
  ASSUME Inv, stack = <<>>, NEW r, NEW n \in Node
  PROVE  <<r, n>> \in flagged <=> \/ r \in RulesAt(n)
                                  \/ r = "006" /\ SetCall(tree, n) /\ \E f \in Node : Leaks(n, f)
                                  \/ r = "005" /\ CeleryTask(n) /\ "limit" \notin tree.marks[n]
<1>1. tree \in Trees /\ flagged = (UNION {Says(m) : m \in Node}) \cup Overdue
  BY DEF Inv, Types, Finished
<1>2. \A m \in Node : <<r, n>> \in Says(m) <=> \/ m = n /\ r \in RulesAt(m)
                                               \/ r = "006" /\ LeavesContext(tree, m) /\ n \in FirstSet(tree, m)
  BY DEF Says
<1>3. <<r, n>> \in UNION {Says(m) : m \in Node} <=> \E m \in Node : <<r, n>> \in Says(m)
  OBVIOUS
<1>4. <<r, n>> \in Overdue <=> r = "005" /\ CeleryTask(n) /\ "limit" \notin tree.marks[n]
  BY DEF Overdue
<1>5. \A m \in Node : LeavesContext(tree, m) /\ n \in FirstSet(tree, m) <=> SetCall(tree, n) /\ Leaks(n, m)
  BY <1>1, FirstSetMeans
<1> QED BY <1>1, <1>2, <1>3, <1>4, <1>5

LEMMA InvExact == Inv => ReportIsExact
<1> SUFFICES ASSUME Inv, stack = <<>> PROVE ReportIsExact
  BY DEF ReportIsExact
<1>1. scope = NoScope
  BY DEF Inv, Finished
<1>2. ASSUME NEW n \in Node
      PROVE  /\ \A lib \in Library :
                  <<lib.rule, n>> \in flagged <=> tree.kind[n] = "call" /\ InCoroutine(n) /\ Known(n, lib)
             /\ <<"007", n>> \in flagged <=> InCoroutine(n) /\ StartsProcess(n)
             /\ <<"009", n>> \in flagged <=> InCoroutine(n) /\ Open(tree, n) /\ ~Delegable(n)
             /\ <<"009 WARNING", n>> \in flagged <=> InCoroutine(n) /\ Open(tree, n) /\ Delegable(n)
             /\ <<"005", n>> \in flagged <=> CeleryTask(n) /\ "limit" \notin tree.marks[n]
             /\ <<"006", n>> \in flagged <=> SetCall(tree, n) /\ \E f \in Node : Leaks(n, f)
             /\ \A rule \in {"001", "003", "010", "011", "015", "016"} :
                  <<rule, n>> \in flagged <=> rule \in ByText(tree, n) /\ InCoroutine(n)
             /\ \A rule \in {"012", "014"} :
                  <<rule, n>> \in flagged <=>
                    rule \in Discarded(tree, n) /\ \E f \in Enclosing(n) : tree.kind[f] = "async"
  <2>1. \A r : <<r, n>> \in flagged <=> \/ r \in RulesAt(n)
                                        \/ r = "006" /\ SetCall(tree, n) /\ \E f \in Node : Leaks(n, f)
                                        \/ r = "005" /\ CeleryTask(n) /\ "limit" \notin tree.marks[n]
    BY FlaggedAtTheEnd
  <2>2. \A lib \in Library : lib.rule \in {"002", "004", "008"}
    <3>1. Requests.rule = "002" /\ Threading.rule = "004" /\ Sqlite3.rule = "008"
      BY DEF Requests, Threading, Sqlite3
    <3> QED BY <3>1 DEF Library
  <2>3. \A lib \in Library : <<lib.rule, n>> \in flagged <=> lib.rule \in RulesAt(n)
    BY <2>1, <2>2
  <2>4. \A r \in {"007", "009", "009 WARNING", "001", "003", "010", "011", "015", "016", "012", "014"} :
          <<r, n>> \in flagged <=> r \in RulesAt(n)
    BY <2>1
  <2>5. /\ <<"005", n>> \in flagged <=> CeleryTask(n) /\ "limit" \notin tree.marks[n]
        /\ <<"006", n>> \in flagged <=> SetCall(tree, n) /\ \E f \in Node : Leaks(n, f)
    <3>1. "005" \notin RulesAt(n) /\ "006" \notin RulesAt(n)
      BY RuleByRule
    <3> QED BY <2>1, <3>1
  <2>6. \A lib \in Library : BoundCall(n, lib) <=> tree.kind[n] = "call" /\ Known(n, lib)
    BY DEF BoundCall
  <2>7. \A lib \in Library :
          <<lib.rule, n>> \in flagged <=> tree.kind[n] = "call" /\ InCoroutine(n) /\ Known(n, lib)
    BY <2>3, <2>6, RuleByRule
  <2>8. /\ <<"007", n>> \in flagged <=> InCoroutine(n) /\ StartsProcess(n)
        /\ <<"009", n>> \in flagged <=> InCoroutine(n) /\ Open(tree, n) /\ ~Delegable(n)
        /\ <<"009 WARNING", n>> \in flagged <=> InCoroutine(n) /\ Open(tree, n) /\ Delegable(n)
    BY <2>4, RuleByRule
  <2>9. /\ \A rule \in {"001", "003", "010", "011", "015", "016"} :
             <<rule, n>> \in flagged <=> rule \in ByText(tree, n) /\ InCoroutine(n)
        /\ \A rule \in {"012", "014"} :
             <<rule, n>> \in flagged <=>
               rule \in Discarded(tree, n) /\ \E f \in Enclosing(n) : tree.kind[f] = "async"
    BY <2>4, RuleByRule
  <2> QED BY <2>5, <2>7, <2>8, <2>9
<1>3. \A n : Delegable(n) <=>
        /\ "value" \in tree.marks[n]
        /\ LET w == tree.parent[n]
           IN  tree.kind[w] = "with" /\ tree.name[w] # "" /\ HandleOnlyDelegated(tree, w)
  BY DEF Delegable
<1>4. \A n : StartsProcess(n) <=>
        \/ tree.name[n] = "subprocess" /\ Method(tree, n, {"run", "call", "check_output"})
        \/ Popen(tree, n) /\ WaitedFor(n)
  BY DEF StartsProcess
<1>5. \A n \in Node : /\ <<"009", n>> \in flagged \/ <<"009 WARNING", n>> \in flagged <=>
                           InCoroutine(n) /\ Open(tree, n)
                      /\ ~ {<<"009", n>>, <<"009 WARNING", n>>} \subseteq flagged
  BY <1>2
<1> QED BY <1>1, <1>2, <1>3, <1>4, <1>5 DEF ReportIsExact

LEMMA InvAlways == Spec => []Inv
BY InitInv, NextInv, PTL DEF Spec

\* The collected opens are opens, no name is bound twice, and every report is a rule's
\* of a node: the collectors of async_open.py and celery_no_time_limit.py.
THEOREM BindingTypes == Spec => []TypeOK
BY InvAlways, InvTypes, PTL

\* At every moment of the walk over any file the fields that visit_AsyncFunctionDef
\* sets and restores are those of the place (subprocess_async.py, base.py).
THEOREM ScopeFollowsTheWalk == Spec => []ScopeIsLexical
BY InvAlways, InvScope, PTL

\* For any file, at the end of the walk: each of the fifteen rules has reported
\* exactly what the whole file condemns, and no field is left behind.
THEOREM BindingRulesAreExact == Spec => []ReportIsExact
BY InvAlways, InvExact, PTL
=============================================================================
