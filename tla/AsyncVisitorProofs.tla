------------------------- MODULE AsyncVisitorProofs -------------------------
(***************************************************************************)
(* For trees of any size: the field _current_async_func is the lexical     *)
(* scope at every node, although it is one variable saved and restored     *)
(* around recursive calls, and the walk reports exactly the calls in async *)
(* code.                                                                   *)
(***************************************************************************)
EXTENDS AsyncVisitor, SequenceTheorems, TLAPS

\* The calls under way form a path from the root of the tree, each has saved
\* the scope its node is in and has only children of its node left to visit.
OnPath ==
  /\ \A i \in 1..Len(stack) : /\ stack[i].saved = tree.scope[stack[i].node]
                              /\ stack[i].todo \subseteq Children(stack[i].node)
  /\ stack # <<>> => stack[1].node = tree.root
  /\ \A i \in 1..(Len(stack) - 1) : tree.parent[stack[i + 1].node] = stack[i].node

\* The field is the scope of what is written inside the node on top.
FieldIsInner == current = IF stack = <<>> THEN None ELSE Inside(tree, Top.node)

\* Nothing is forgotten: what has been visited has its children visited, or
\* waiting in a call under way.
Waiting(n) == \E i \in 1..Len(stack) : n \in stack[i].todo
NoneForgotten ==
  \A n \in Node \ {tree.root} :
    seen[tree.parent[n]] # Unseen => seen[n] # Unseen \/ Waiting(n)

\* The root comes first.
RootFirst == stack # <<>> => seen[tree.root] # Unseen

FlaggedSoFar ==
  flagged = {n \in Node : tree.kind[n] = "call" /\ seen[n] \notin {None, Unseen}}

Inv == /\ TypeOK /\ tree \in Trees
       /\ OnPath /\ FieldIsInner /\ FieldIsLexicalScope
       /\ NoneForgotten /\ RootFirst /\ FlaggedSoFar

-----------------------------------------------------------------------------
LEMMA TreeFacts ==
  ASSUME tree \in Trees
  PROVE  /\ tree \in Tree /\ Lexical(tree) /\ Rooted(tree)
         /\ tree.root \in Node /\ None \notin Node
         /\ tree.parent \in [Node -> Node \cup {None}]
         /\ tree.scope \in [Node -> Node \cup {None}]
         /\ tree.parent[tree.root] = None /\ tree.scope[tree.root] = None
         /\ \A n \in Node \ {tree.root} :
              tree.parent[n] \in Node /\ tree.scope[n] = Inside(tree, tree.parent[n])
         /\ \A n \in Node : Inside(tree, n) \in Node \cup {None}
BY TreesAssumption, NodeAssumption DEF Tree, Lexical, Inside

LEMMA InitInv == Init => Inv
<1> SUFFICES ASSUME Init PROVE Inv
  OBVIOUS
<1>1. tree \in Tree /\ Lexical(tree)
  BY TreeFacts DEF Init
<1>2. stack = <<>> /\ stack \in Seq(Frame) /\ Len(stack) = 0
  BY DEF Init
<1>3. TypeOK /\ tree \in Trees
  BY <1>1, <1>2 DEF Init, TypeOK
<1>4. OnPath /\ FieldIsInner /\ FieldIsLexicalScope
  BY <1>2 DEF Init, OnPath, FieldIsInner, FieldIsLexicalScope
<1>5. NoneForgotten /\ RootFirst /\ FlaggedSoFar
  BY <1>1, <1>2 DEF Init, NoneForgotten, RootFirst, FlaggedSoFar, Lexical
<1> QED BY <1>3, <1>4, <1>5 DEF Inv

\* What coming to a node does when the node is the next one in line: `below` is
\* the stack without its top's promise to visit n.
LEMMA VisitInv ==
  ASSUME Inv, UNCHANGED tree,
         NEW n \in Node, NEW below \in Seq(Frame), Visit(n, below),
         current = tree.scope[n],
         Len(below) = Len(stack),
         \A i \in 1..Len(below) : /\ below[i].node = stack[i].node
                                  /\ below[i].saved = stack[i].saved
                                  /\ below[i].todo \subseteq stack[i].todo
                                  /\ stack[i].todo \ below[i].todo \subseteq {n},
         IF Len(below) = 0 THEN n = tree.root
                           ELSE tree.parent[n] = below[Len(below)].node
  PROVE  Inv'
<1> DEFINE f == [node |-> n, saved |-> current, todo |-> Children(n)]
<1>1. /\ stack' = Append(below, f) /\ tree' = tree
      /\ seen' = [seen EXCEPT ![n] = current]
      /\ current' = SetOnEntry(n)
      /\ flagged' = IF tree.kind[n] = "call" /\ current # None THEN flagged \cup {n} ELSE flagged
  BY DEF Visit
<1>2. f \in Frame /\ f.node = n /\ f.saved = current /\ f.todo = Children(n)
  BY DEF Inv, TypeOK, Frame, Children
<1> HIDE DEF f
<1>3. /\ stack' \in Seq(Frame) /\ Len(stack') = Len(below) + 1 /\ stack' # <<>>
      /\ Len(below) \in Nat
      /\ \A i \in 1..Len(below) : stack'[i] = below[i]
      /\ stack'[Len(below) + 1] = f
  BY <1>1, <1>2, AppendProperties, LenProperties
<1>4. current' = Inside(tree, n) /\ current \in Node \cup {None} /\ current' \in Node \cup {None}
  BY <1>1, TreeFacts DEF SetOnEntry, Inside, Inv, TypeOK
<1>5. TypeOK' /\ tree' \in Trees
  BY <1>1, <1>3, <1>4 DEF Inv, TypeOK
<1>6. OnPath'
  <2>1. ASSUME NEW i \in 1..Len(stack')
        PROVE  /\ stack'[i].saved = tree.scope[stack'[i].node]
               /\ stack'[i].todo \subseteq Children(stack'[i].node)
    <3>1. CASE i = Len(below) + 1
      BY <1>2, <1>3, <3>1
    <3>2. CASE i # Len(below) + 1
      <4>1. i \in 1..Len(below) /\ i \in 1..Len(stack) /\ stack'[i] = below[i]
        BY <1>3, <3>2
      <4>2. /\ stack[i].saved = tree.scope[stack[i].node]
            /\ stack[i].todo \subseteq Children(stack[i].node)
        BY <4>1 DEF Inv, OnPath
      <4> QED BY <4>1, <4>2
    <3> QED BY <3>1, <3>2
  <2>2. stack'[1].node = tree.root
    BY <1>2, <1>3 DEF Inv, OnPath
  <2>3. ASSUME NEW i \in 1..(Len(stack') - 1)
        PROVE  tree.parent[stack'[i + 1].node] = stack'[i].node
    <3>1. CASE i = Len(below)
      BY <1>2, <1>3, <3>1
    <3>2. CASE i # Len(below)
      <4>1. /\ i \in 1..(Len(stack) - 1) /\ i \in 1..Len(below) /\ i + 1 \in 1..Len(below)
            /\ stack'[i] = below[i] /\ stack'[i + 1] = below[i + 1]
        BY <1>3, <3>2
      <4>2. tree.parent[stack[i + 1].node] = stack[i].node
        BY <4>1 DEF Inv, OnPath
      <4> QED BY <4>1, <4>2
    <3> QED BY <3>1, <3>2
  <2> QED BY <1>1, <2>1, <2>2, <2>3 DEF OnPath, Children
<1>7. FieldIsInner'
  BY <1>1, <1>2, <1>3, <1>4 DEF FieldIsInner, Top, Inside, Clears
<1>8. FieldIsLexicalScope'
  BY <1>1 DEF Inv, TypeOK, FieldIsLexicalScope
<1>9. NoneForgotten'
  <2> SUFFICES ASSUME NEW m \in Node \ {tree.root}, seen'[tree.parent[m]] # Unseen,
                      seen'[m] = Unseen
               PROVE  \E i \in 1..Len(stack') : m \in stack'[i].todo
    BY <1>1 DEF NoneForgotten, Waiting
  <2>1. m # n /\ seen[m] = Unseen
    BY <1>1, <1>4, NodeAssumption, TreeFacts DEF Inv, TypeOK
  <2>2. CASE tree.parent[m] = n
    <3>1. m \in f.todo
      BY <1>2, <2>2 DEF Children
    <3> QED BY <1>3, <3>1
  <2>3. CASE tree.parent[m] # n
    <3>1. seen[tree.parent[m]] # Unseen
      BY <1>1, <2>3, TreeFacts DEF Inv, TypeOK
    <3>2. PICK i \in 1..Len(stack) : m \in stack[i].todo
      BY <2>1, <3>1 DEF Inv, NoneForgotten, Waiting
    <3> QED BY <1>3, <2>1, <3>2
  <2> QED BY <2>2, <2>3
<1>10. RootFirst'
  BY <1>1, <1>3, <1>4, NodeAssumption, TreeFacts DEF Inv, TypeOK, RootFirst
<1>11. FlaggedSoFar'
  BY <1>1, <1>4, NodeAssumption DEF Inv, TypeOK, FlaggedSoFar, FieldIsLexicalScope
<1> QED BY <1>5, <1>6, <1>7, <1>8, <1>9, <1>10, <1>11 DEF Inv

\* The stack without its top.
LEMMA RestFacts ==
  ASSUME stack \in Seq(Frame), stack # <<>>
  PROVE  /\ Len(stack) \in Nat \ {0} /\ Top \in Frame /\ Top = stack[Len(stack)]
         /\ Rest \in Seq(Frame) /\ Len(Rest) = Len(stack) - 1
         /\ \A i \in 1..(Len(stack) - 1) : Rest[i] = stack[i]
<1> DEFINE n == Len(stack) - 1
<1>1. /\ Len(stack) \in Nat \ {0} /\ n \in Nat
      /\ \A i \in 1..Len(stack) : stack[i] \in Frame
  BY EmptySeq, ElementOfSeq
<1>2. \A i \in 1..n : stack[i] \in Frame
  BY <1>1
<1>3. Top \in Frame /\ Top = stack[Len(stack)]
  BY <1>1 DEF Top
<1>4. Rest = SubSeq(stack, 1, n)
  BY DEF Rest
<1> HIDE DEF n
<1>5. /\ Rest \in Seq(Frame)
      /\ Len(Rest) = IF 1 <= n THEN n - 1 + 1 ELSE 0
      /\ \A i \in 1..(n - 1 + 1) : Rest[i] = stack[1 + i - 1]
  BY <1>1, <1>2, <1>4, SubSeqProperties
<1>6. n - 1 + 1 = n /\ \A i \in 1..n : 1 + i - 1 = i
  BY <1>1
<1>7. Len(Rest) = n /\ \A i \in 1..n : Rest[i] = stack[i]
  BY <1>1, <1>5, <1>6
<1> QED BY <1>1, <1>3, <1>5, <1>7 DEF n

LEMMA StartInv == Inv /\ Start => Inv'
<1> SUFFICES ASSUME Inv, Start PROVE Inv'
  OBVIOUS
<1>1. /\ stack = <<>> /\ Len(stack) = 0 /\ <<>> \in Seq(Frame) /\ Len(<<>>) = 0
      /\ Visit(tree.root, <<>>) /\ UNCHANGED tree
  BY DEF Start
<1>2. tree.root \in Node /\ current = tree.scope[tree.root]
  BY <1>1, TreeFacts DEF Inv, FieldIsInner
<1> QED BY <1>1, <1>2, VisitInv

LEMMA DescendInv == Inv /\ Descend => Inv'
<1> SUFFICES ASSUME Inv, Descend PROVE Inv'
  OBVIOUS
<1>1. stack # <<>> /\ stack \in Seq(Frame)
  BY DEF Descend, Inv, TypeOK
<1>2. PICK c \in Top.todo : Visit(c, Append(Rest, [Top EXCEPT !.todo = @ \ {c}]))
  BY DEF Descend
<1> DEFINE left  == [Top EXCEPT !.todo = @ \ {c}]
           below == Append(Rest, left)
<1>3. Top \in Frame /\ Top = stack[Len(stack)]
  BY <1>1, RestFacts
<1>4. /\ left \in Frame /\ left.node = Top.node /\ left.saved = Top.saved
      /\ left.todo = Top.todo \ {c}
  BY <1>3 DEF Frame
<1> HIDE DEF left
<1>5. /\ below \in Seq(Frame) /\ Len(below) = Len(stack) /\ Len(stack) \in Nat \ {0}
      /\ \A i \in 1..(Len(stack) - 1) : below[i] = stack[i]
      /\ below[Len(stack)] = left
  BY <1>1, <1>4, RestFacts, AppendProperties
<1> HIDE DEF below
<1>6. \A i \in 1..Len(below) : /\ below[i].node = stack[i].node
                               /\ below[i].saved = stack[i].saved
                               /\ below[i].todo \subseteq stack[i].todo
                               /\ stack[i].todo \ below[i].todo \subseteq {c}
  <2> SUFFICES ASSUME NEW i \in 1..Len(stack)
               PROVE  /\ below[i].node = stack[i].node
                      /\ below[i].saved = stack[i].saved
                      /\ below[i].todo \subseteq stack[i].todo
                      /\ stack[i].todo \ below[i].todo \subseteq {c}
    BY <1>5
  <2>1. CASE i = Len(stack)
    BY <1>3, <1>4, <1>5, <2>1
  <2>2. CASE i # Len(stack)
    BY <1>5, <2>2
  <2> QED BY <2>1, <2>2
<1>7. c \in Node /\ tree.parent[c] = Top.node /\ Top.node \in Node
  BY <1>1, <1>3, <1>5 DEF Inv, OnPath, Children, Frame
<1>8. current = tree.scope[c]
  BY <1>1, <1>7, TreeFacts DEF Inv, FieldIsInner
<1>9. tree.parent[c] = below[Len(below)].node
  BY <1>4, <1>5, <1>7
<1>10. Visit(c, below) /\ UNCHANGED tree
  BY <1>2 DEF below, left, Descend
<1> QED BY <1>5, <1>6, <1>7, <1>8, <1>9, <1>10, VisitInv

LEMMA ReturnInv == Inv /\ Return => Inv'
<1> SUFFICES ASSUME Inv, Return PROVE Inv'
  OBVIOUS
<1>1. /\ stack # <<>> /\ stack \in Seq(Frame) /\ Top.todo = {} /\ stack' = Rest
      /\ current' = IF tree.kind[Top.node] = "async" \/ Clears(tree, Top.node)
                      THEN Top.saved ELSE current
      /\ tree' = tree /\ seen' = seen /\ flagged' = flagged
  BY DEF Return, Inv, TypeOK
<1>2. /\ Len(stack) \in Nat \ {0} /\ Top \in Frame /\ Top = stack[Len(stack)]
      /\ stack' \in Seq(Frame) /\ Len(stack') = Len(stack) - 1
      /\ \A i \in 1..(Len(stack) - 1) : stack'[i] = stack[i]
  BY <1>1, RestFacts
<1>3. Top.node \in Node /\ Top.saved = tree.scope[Top.node]
  BY <1>2 DEF Inv, OnPath, Frame
<1>4. current' = tree.scope[Top.node]
  BY <1>1, <1>3 DEF Inv, FieldIsInner, Inside
<1>5. TypeOK' /\ tree' \in Trees
  BY <1>1, <1>2, <1>3, <1>4, TreeFacts DEF Inv, TypeOK
<1>6. OnPath'
  BY <1>1, <1>2 DEF Inv, OnPath, Children
<1>7. FieldIsInner'
  <2>1. CASE Len(stack) = 1
    <3>1. stack' = <<>>
      BY <1>2, <2>1, EmptySeq
    <3>2. Top.node = tree.root
      BY <1>1, <1>2, <2>1 DEF Inv, OnPath
    <3> QED BY <1>4, <3>1, <3>2, TreeFacts DEF Inv, FieldIsInner
  <2>2. CASE Len(stack) # 1
    <3>1. stack' # <<>> /\ Top' = stack[Len(stack) - 1]
      BY <1>2, <2>2, EmptySeq DEF Top
    <3>2. tree.parent[Top.node] = stack[Len(stack) - 1].node
      <4>1. Len(stack) - 1 \in 1..(Len(stack) - 1) /\ (Len(stack) - 1) + 1 = Len(stack)
        BY <1>2, <2>2
      <4> QED BY <1>2, <4>1 DEF Inv, OnPath
    <3>3. stack[Len(stack) - 1] \in Frame
      BY <1>1, <1>2, <2>2, ElementOfSeq
    <3>4. Top.node # tree.root
      BY <3>2, <3>3, TreeFacts DEF Inv, Frame
    <3>5. tree.scope[Top.node] = Inside(tree, stack[Len(stack) - 1].node)
      BY <1>3, <3>2, <3>4, TreeFacts DEF Inv
    <3> QED BY <1>1, <1>4, <3>1, <3>5 DEF FieldIsInner, Inside, Clears
  <2> QED BY <2>1, <2>2
<1>8. FieldIsLexicalScope' /\ FlaggedSoFar'
  BY <1>1 DEF Inv, FieldIsLexicalScope, FlaggedSoFar
<1>9. NoneForgotten'
  <2> SUFFICES ASSUME NEW n \in Node \ {tree.root}, seen[tree.parent[n]] # Unseen, seen[n] = Unseen
               PROVE  \E i \in 1..Len(stack') : n \in stack'[i].todo
    BY <1>1 DEF NoneForgotten, Waiting
  <2>1. PICK i \in 1..Len(stack) : n \in stack[i].todo
    BY DEF Inv, NoneForgotten, Waiting
  <2>2. i # Len(stack)
    BY <1>1, <1>2, <2>1
  <2> QED BY <1>2, <2>1, <2>2
<1>10. RootFirst'
  BY <1>1 DEF Inv, RootFirst
<1> QED BY <1>5, <1>6, <1>7, <1>8, <1>9, <1>10 DEF Inv

LEMMA StutterInv == Inv /\ UNCHANGED vars => Inv'
<1> SUFFICES ASSUME Inv, UNCHANGED vars PROVE Inv'
  OBVIOUS
<1>1. TypeOK' /\ tree' \in Trees /\ FieldIsInner' /\ FieldIsLexicalScope'
  BY DEF vars, Inv, TypeOK, FieldIsInner, Top, Inside, Clears, FieldIsLexicalScope
<1>2. OnPath' /\ NoneForgotten' /\ RootFirst' /\ FlaggedSoFar'
  BY DEF vars, Inv, OnPath, Children, NoneForgotten, Waiting, RootFirst, FlaggedSoFar
<1> QED BY <1>1, <1>2 DEF Inv

LEMMA NextInv == Inv /\ [Next]_vars => Inv'
BY StartInv, DescendInv, ReturnInv, StutterInv DEF Next

\* When the walk is over nothing is waiting, so the visited nodes are closed
\* under children and, the tree being rooted, are all its nodes.
LEMMA InvIsExact == Inv => ReportIsExact
<1> SUFFICES ASSUME Inv, stack = <<>>, seen[tree.root] # Unseen
             PROVE  /\ \A n \in Node : seen[n] # Unseen
                    /\ current = None
                    /\ flagged = {n \in Node : tree.kind[n] = "call" /\ tree.scope[n] # None}
  BY DEF ReportIsExact, Walked
<1> DEFINE S == {n \in Node : seen[n] # Unseen}
<1>1. tree.root \in S
  BY TreeFacts DEF Inv
<1>2. ASSUME NEW n \in Node, tree.parent[n] \in S PROVE n \in S
  <2>1. CASE n = tree.root
    BY <1>1, <2>1
  <2>2. CASE n # tree.root
    BY <1>2, <2>2 DEF Inv, NoneForgotten, Waiting
  <2> QED BY <2>1, <2>2
<1>3. S = Node
  <2>1. Rooted(tree) /\ S \in SUBSET Node
    BY TreeFacts DEF Inv
  <2> HIDE DEF S
  <2> QED BY <1>1, <1>2, <2>1 DEF Rooted
<1>4. current = None
  BY DEF Inv, FieldIsInner
<1>5. \A n \in Node : seen[n] # Unseen /\ seen[n] = tree.scope[n]
  BY <1>3 DEF Inv, FieldIsLexicalScope
<1> QED BY <1>4, <1>5 DEF Inv, FlaggedSoFar

\* The one field saved and restored around recursive calls is the lexical scope
\* at every node of every tree.
THEOREM FieldIsScope == Spec => []FieldIsLexicalScope
<1>1. Inv => FieldIsLexicalScope
  BY DEF Inv
<1> QED BY <1>1, InitInv, NextInv, PTL DEF Spec

\* Type correctness: the field holds None or a function of the tree, and the frames
\* of the walk are visits of its nodes.
THEOREM VisitorTypes == Spec => []TypeOK
<1>1. Inv => TypeOK
  BY DEF Inv
<1> QED BY <1>1, InitInv, NextInv, PTL DEF Spec

\* A finished walk has looked at every node and reported the matching calls in
\* async code, no other.
THEOREM WalkIsExact == Spec => []ReportIsExact
BY InitInv, NextInv, InvIsExact, PTL DEF Spec
=============================================================================
