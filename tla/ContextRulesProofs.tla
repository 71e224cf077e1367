------------------------- MODULE ContextRulesProofs -------------------------
(***************************************************************************)
(* For trees of any size and shape: the fields that the four rules set on  *)
(* the way in and restore on the way out say at every moment what encloses *)
(* the place the walk is at, and the rules report exactly what their       *)
(* surroundings condemn.                                                   *)
(***************************************************************************)
EXTENDS ContextRules, SequenceTheorems, FiniteSetTheorems, WellFoundedInduction, TLAPS

(***************************************************************************)
(* Trees                                                                   *)
(***************************************************************************)
LEMMA TreeTypes ==
  ASSUME NEW t \in Trees
  PROVE  /\ t \in Tree /\ WellFormed(t)
         /\ t.root \in Node /\ t.kind \in [Node -> NodeKind] /\ t.kind[t.root] = "module"
         /\ t.above \in [Node -> SUBSET Node] /\ t.above[t.root] = {t.root}
         /\ t.parent \in [Node -> Node] /\ t.marks \in [Node -> SUBSET Mark] /\ t.broad \in BOOLEAN
         /\ \A n \in Node \ {t.root} :
              /\ t.parent[n] \in Node /\ t.above[n] = {n} \cup t.above[t.parent[n]]
              /\ n \notin t.above[t.parent[n]]
              /\ t.kind[n] = "handler" => t.kind[t.parent[n]] = "try"
         /\ \A n \in Node : n \in t.above[n]
BY TreesAssumption DEF WellFormed, Tree

\* A set that holds the root and the children of its members holds every node:
\* of the nodes it lacked, take one with the fewest nodes above it; its parent
\* has fewer.
LEMMA TreeInduction ==
  ASSUME NEW t \in Trees, NEW S \in SUBSET Node, t.root \in S,
         \A n \in Node \ {t.root} : t.parent[n] \in S => n \in S
  PROVE  S = Node
<1> SUFFICES ASSUME Node \ S # {} PROVE FALSE
  OBVIOUS
<1> DEFINE T == {t.above[n] : n \in Node \ S}
<1>1. T \subseteq FiniteSubsetsOf(Node) /\ T # {}
  BY TreeTypes, NodeAssumption, FS_Subset DEF FiniteSubsetsOf
<1>2. IsWellFoundedOn(StrictSubsetOrdering(Node), FiniteSubsetsOf(Node))
  BY FS_StrictSubsetOrderingWellFounded
<1> HIDE DEF T
<1>3. PICK a \in T : \A b \in T : <<b, a>> \notin StrictSubsetOrdering(Node)
  BY <1>1, <1>2, WFMin
<1>4. PICK n \in Node \ S : a = t.above[n]
  BY <1>3 DEF T
<1>5. /\ n # t.root /\ t.parent[n] \in Node \ S
      /\ t.above[n] = {n} \cup t.above[t.parent[n]] /\ n \notin t.above[t.parent[n]]
      /\ t.above[n] \in SUBSET Node /\ t.above[t.parent[n]] \in SUBSET Node
  BY TreeTypes
<1>6. t.above[t.parent[n]] \in T
  BY <1>5 DEF T
<1>7. <<t.above[t.parent[n]], a>> \in StrictSubsetOrdering(Node)
  BY <1>4, <1>5 DEF StrictSubsetOrdering
<1> QED BY <1>3, <1>6, <1>7

\* above is what it is called: it goes up to the root, and what is above a node
\* above n is above n.
LEMMA AboveIsUpwards ==
  ASSUME NEW t \in Trees, NEW n \in Node
  PROVE  t.root \in t.above[n] /\ \A m \in t.above[n] : t.above[m] \subseteq t.above[n]
<1> DEFINE S == {x \in Node : t.root \in t.above[x] /\ \A m \in t.above[x] : t.above[m] \subseteq t.above[x]}
<1>1. t.root \in S
  BY TreeTypes
<1>2. \A x \in Node \ {t.root} : t.parent[x] \in S => x \in S
  BY TreeTypes
<1>3. S \in SUBSET Node
  OBVIOUS
<1> HIDE DEF S
<1>4. S = Node
  BY <1>1, <1>2, <1>3, TreeInduction
<1> QED BY <1>4 DEF S

\* Two nodes are not above each other.
LEMMA NoCycle ==
  ASSUME NEW t \in Trees, NEW n \in Node, NEW m \in t.above[n], n \in t.above[m]
  PROVE  m = n
<1> SUFFICES ASSUME m # n PROVE FALSE
  OBVIOUS
<1>1. n # t.root
  BY TreeTypes
<1>2. m \in t.above[t.parent[n]] /\ n \notin t.above[t.parent[n]] /\ t.parent[n] \in Node
  BY <1>1, TreeTypes
<1> QED BY <1>2, AboveIsUpwards

\* From a node to one inside it the way goes through a child.
LEMMA ChildTowards ==
  ASSUME NEW t \in Trees, NEW m \in Node, NEW n \in t.above[m], n # m
  PROVE  \E c \in Children(t, n) : c \in t.above[m]
<1> DEFINE S == {x \in Node : \A y \in t.above[x] \ {x} : \E c \in Children(t, y) : c \in t.above[x]}
<1>1. t.root \in S
  BY TreeTypes
<1>2. ASSUME NEW x \in Node \ {t.root}, t.parent[x] \in S PROVE x \in S
  <2> SUFFICES ASSUME NEW y \in t.above[x] \ {x}
               PROVE  \E c \in Children(t, y) : c \in t.above[x]
    OBVIOUS
  <2>1. t.parent[x] \in Node /\ t.above[x] = {x} \cup t.above[t.parent[x]]
    BY TreeTypes
  <2>2. CASE y = t.parent[x]
    BY <2>1, <2>2 DEF Children
  <2>3. CASE y # t.parent[x]
    BY <1>2, <2>1, <2>3
  <2> QED BY <2>2, <2>3
<1>3. S \in SUBSET Node
  OBVIOUS
<1> HIDE DEF S
<1>4. S = Node
  BY <1>1, <1>2, <1>3, TreeInduction
<1> QED BY <1>4 DEF S

-----------------------------------------------------------------------------
(***************************************************************************)
(* What encloses a node, from what encloses its parent                     *)
(***************************************************************************)

\* Inside a function nothing else counts.
LEMMA InFunction ==
  ASSUME NEW t \in Trees, NEW n \in Node, t.kind[n] \in Functions
  PROVE  /\ InCoroutine(t, t.above[n]) <=> t.kind[n] = "async"
         /\ InGenerator(t, t.above[n]) <=> t.kind[n] = "async" /\ Yields(t, n)
         /\ ~InRetry(t, t.above[n]) /\ ~InReraising(t, t.above[n])
<1> DEFINE A == t.above[n]
<1>1. n \in A /\ A \in SUBSET Node
  BY TreeTypes
<1>2. \A f \in A : n \in t.above[f] => f = n
  BY NoCycle
<1> HIDE DEF A
<1>3. OwnFunction(t, A) = {n}
  BY <1>1, <1>2 DEF OwnFunction, A
<1>4. Local(t, A) = {}
  BY <1>2, <1>3 DEF Local
<1>5. (InCoroutine(t, A) <=> t.kind[n] = "async") /\ (InGenerator(t, A) <=> t.kind[n] = "async" /\ Yields(t, n))
  BY <1>3 DEF InCoroutine, InGenerator
<1>6. ~InRetry(t, A) /\ ~InReraising(t, A)
  BY <1>4 DEF InRetry, InReraising
<1> QED BY <1>5, <1>6 DEF A

\* Any other node adds itself to what its parent is in.
LEMMA InOther ==
  ASSUME NEW t \in Trees, NEW n \in Node \ {t.root}, t.kind[n] \notin Functions
  PROVE  LET P == t.above[t.parent[n]]
         IN  /\ InCoroutine(t, t.above[n]) <=> InCoroutine(t, P)
             /\ InGenerator(t, t.above[n]) <=> InGenerator(t, P)
             /\ InRetry(t, t.above[n]) <=>
                  IF t.kind[n] \in {"for", "while"} THEN t.kind[n] = "for" /\ "retry" \in t.marks[n]
                                                   ELSE InRetry(t, P)
             /\ InReraising(t, t.above[n]) <=>
                  InReraising(t, P) \/ (t.kind[n] = "handler" /\ Reraises(t, n))
<1> DEFINE A == t.above[n]
           P == t.above[t.parent[n]]
<1>1. A = {n} \cup P /\ n \notin P /\ P \in SUBSET Node /\ n \in A
  BY TreeTypes
<1>2. \A m \in P : t.above[m] \subseteq P
  BY AboveIsUpwards, TreeTypes
<1> HIDE DEF A, P
<1>3. OwnFunction(t, A) = OwnFunction(t, P)
  BY <1>1 DEF OwnFunction
<1>4. OwnFunction(t, P) \subseteq P
  BY DEF OwnFunction
<1>5. Local(t, A) = Local(t, P) \cup {n}
  <2>1. n \notin OwnFunction(t, P) /\ OwnFunction(t, P) \subseteq t.above[n]
    BY <1>1, <1>4 DEF A
  <2> QED BY <1>1, <1>3, <2>1 DEF Local
<1>6. Local(t, P) \subseteq P
  BY DEF Local
<1>7. (InCoroutine(t, A) <=> InCoroutine(t, P)) /\ (InGenerator(t, A) <=> InGenerator(t, P))
  BY <1>3 DEF InCoroutine, InGenerator
<1>8. InReraising(t, A) <=> InReraising(t, P) \/ (t.kind[n] = "handler" /\ Reraises(t, n))
  BY <1>5 DEF InReraising
<1>9. CASE t.kind[n] \in {"for", "while"}
  <2>1. \A l \in Local(t, P) : n \notin t.above[l]
    BY <1>1, <1>2, <1>6
  <2>2. \A k \in Local(t, A) : k \in t.above[n]
    BY <1>1, <1>5, <1>6 DEF A
  <2>3. InRetry(t, A) <=> t.kind[n] = "for" /\ "retry" \in t.marks[n]
    BY <1>5, <1>9, <2>1, <2>2 DEF InRetry
  <2> QED BY <1>7, <1>8, <1>9, <2>3 DEF A, P
<1>10. CASE t.kind[n] \notin {"for", "while"}
  <2>1. InRetry(t, A) <=> InRetry(t, P)
    BY <1>5, <1>10 DEF InRetry
  <2> QED BY <1>7, <1>8, <1>10, <2>1 DEF A, P
<1> QED BY <1>9, <1>10

\* The root is in nothing.
LEMMA InRoot ==
  ASSUME NEW t \in Trees
  PROVE  LET A == t.above[t.root]
         IN  /\ ~InCoroutine(t, A) /\ ~InGenerator(t, A) /\ ~InRetry(t, A) /\ ~InReraising(t, A)
             /\ \A n \in A : ~Shields(t, n)
<1>1. t.above[t.root] = {t.root} /\ t.kind[t.root] = "module"
  BY TreeTypes
<1>2. OwnFunction(t, {t.root}) = {}
  BY <1>1 DEF OwnFunction, Functions
<1>3. Local(t, {t.root}) \subseteq {t.root}
  BY DEF Local
<1> QED BY <1>1, <1>2, <1>3 DEF InCoroutine, InGenerator, InRetry, InReraising, Shields

-----------------------------------------------------------------------------
(***************************************************************************)
(* The fields                                                              *)
(***************************************************************************)

\* Entered(n), from any values c of the fields.
From(n, c) ==
  [async     |-> IF Function(n) THEN tree.kind[n] = "async" ELSE c.async,
   gen       |-> IF Function(n) THEN tree.kind[n] = "async" /\ Yields(tree, n) ELSE c.gen,
   loops     |-> IF Function(n) THEN <<>>
                 ELSE IF PushesLoop(n) THEN Append(c.loops, tree.kind[n] = "for" /\ "retry" \in tree.marks[n])
                 ELSE c.loops,
   reraising |-> IF Function(n) THEN 0 ELSE c.reraising + Reraising(n),
   protected |-> c.protected + Shielding(n)]

InRetryOf(c) == c.loops # <<>> /\ c.loops[Len(c.loops)]

\* The fields c say what encloses the inside of node n.
Right(n, c) ==
  LET around == tree.above[n]
  IN  /\ c.async <=> InCoroutine(tree, around)
      /\ c.gen <=> InGenerator(tree, around)
      /\ InRetryOf(c) <=> InRetry(tree, around)
      /\ c.reraising > 0 <=> InReraising(tree, around)
      /\ c.protected > 0 <=> \E m \in around : Shields(tree, m)

LEMMA FromType ==
  ASSUME NEW n \in Node, NEW c \in Context
  PROVE  From(n, c) \in Context
<1>1. /\ c.async \in BOOLEAN /\ c.gen \in BOOLEAN /\ c.loops \in Seq(BOOLEAN)
      /\ c.reraising \in Nat /\ c.protected \in Nat
  BY DEF Context
<1>2. Reraising(n) \in {0, 1} /\ Shielding(n) \in {0, 1}
  BY DEF Reraising, Shielding
<1>3. From(n, c).async \in BOOLEAN
  BY <1>1 DEF From
<1>4. From(n, c).gen \in BOOLEAN
  BY <1>1 DEF From, Yields
<1>5. From(n, c).loops \in Seq(BOOLEAN)
  <2> DEFINE e == (tree.kind[n] = "for" /\ "retry" \in tree.marks[n])
  <2>1. From(n, c).loops \in {<<>>, Append(c.loops, e), c.loops} /\ e \in BOOLEAN
    BY DEF From
  <2> HIDE DEF e
  <2>2. Append(c.loops, e) \in Seq(BOOLEAN) /\ <<>> \in Seq(BOOLEAN)
    BY <1>1, <2>1, AppendProperties, EmptySeq
  <2> QED BY <1>1, <2>1, <2>2
<1>6. From(n, c).reraising \in Nat /\ From(n, c).protected \in Nat
  BY <1>1, <1>2 DEF From
<1> QED BY <1>3, <1>4, <1>5, <1>6 DEF From, Context

\* Going into a node keeps the fields right.
LEMMA FromIsRight ==
  ASSUME tree \in Trees, NEW n \in Node \ {tree.root}, NEW c \in Context,
         Right(tree.parent[n], c)
  PROVE  Right(n, From(n, c))
<1> DEFINE d == From(n, c)
           A == tree.above[n]
           P == tree.above[tree.parent[n]]
<1>1. /\ c.async \in BOOLEAN /\ c.gen \in BOOLEAN /\ c.loops \in Seq(BOOLEAN)
      /\ c.reraising \in Nat /\ c.protected \in Nat
  BY DEF Context
<1>2. /\ d.protected = c.protected + Shielding(n)
      /\ d.reraising = IF Function(n) THEN 0 ELSE c.reraising + Reraising(n)
      /\ d.loops = IF Function(n) THEN <<>>
                   ELSE IF PushesLoop(n) THEN Append(c.loops, tree.kind[n] = "for" /\ "retry" \in tree.marks[n])
                   ELSE c.loops
      /\ d.async = IF Function(n) THEN tree.kind[n] = "async" ELSE c.async
      /\ d.gen = IF Function(n) THEN tree.kind[n] = "async" /\ Yields(tree, n) ELSE c.gen
  BY DEF From
<1>3. A = {n} \cup P /\ n \in Node
  BY TreeTypes
<1> HIDE DEF d
<1>4. d.protected > 0 <=> \E m \in A : Shields(tree, m)
  <2>1. c.protected > 0 <=> \E m \in P : Shields(tree, m)
    BY DEF Right
  <2>2. Shielding(n) = IF Shields(tree, n) THEN 1 ELSE 0
    BY DEF Shielding
  <2>3. d.protected > 0 <=> c.protected > 0 \/ Shields(tree, n)
    BY <1>1, <1>2, <2>2
  <2> QED BY <1>3, <2>1, <2>3
<1>5. CASE Function(n)
  <2>1. tree.kind[n] \in Functions
    BY <1>5 DEF Function
  <2>2. ~InRetryOf(d) /\ ~(d.reraising > 0)
    BY <1>2, <1>5 DEF InRetryOf
  <2>3. d.async = (tree.kind[n] = "async") /\ d.gen = (tree.kind[n] = "async" /\ Yields(tree, n))
    BY <1>2, <1>5
  <2> QED BY <1>3, <1>4, <2>1, <2>2, <2>3, InFunction DEF Right, d
<1>6. CASE ~Function(n)
  <2>1. tree.kind[n] \notin Functions
    BY <1>6 DEF Function
  <2>2. /\ InCoroutine(tree, A) <=> InCoroutine(tree, P)
        /\ InGenerator(tree, A) <=> InGenerator(tree, P)
        /\ InRetry(tree, A) <=>
             IF tree.kind[n] \in {"for", "while"} THEN tree.kind[n] = "for" /\ "retry" \in tree.marks[n]
                                                 ELSE InRetry(tree, P)
        /\ InReraising(tree, A) <=>
             InReraising(tree, P) \/ (tree.kind[n] = "handler" /\ Reraises(tree, n))
    BY <2>1, InOther
  <2>3. d.async = c.async /\ d.gen = c.gen
    BY <1>2, <1>6
  <2>4. d.reraising > 0 <=> InReraising(tree, A)
    <3>1. Reraising(n) = IF tree.kind[n] = "handler" /\ Reraises(tree, n) THEN 1 ELSE 0
      BY DEF Reraising
    <3>2. d.reraising > 0 <=> c.reraising > 0 \/ (tree.kind[n] = "handler" /\ Reraises(tree, n))
      BY <1>1, <1>2, <1>6, <3>1
    <3> QED BY <2>2, <3>2 DEF Right
  <2>5. InRetryOf(d) <=> InRetry(tree, A)
    <3>1. CASE PushesLoop(n)
      <4> DEFINE e == (tree.kind[n] = "for" /\ "retry" \in tree.marks[n])
      <4>1. d.loops = Append(c.loops, e) /\ e \in BOOLEAN
        BY <1>2, <1>6, <3>1
      <4> HIDE DEF e
      <4>2. d.loops # <<>> /\ d.loops[Len(d.loops)] = e
        BY <1>1, <4>1, AppendProperties
      <4> QED BY <2>2, <3>1, <4>2 DEF InRetryOf, PushesLoop, e
    <3>2. CASE ~PushesLoop(n)
      BY <1>2, <1>6, <2>2, <3>2 DEF InRetryOf, PushesLoop, Right
    <3> QED BY <3>1, <3>2
  <2> QED BY <1>4, <2>2, <2>3, <2>4, <2>5 DEF Right, d
<1> QED BY <1>5, <1>6

\* Coming out of a node puts the fields back.
LEMMA LeftIsBack ==
  ASSUME NEW n \in Node, NEW c \in Context, ctx = From(n, c)
  PROVE  Left(n, c) = c
<1>1. /\ c.async \in BOOLEAN /\ c.gen \in BOOLEAN /\ c.loops \in Seq(BOOLEAN)
      /\ c.reraising \in Nat /\ c.protected \in Nat
      /\ c = [async |-> c.async, gen |-> c.gen, loops |-> c.loops,
              reraising |-> c.reraising, protected |-> c.protected]
  BY DEF Context
<1>2. Reraising(n) \in Nat /\ Shielding(n) \in Nat
  BY DEF Reraising, Shielding
<1>3. ctx.protected - Shielding(n) = c.protected
  BY <1>1, <1>2 DEF From
<1>4. ~Function(n) => ctx.reraising - Reraising(n) = c.reraising /\ ctx.async = c.async /\ ctx.gen = c.gen
  BY <1>1, <1>2 DEF From
<1>5. ~Function(n) /\ ~PushesLoop(n) => ctx.loops = c.loops
  BY DEF From
<1>6. ASSUME ~Function(n), PushesLoop(n)
      PROVE  SubSeq(ctx.loops, 1, Len(ctx.loops) - 1) = c.loops
  <2> DEFINE e == (tree.kind[n] = "for" /\ "retry" \in tree.marks[n])
             l == ctx.loops
  <2>1. l = Append(c.loops, e) /\ e \in BOOLEAN
    BY <1>6 DEF From
  <2> HIDE DEF e, l
  <2>2. l \in Seq(BOOLEAN) /\ Len(l) = Len(c.loops) + 1 /\ \A i \in 1..Len(c.loops) : l[i] = c.loops[i]
    BY <1>1, <2>1, AppendProperties
  <2>3. Len(c.loops) \in Nat /\ Len(l) - 1 = Len(c.loops)
    BY <1>1, <2>2, LenProperties
  <2>4. \A i \in 1..Len(c.loops) : l[i] \in BOOLEAN
    BY <1>1, <2>2
  <2>5. /\ SubSeq(l, 1, Len(c.loops)) \in Seq(BOOLEAN)
        /\ Len(SubSeq(l, 1, Len(c.loops))) = Len(c.loops)
        /\ \A i \in 1..Len(c.loops) : SubSeq(l, 1, Len(c.loops))[i] = l[i]
    BY <2>3, <2>4, SubSeqProperties
  <2> QED BY <1>1, <2>2, <2>3, <2>5, SeqEqual DEF l
<1> QED BY <1>1, <1>3, <1>4, <1>5, <1>6 DEF Left

-----------------------------------------------------------------------------
(***************************************************************************)
(* The invariant                                                           *)
(***************************************************************************)

\* The calls under way form a path from the root.  Each has kept the fields as
\* they were inside its parent, and the fields are right inside its node.
InnerOf(f) == From(f.node, f.saved)
Nested ==
  /\ \A i \in 1..Len(stack) : /\ stack[i].todo \subseteq Children(tree, stack[i].node)
                              /\ Right(stack[i].node, InnerOf(stack[i]))
  /\ stack # <<>> => stack[1].node = tree.root /\ stack[1].saved = NoContext
  /\ \A i \in 1..(Len(stack) - 1) : stack[i + 1].saved = InnerOf(stack[i])
  /\ ctx = IF stack = <<>> THEN NoContext ELSE InnerOf(Top)

\* Where a rule reports: at the node, or at the try a handler belongs to.
Codes == {"017", "018", "019", "020"}
Where(r, n) == IF r = "019" THEN tree.parent[n] ELSE n

\* What surrounds n condemns it, in the words of ReportIsExact.
Condemned(r, n) ==
  LET around == tree.above[n] \ {n}
  IN  CASE r = "019" -> /\ tree.kind[n] = "handler" /\ RetriesAtOnce(tree, n)
                        /\ InCoroutine(tree, around) /\ InRetry(tree, around)
        [] r = "018" -> /\ Spins(tree, n)
                        /\ InCoroutine(tree, around) /\ ~InGenerator(tree, around)
        [] r = "017" -> /\ tree.kind[n] = "handler" /\ ~InReraising(tree, around)
                        /\ Silences(tree, n, InCoroutine(tree, around))
        [] r = "020" -> /\ Calls(tree, {n}, "put") # {}
                        /\ \A m \in tree.above[n] : ~Shields(tree, m)

\* The walk has yet to come to n: it is in a child that some call has left to do.
Pending(n) == \E i \in 1..Len(stack) : \E c \in stack[i].todo : c \in tree.above[n]

\* What has been reported is condemned, and what is condemned is reported or the
\* walk has yet to come to where it will be.
ReportedSoFar ==
  \A r \in Codes, n \in Node : /\ <<r, n>> \in flagged => Condemned(r, n)
                               /\ Condemned(r, n) => <<r, n>> \in flagged \/ Pending(Where(r, n))

Inv == TypeOK /\ tree \in Trees /\ Nested /\ ReportedSoFar

\* The machine's own words for From and for an innermost retry loop.
LEMMA SameWords ==
  /\ \A n \in Node : Entered(n) = From(n, ctx)
  /\ InRetryLoop <=> InRetryOf(ctx)
BY DEF Entered, From, InRetryLoop, InRetryOf

LEMMA RootContext ==
  ASSUME tree \in Trees
  PROVE  /\ From(tree.root, NoContext) = NoContext /\ NoContext \in Context
         /\ Right(tree.root, NoContext)
<1>1. tree.kind[tree.root] = "module"
  BY TreeTypes
<1>2. Shielding(tree.root) = 0 /\ Reraising(tree.root) = 0 /\ ~Function(tree.root) /\ ~PushesLoop(tree.root)
  BY <1>1 DEF Shielding, Shields, Reraising, Function, Functions, PushesLoop
<1>3. From(tree.root, NoContext) = NoContext
  BY <1>2 DEF From, NoContext
<1>4. NoContext \in Context
  BY EmptySeq DEF NoContext, Context
<1> QED BY <1>3, <1>4, InRoot DEF Right, InRetryOf, NoContext

\* Nothing is condemned whose place the walk does not come to.
LEMMA PlaceIsVisited ==
  ASSUME tree \in Trees, NEW r \in Codes, NEW n \in Node, Condemned(r, n)
  PROVE  Where(r, n) \in Node \ {tree.root}
<1>1. tree.kind[tree.root] = "module"
  BY TreeTypes
<1>2. CASE r = "019"
  <2>1. tree.kind[n] = "handler"
    BY <1>2 DEF Condemned
  <2>2. n # tree.root
    BY <1>1, <2>1
  <2>3. tree.kind[tree.parent[n]] = "try" /\ tree.parent[n] \in Node
    BY <2>1, <2>2, TreeTypes
  <2> QED BY <1>1, <1>2, <2>3 DEF Where
<1>3. CASE r = "018"
  BY <1>1, <1>3 DEF Condemned, Spins, Where
<1>4. CASE r = "017"
  BY <1>1, <1>4 DEF Condemned, Where
<1>5. CASE r = "020"
  BY <1>1, <1>5 DEF Condemned, Calls, Where
<1> QED BY <1>2, <1>3, <1>4, <1>5 DEF Codes

\* Coming to a node with the right fields reports what is condemned there.
LEMMA ReportsAreCondemned ==
  ASSUME tree \in Trees, ctx \in Context, NEW n \in Node \ {tree.root}, Right(tree.parent[n], ctx),
         NEW r \in Codes, NEW x \in Node
  PROVE  <<r, x>> \in Reports(n) <=> Where(r, x) = n /\ Condemned(r, x)
<1> DEFINE P == tree.above[tree.parent[n]]
<1>1. n \in Node /\ tree.above[n] \ {n} = P /\ tree.parent[n] \in Node
  BY TreeTypes
<1>2. /\ ctx.async <=> InCoroutine(tree, P)
      /\ ctx.gen <=> InGenerator(tree, P)
      /\ InRetryLoop <=> InRetry(tree, P)
      /\ ctx.reraising > 0 <=> InReraising(tree, P)
  BY SameWords DEF Right
<1>3. ctx.async \in BOOLEAN /\ ctx.reraising \in Nat
  BY DEF Context
<1>4. CASE r = "019"
  <2>1. <<r, x>> \in Reports(n) <=> x \in Handlers(tree, n) /\ ctx.async /\ InRetryLoop /\ RetriesAtOnce(tree, x)
    BY <1>4 DEF Reports
  <2>2. x \in Handlers(tree, n) <=> x # tree.root /\ tree.parent[x] = n /\ tree.kind[x] = "handler"
    BY DEF Handlers, Children
  <2>3. tree.kind[x] = "handler" => x # tree.root
    BY TreeTypes
  <2>4. ASSUME x # tree.root, tree.parent[x] = n, tree.kind[x] = "handler"
        PROVE  /\ InCoroutine(tree, tree.above[x] \ {x}) <=> InCoroutine(tree, P)
               /\ InRetry(tree, tree.above[x] \ {x}) <=> InRetry(tree, P)
    <3>1. tree.kind[n] = "try" /\ tree.above[x] \ {x} = tree.above[n]
      BY <2>4, TreeTypes
    <3>2. tree.kind[n] \notin Functions /\ tree.kind[n] \notin {"for", "while"}
      BY <3>1 DEF Functions
    <3>3. /\ InCoroutine(tree, tree.above[n]) <=> InCoroutine(tree, tree.above[tree.parent[n]])
          /\ InRetry(tree, tree.above[n]) <=> InRetry(tree, tree.above[tree.parent[n]])
      BY <3>2, InOther
    <3> QED BY <3>1, <3>3
  <2>5. Where(r, x) = n /\ Condemned(r, x) <=>
          /\ tree.parent[x] = n /\ tree.kind[x] = "handler" /\ RetriesAtOnce(tree, x)
          /\ InCoroutine(tree, tree.above[x] \ {x}) /\ InRetry(tree, tree.above[x] \ {x})
    BY <1>4 DEF Where, Condemned
  <2> QED BY <1>2, <2>1, <2>2, <2>3, <2>4, <2>5
<1>5. CASE r = "018"
  <2>1. <<r, x>> \in Reports(n) <=> x = n /\ ctx.async /\ ~ctx.gen /\ Spins(tree, n)
    BY <1>5 DEF Reports, Spinning
  <2>2. Where(r, x) = n /\ Condemned(r, x) <=>
          x = n /\ Spins(tree, n) /\ InCoroutine(tree, P) /\ ~InGenerator(tree, P)
    BY <1>1, <1>5 DEF Where, Condemned
  <2> QED BY <1>2, <2>1, <2>2
<1>6. CASE r = "017"
  <2>1. <<r, x>> \in Reports(n) <=>
          x = n /\ tree.kind[n] = "handler" /\ ctx.reraising = 0 /\ Silences(tree, n, ctx.async)
    BY <1>6 DEF Reports, Silencing
  <2>2. Where(r, x) = n /\ Condemned(r, x) <=>
          x = n /\ tree.kind[n] = "handler" /\ ~InReraising(tree, P) /\ Silences(tree, n, InCoroutine(tree, P))
    BY <1>1, <1>6 DEF Where, Condemned
  <2>3. ctx.async = InCoroutine(tree, P)
    BY <1>2, <1>3 DEF InCoroutine
  <2>4. ctx.reraising = 0 <=> ~InReraising(tree, P)
    BY <1>2, <1>3
  <2> QED BY <2>1, <2>2, <2>3, <2>4
<1>7. CASE r = "020"
  <2>1. <<r, x>> \in Reports(n) <=> x = n /\ Calls(tree, {n}, "put") # {} /\ Entered(n).protected = 0
    BY <1>7 DEF Reports, Unguarded
  <2>2. Where(r, x) = n /\ Condemned(r, x) <=>
          x = n /\ Calls(tree, {n}, "put") # {} /\ \A m \in tree.above[n] : ~Shields(tree, m)
    BY <1>7 DEF Where, Condemned
  <2>3. Right(n, Entered(n)) /\ Entered(n).protected \in Nat
    BY <1>1, SameWords, FromIsRight, FromType DEF Context
  <2>4. Entered(n).protected = 0 <=> \A m \in tree.above[n] : ~Shields(tree, m)
    BY <2>3 DEF Right
  <2> QED BY <2>1, <2>2, <2>4
<1> QED BY <1>4, <1>5, <1>6, <1>7 DEF Codes

\* These depend on the tree only, which no step changes.
LEMMA SameTree ==
  ASSUME tree' = tree
  PROVE  /\ \A r, n : (Condemned(r, n)' <=> Condemned(r, n)) /\ Where(r, n)' = Where(r, n)
         /\ \A n, d : Right(n, d)' <=> Right(n, d)
         /\ \A g : InnerOf(g)' = InnerOf(g)
         /\ \A n : Children(tree, n)' = Children(tree, n)
<1>1. \A r, n : Condemned(r, n)' <=> Condemned(r, n)
  BY DEF Condemned
<1>2. \A r, n : Where(r, n)' = Where(r, n)
  BY DEF Where
<1>3. \A n, d : Right(n, d)' <=> Right(n, d)
  BY DEF Right
<1>4. \A g : InnerOf(g)' = InnerOf(g)
  BY DEF InnerOf, From, Function, PushesLoop, Reraising, Shielding
<1> QED BY <1>1, <1>2, <1>3, <1>4

-----------------------------------------------------------------------------
LEMMA InitInv == Init => Inv
<1> SUFFICES ASSUME Init PROVE Inv
  OBVIOUS
<1> DEFINE f == [node |-> tree.root, saved |-> NoContext, todo |-> Children(tree, tree.root)]
<1>1. tree \in Trees /\ tree \in Tree /\ ctx = NoContext /\ flagged = {} /\ stack = <<f>>
  BY TreeTypes DEF Init
<1>2. /\ f \in Frame /\ f.node = tree.root /\ f.saved = NoContext /\ f.todo = Children(tree, tree.root)
      /\ NoContext \in Context
  BY <1>1, TreeTypes, RootContext DEF Frame, Children
<1> HIDE DEF f
<1>3. stack \in Seq(Frame) /\ Len(stack) = 1 /\ stack[1] = f /\ stack # <<>> /\ Top = f
  BY <1>1, <1>2 DEF Top
<1>4. TypeOK
  BY <1>1, <1>2, <1>3 DEF TypeOK
<1>5. Nested
  BY <1>1, <1>2, <1>3, RootContext DEF Nested, InnerOf
<1>6. \A n \in Node \ {tree.root} : Pending(n)
  <2> SUFFICES ASSUME NEW n \in Node \ {tree.root} PROVE Pending(n)
    OBVIOUS
  <2>1. \E c \in Children(tree, tree.root) : c \in tree.above[n]
    BY <1>1, AboveIsUpwards, ChildTowards
  <2> QED BY <1>2, <1>3, <2>1 DEF Pending
<1>7. ReportedSoFar
  BY <1>1, <1>6, PlaceIsVisited DEF ReportedSoFar
<1> QED BY <1>1, <1>4, <1>5, <1>7 DEF Inv

\* The stack without its top.
LEMMA RestFacts ==
  ASSUME stack \in Seq(Frame), stack # <<>>
  PROVE  /\ Len(stack) \in Nat \ {0} /\ Top \in Frame /\ Top = stack[Len(stack)]
         /\ Rest \in Seq(Frame) /\ Len(Rest) = Len(stack) - 1
         /\ \A i \in 1..(Len(stack) - 1) : Rest[i] = stack[i]
<1> DEFINE n == Len(stack) - 1
<1>1. Len(stack) \in Nat \ {0} /\ n \in Nat /\ \A i \in 1..Len(stack) : stack[i] \in Frame
  BY EmptySeq, ElementOfSeq
<1>2. \A i \in 1..n : stack[i] \in Frame
  BY <1>1
<1>3. Top \in Frame /\ Top = stack[Len(stack)]
  BY <1>1 DEF Top
<1>4. Rest = SubSeq(stack, 1, n)
  BY DEF Rest
<1> HIDE DEF n
<1>5. Rest \in Seq(Frame) /\ Len(Rest) = n /\ \A i \in 1..n : Rest[i] = stack[i]
  BY <1>1, <1>2, <1>4, SubSeqProperties
<1> QED BY <1>1, <1>3, <1>5 DEF n

\* c leaves the list of its parent, and gets a call of its own on top.
LEMMA DescendInv == Inv /\ Descend => Inv'
<1> SUFFICES ASSUME Inv, Descend PROVE Inv'
  OBVIOUS
<1>1. PICK c \in Top.todo : Visit(c, Append(Rest, [Top EXCEPT !.todo = @ \ {c}]))
  BY DEF Descend
<1> DEFINE left == [Top EXCEPT !.todo = @ \ {c}]
           f == [node |-> c, saved |-> ctx, todo |-> Children(tree, c)]
           below == Append(Rest, left)
           k == Len(stack)
<1>2. /\ stack' = Append(below, f) /\ ctx' = Entered(c) /\ flagged' = flagged \cup Reports(c)
      /\ tree' = tree /\ stack # <<>> /\ stack \in Seq(Frame) /\ ctx \in Context /\ tree \in Trees
  BY <1>1 DEF Visit, Descend, Inv, TypeOK
<1>3. /\ k \in Nat \ {0} /\ Top \in Frame /\ Top = stack[k] /\ k \in 1..k
      /\ Rest \in Seq(Frame) /\ Len(Rest) = k - 1 /\ \A i \in 1..(k - 1) : Rest[i] = stack[i]
  BY <1>2, RestFacts
<1>4. /\ c \in Node \ {tree.root} /\ tree.parent[c] = Top.node /\ Right(Top.node, ctx)
      /\ ctx = InnerOf(Top)
  BY <1>1, <1>2, <1>3 DEF Inv, Nested, Children
<1>5. /\ left \in Frame /\ left.node = Top.node /\ left.saved = Top.saved /\ left.todo = Top.todo \ {c}
      /\ f \in Frame /\ f.node = c /\ f.saved = ctx /\ f.todo = Children(tree, c)
  BY <1>2, <1>3, <1>4 DEF Frame, Children
<1> HIDE DEF left, f
<1>6. /\ below \in Seq(Frame) /\ Len(below) = k /\ below[k] = left
      /\ \A i \in 1..(k - 1) : below[i] = stack[i]
  BY <1>3, <1>5, AppendProperties
<1> HIDE DEF below
<1>7. /\ stack' \in Seq(Frame) /\ Len(stack') = k + 1 /\ stack' # <<>>
      /\ stack'[k + 1] = f /\ stack'[k] = left
      /\ \A i \in 1..(k - 1) : stack'[i] = stack[i]
  BY <1>2, <1>3, <1>5, <1>6, AppendProperties
<1>8. /\ Right(c, From(c, ctx)) /\ From(c, ctx) \in Context /\ ctx' = From(c, ctx)
  BY <1>2, <1>4, FromIsRight, FromType, SameWords
<1> HIDE DEF k
<1>9. TypeOK'
  <2>1. flagged' \subseteq Codes \X Node
    <3>1. \A n \in Node : Handlers(tree, n) \subseteq Node
      BY DEF Handlers, Children
    <3>2. Reports(c) \subseteq Codes \X Node
      BY <1>4, <3>1 DEF Reports, Codes
    <3> QED BY <1>2, <3>2 DEF Inv, TypeOK, Codes
  <2> QED BY <1>2, <1>7, <1>8, <2>1 DEF Inv, TypeOK, Codes
<1>10. Nested'
  <2>1. ASSUME NEW i \in 1..(k + 1)
        PROVE  /\ stack'[i].todo \subseteq Children(tree, stack'[i].node)
               /\ Right(stack'[i].node, InnerOf(stack'[i]))
               /\ i # k + 1 => stack'[i].node = stack[i].node /\ stack'[i].saved = stack[i].saved
                               /\ InnerOf(stack'[i]) = InnerOf(stack[i])
    <3>1. CASE i = k + 1
      BY <1>5, <1>7, <1>8, <3>1 DEF InnerOf
    <3>2. CASE i = k
      <4>1. Top.todo \subseteq Children(tree, Top.node) /\ Right(Top.node, InnerOf(Top))
        BY <1>3 DEF Inv, Nested, k
      <4>2. InnerOf(left) = InnerOf(Top)
        BY <1>5 DEF InnerOf
      <4> QED BY <1>3, <1>5, <1>7, <3>2, <4>1, <4>2
    <3>3. CASE i \in 1..(k - 1)
      <4>1. stack'[i] = stack[i] /\ i \in 1..Len(stack)
        BY <1>3, <1>7, <3>3 DEF k
      <4> QED BY <4>1 DEF Inv, Nested
    <3> QED BY <1>3, <3>1, <3>2, <3>3
  <2>2. stack'[1].node = tree.root /\ stack'[1].saved = NoContext
    <3>1. 1 \in 1..(k + 1) /\ 1 # k + 1
      BY <1>3
    <3> QED BY <1>2, <2>1, <3>1 DEF Inv, Nested
  <2>3. ASSUME NEW i \in 1..k PROVE stack'[i + 1].saved = InnerOf(stack'[i])
    <3>1. CASE i = k
      <4>1. InnerOf(left) = InnerOf(Top)
        BY <1>5 DEF InnerOf
      <4> QED BY <1>4, <1>5, <1>7, <3>1, <4>1
    <3>2. CASE i # k
      <4>1. i \in 1..(Len(stack) - 1) /\ i + 1 \in 1..(k + 1) /\ i + 1 # k + 1 /\ i \in 1..(k + 1) /\ i # k + 1
        BY <1>3, <3>2 DEF k
      <4>2. stack[i + 1].saved = InnerOf(stack[i])
        BY <4>1 DEF Inv, Nested
      <4> QED BY <2>1, <4>1, <4>2
    <3> QED BY <3>1, <3>2
  <2>4. ctx' = InnerOf(stack'[Len(stack')]) /\ Top' = stack'[Len(stack')]
    BY <1>5, <1>7, <1>8 DEF InnerOf, Top
  <2>5. Len(stack') - 1 = k /\ stack' # <<>>
    BY <1>3, <1>7
  <2>6. /\ \A n, d : Right(n, d)' <=> Right(n, d)
        /\ \A g : InnerOf(g)' = InnerOf(g)
        /\ \A n : Children(tree, n)' = Children(tree, n)
    BY <1>2, SameTree
  <2>7. \A i \in 1..Len(stack') : /\ stack'[i].todo \subseteq Children(tree, stack'[i].node)
                                  /\ Right(stack'[i].node, InnerOf(stack'[i]))
    BY <1>7, <2>1
  <2>8. \A i \in 1..(Len(stack') - 1) : stack'[i + 1].saved = InnerOf(stack'[i])
    BY <2>3, <2>5
  <2> QED BY <1>2, <2>2, <2>4, <2>5, <2>6, <2>7, <2>8 DEF Nested
<1>11. ReportedSoFar'
  <2> SUFFICES ASSUME NEW r \in Codes, NEW n \in Node
               PROVE  /\ <<r, n>> \in flagged' => Condemned(r, n)
                      /\ Condemned(r, n) => <<r, n>> \in flagged' \/ Pending(Where(r, n))'
    BY <1>2, SameTree DEF ReportedSoFar
  <2>1. /\ <<r, n>> \in flagged => Condemned(r, n)
        /\ Condemned(r, n) => <<r, n>> \in flagged \/ Pending(Where(r, n))
    BY DEF Inv, ReportedSoFar
  <2>2. <<r, n>> \in Reports(c) <=> Where(r, n) = c /\ Condemned(r, n)
    BY <1>2, <1>4, ReportsAreCondemned
  <2>3. ASSUME Condemned(r, n), <<r, n>> \notin flagged, Where(r, n) # c
        PROVE  Pending(Where(r, n))'
    <3> DEFINE w == Where(r, n)
    <3>1. w \in Node
      BY <1>2, <2>3, PlaceIsVisited
    <3>2. PICK i \in 1..k : \E d \in stack[i].todo : d \in tree.above[w]
      BY <2>1, <2>3 DEF Pending, k
    <3>3. PICK d \in stack[i].todo : d \in tree.above[w]
      BY <3>2
    <3>4. Pending(Where(r, n))' <=> \E j \in 1..(k + 1) : \E e \in stack'[j].todo : e \in tree.above[w]
      BY <1>2, <1>7 DEF Pending, Where
    <3> HIDE DEF w
    <3>5. CASE d = c
      <4>1. \E e \in Children(tree, c) : e \in tree.above[w]
        BY <1>2, <1>4, <2>3, <3>1, <3>3, <3>5, ChildTowards DEF w
      <4>2. k + 1 \in 1..(k + 1) /\ stack'[k + 1].todo = Children(tree, c)
        BY <1>3, <1>5, <1>7
      <4> QED BY <3>4, <4>1, <4>2
    <3>6. CASE d # c
      <4>1. d \in stack'[i].todo /\ i \in 1..(k + 1)
        BY <1>3, <1>5, <1>7, <3>3, <3>6
      <4> QED BY <3>3, <3>4, <4>1
    <3> QED BY <3>5, <3>6
  <2> QED BY <1>2, <2>1, <2>2, <2>3
<1> QED BY <1>2, <1>9, <1>10, <1>11 DEF Inv

\* The call on top has nothing left to do; the fields are its caller's again.
LEMMA ReturnInv == Inv /\ Return => Inv'
<1> SUFFICES ASSUME Inv, Return PROVE Inv'
  OBVIOUS
<1> DEFINE k == Len(stack)
<1>1. /\ stack # <<>> /\ stack \in Seq(Frame) /\ Top.todo = {} /\ stack' = Rest
      /\ ctx' = Left(Top.node, Top.saved) /\ tree' = tree /\ flagged' = flagged /\ tree \in Trees
  BY DEF Return, Inv, TypeOK
<1>2. /\ k \in Nat \ {0} /\ Top \in Frame /\ Top = stack[k]
      /\ stack' \in Seq(Frame) /\ Len(stack') = k - 1
      /\ \A i \in 1..(k - 1) : stack'[i] = stack[i]
  BY <1>1, RestFacts
<1>3. ctx' = Top.saved /\ Top.saved \in Context
  BY <1>1, <1>2, LeftIsBack DEF Inv, Nested, InnerOf, Frame
<1>4. TypeOK'
  BY <1>1, <1>2, <1>3 DEF Inv, TypeOK
<1>5. Nested'
  <2>1. \A i \in 1..(k - 1) : /\ stack'[i].todo \subseteq Children(tree, stack'[i].node)
                              /\ Right(stack'[i].node, InnerOf(stack'[i]))
    BY <1>2 DEF Inv, Nested
  <2>2. stack' # <<>> => 1 \in 1..(k - 1) /\ stack'[1] = stack[1]
    BY <1>2, EmptySeq
  <2>3. \A i \in 1..(k - 2) : stack'[i + 1].saved = InnerOf(stack'[i])
    <3> SUFFICES ASSUME NEW i \in 1..(k - 2) PROVE stack'[i + 1].saved = InnerOf(stack'[i])
      OBVIOUS
    <3>1. i \in 1..(k - 1) /\ i + 1 \in 1..(k - 1) /\ stack[i + 1].saved = InnerOf(stack[i])
      BY <1>2 DEF Inv, Nested
    <3> QED BY <1>2, <3>1
  <2>4. ctx' = IF stack' = <<>> THEN NoContext ELSE InnerOf(stack'[Len(stack')])
    <3>1. CASE k = 1
      <4>1. stack' = <<>> /\ Top.saved = NoContext
        BY <1>1, <1>2, <3>1, EmptySeq DEF Inv, Nested
      <4> QED BY <1>3, <4>1
    <3>2. CASE k # 1
      <4>1. k - 1 \in 1..(k - 1) /\ k - 1 + 1 = k /\ stack' # <<>> /\ stack'[k - 1] = stack[k - 1]
        BY <1>2, <3>2, EmptySeq
      <4>2. stack[k].saved = InnerOf(stack[k - 1])
        BY <4>1 DEF Inv, Nested
      <4> QED BY <1>2, <1>3, <4>1, <4>2
    <3> QED BY <3>1, <3>2
  <2>5. /\ \A n, d : Right(n, d)' <=> Right(n, d)
        /\ \A g : InnerOf(g)' = InnerOf(g)
        /\ \A n : Children(tree, n)' = Children(tree, n)
    BY <1>1, SameTree
  <2>6. Len(stack') - 1 = k - 2 /\ Top' = stack'[Len(stack')]
    BY <1>2 DEF Top
  <2> QED BY <1>1, <1>2, <2>1, <2>2, <2>3, <2>4, <2>5, <2>6 DEF Inv, Nested
<1>6. ReportedSoFar'
  <2>1. ASSUME NEW n, Pending(n) PROVE Pending(n)'
    <3>1. PICK i \in 1..k : \E c \in stack[i].todo : c \in tree.above[n]
      BY <2>1 DEF Pending
    <3>2. i \in 1..(k - 1)
      BY <1>1, <1>2, <3>1
    <3> QED BY <1>1, <1>2, <3>1, <3>2 DEF Pending
  <2>2. \A r \in Codes, n \in Node : Pending(Where(r, n)) => Pending(Where(r, n))'
    BY <1>1, <2>1 DEF Pending, Where
  <2> QED BY <1>1, <2>2, SameTree DEF Inv, ReportedSoFar
<1> QED BY <1>1, <1>4, <1>5, <1>6 DEF Inv

LEMMA StutterInv == Inv /\ UNCHANGED vars => Inv'
<1> SUFFICES ASSUME Inv, UNCHANGED vars PROVE Inv'
  OBVIOUS
<1>1. TypeOK' /\ tree' \in Trees
  BY DEF vars, Inv, TypeOK
<1>2. Nested'
  <2>1. stack' = stack /\ ctx' = ctx /\ tree' = tree /\ Top' = stack'[Len(stack')] /\ Top = stack[Len(stack)]
    BY DEF vars, Top
  <2>2. /\ \A n, d : Right(n, d)' <=> Right(n, d)
        /\ \A g : InnerOf(g)' = InnerOf(g)
        /\ \A n : Children(tree, n)' = Children(tree, n)
    BY <2>1, SameTree
  <2> QED BY <2>1, <2>2 DEF Inv, Nested
<1>3. ReportedSoFar'
  <2>1. tree' = tree /\ flagged' = flagged
    BY DEF vars
  <2>2. \A r \in Codes, n \in Node : Pending(Where(r, n))' <=> Pending(Where(r, n))
    BY DEF vars, Pending, Where
  <2> QED BY <2>1, <2>2, SameTree DEF Inv, ReportedSoFar
<1> QED BY <1>1, <1>2, <1>3 DEF Inv

LEMMA NextInv == Inv /\ [Next]_vars => Inv'
BY DescendInv, ReturnInv, StutterInv DEF Next

LEMMA InvIsLexical == Inv => ContextIsLexical
<1> SUFFICES ASSUME Inv, stack # <<>> PROVE ContextIsLexical
  BY DEF ContextIsLexical
<1>1. Right(Top.node, ctx) /\ ctx \in Context
  <2>1. Len(stack) \in 1..Len(stack) /\ Top = stack[Len(stack)]
    BY RestFacts DEF Inv, TypeOK
  <2> QED BY <2>1 DEF Inv, Nested, TypeOK
<1>2. ctx.async \in BOOLEAN /\ ctx.gen \in BOOLEAN
  BY <1>1 DEF Context
<1>3. \A A : InCoroutine(tree, A) \in BOOLEAN /\ InGenerator(tree, A) \in BOOLEAN
  BY DEF InCoroutine, InGenerator
<1> QED BY <1>1, <1>2, <1>3, SameWords DEF ContextIsLexical, Right

LEMMA InvIsExact == Inv => ReportIsExact
<1> SUFFICES ASSUME Inv, stack = <<>> PROVE ReportIsExact
  BY DEF ReportIsExact
<1>1. ctx = NoContext
  BY DEF Inv, Nested
<1>2. \A n : ~Pending(n)
  BY EmptySeq DEF Pending
<1>3. \A r \in Codes, n \in Node : <<r, n>> \in flagged <=> Condemned(r, n)
  BY <1>2 DEF Inv, ReportedSoFar
<1>4. ASSUME NEW n \in Node
      PROVE  LET around == tree.above[n] \ {n}
             IN  /\ <<"019", n>> \in flagged <=> /\ tree.kind[n] = "handler" /\ RetriesAtOnce(tree, n)
                                                /\ InCoroutine(tree, around) /\ InRetry(tree, around)
                 /\ <<"018", n>> \in flagged <=> /\ Spins(tree, n)
                                                /\ InCoroutine(tree, around) /\ ~InGenerator(tree, around)
                 /\ <<"017", n>> \in flagged <=> /\ tree.kind[n] = "handler" /\ ~InReraising(tree, around)
                                                /\ Silences(tree, n, InCoroutine(tree, around))
                 /\ <<"020", n>> \in flagged <=> /\ Calls(tree, {n}, "put") # {}
                                                /\ \A m \in tree.above[n] : ~Shields(tree, m)
  BY <1>3 DEF Condemned, Codes
<1> QED BY <1>1, <1>4 DEF ReportIsExact

-----------------------------------------------------------------------------
(***************************************************************************)
(* Theorems                                                                *)
(***************************************************************************)

\* Type correctness: no counter goes below zero, no stack of loops is popped
\* empty, on trees of any size.
THEOREM ContextTypes == Spec => []TypeOK
<1>1. Inv => TypeOK
  BY DEF Inv
<1> QED BY <1>1, InitInv, NextInv, PTL DEF Spec

\* At every moment the fields of the four rules say what encloses the place the
\* walk is at.
THEOREM FieldsAreLexical == Spec => []ContextIsLexical
BY InitInv, NextInv, InvIsLexical, PTL DEF Spec

\* A finished walk leaves the fields as they were, and has reported exactly the
\* handlers, loops and calls that their surroundings condemn.
THEOREM FourRulesAreExact == Spec => []ReportIsExact
BY InitInv, NextInv, InvIsExact, PTL DEF Spec
=============================================================================
