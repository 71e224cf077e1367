----------------------- MODULE GatherContainmentProofs -----------------------
(***************************************************************************)
(* For every module and every call graph, cyclic ones included: the        *)
(* memoised search of _Containment answers with the greatest fixed point,  *)
(* and begins no function twice.                                           *)
(***************************************************************************)
EXTENDS GatherContainment, SequenceTheorems, FiniteSetTheorems, WellFoundedInduction, TLAPS

\* Nodes walk goes on below.
InnerKind == {"try", "class", "call", "handler", "other"}

\* Inside f, the nearest handler at n or around it catches nothing but cancellation.
Cancels(p, f, n) ==
  \E h \in p.above[n] \cap (Below(p, f) \ {f}) :
    /\ p.kind[h] = "handler" /\ h \in p.cancel
    /\ \A g \in p.above[n] \cap (Below(p, f) \ {f}) : p.kind[g] = "handler" => g \in p.above[h]

-----------------------------------------------------------------------------
\* Facts about the tree.
LEMMA TreeOrder ==
  ASSUME NEW p \in Program, WellFormed(p), NEW n \in Node
  PROVE  /\ n \in p.above[n] /\ p.above[n] \subseteq Node
         /\ \A m \in p.above[n] : p.above[m] \subseteq p.above[n]
         /\ \A m \in p.above[n] : n \in p.above[m] => m = n
<1>1. n \in p.above[n] /\ p.above[n] \subseteq Node /\ p.root \in Node /\ p.above[p.root] = {p.root}
  BY DEF Program, WellFormed
<1>2. \A m \in p.above[n] : p.above[m] \subseteq p.above[n]
  BY DEF WellFormed
<1>3. ASSUME NEW m \in p.above[n], n \in p.above[m], m # n PROVE FALSE
  <2>1. n # p.root
    BY <1>1, <1>3
  <2>2. p.above[n] = {n} \cup p.above[p.parent[n]] /\ n \notin p.above[p.parent[n]] /\ p.parent[n] \in Node
    BY <2>1 DEF WellFormed, Program
  <2>3. m \in p.above[p.parent[n]]
    BY <1>3, <2>2
  <2>4. p.above[m] \subseteq p.above[p.parent[n]]
    BY <2>2, <2>3 DEF WellFormed
  <2> QED BY <1>3, <2>2, <2>4
<1> QED BY <1>1, <1>2, <1>3

LEMMA ChildAbove ==
  ASSUME NEW p \in Program, WellFormed(p), NEW n \in Node, NEW c \in Children(p, n)
  PROVE  /\ c \in Node /\ p.parent[c] = n /\ p.above[c] = {c} \cup p.above[n] /\ c \notin p.above[n]
         /\ Outside(p, c) = p.above[n]
<1>1. c \in Node \ {p.root} /\ p.parent[c] = n
  BY DEF Children
<1>2. p.above[c] = {c} \cup p.above[n] /\ c \notin p.above[n]
  BY <1>1 DEF WellFormed
<1> QED BY <1>1, <1>2 DEF Outside

\* What is below a node and is not the node is below one of its children.
LEMMA BelowAChild ==
  ASSUME NEW p \in Program, WellFormed(p), NEW n \in Node, NEW m \in Node, n \in p.above[m], n # m
  PROVE  \E c \in Children(p, n) : c \in p.above[m]
<1>1. PICK c \in p.above[m] \ {p.root} : p.parent[c] = n
  BY DEF WellFormed
<1>2. c \in Node
  BY TreeOrder
<1> QED BY <1>1, <1>2 DEF Children

\* f itself is neither guarded nor in a handler of its own.
LEMMA BareFunction ==
  ASSUME NEW p \in Program, WellFormed(p), NEW f \in Node
  PROVE  ~Guarded(p, f, f) /\ ~Cancels(p, f, f)
<1>1. p.above[f] \cap (Below(p, f) \ {f}) = {}
  BY TreeOrder DEF Below
<1> QED BY <1>1 DEF Guarded, Cancels

\* A node walk reaches, and how the arguments of walk change on the way to a child.
Inner(p, f, n) == n = f \/ (n \in OwnNodes(p, f) /\ p.kind[n] \in InnerKind)

LEMMA ChildOfInner ==
  ASSUME NEW p \in Program, WellFormed(p), NEW f \in Node, NEW n \in Node, Inner(p, f, n),
         NEW c \in Children(p, n)
  PROVE  /\ c \in OwnNodes(p, f)
         /\ Guarded(p, f, c) <=> Guarded(p, f, n) \/ (c \in p.body /\ Swallows(p, n))
         /\ InCancellation(p, f, c) <=> Cancels(p, f, n)
         /\ Cancels(p, f, c) <=> IF p.kind[c] = "handler" THEN c \in p.cancel ELSE Cancels(p, f, n)
<1>1. /\ c \in Node /\ p.parent[c] = n /\ p.above[c] = {c} \cup p.above[n] /\ c \notin p.above[n]
      /\ Outside(p, c) = p.above[n]
  BY ChildAbove
<1>2. f \in p.above[n] /\ f \in p.above[c] /\ c # f
  BY <1>1, TreeOrder DEF Inner, OwnNodes, Below
<1>3. c \in OwnNodes(p, f)
  <2> SUFFICES ASSUME NEW m \in p.above[n] \cap (Below(p, f) \ {f})
               PROVE  p.kind[m] \notin {"def", "lambda", "await", "raise"}
    BY <1>1, <1>2 DEF OwnNodes, Below
  <2>1. CASE n = f
    BY <2>1, TreeOrder DEF Below
  <2>2. CASE n \in OwnNodes(p, f) /\ p.kind[n] \in InnerKind
    BY <2>2 DEF OwnNodes, Outside, InnerKind
  <2> QED BY <2>1, <2>2 DEF Inner
<1>4. p.above[c] \cap (Below(p, f) \ {f}) = {c} \cup (p.above[n] \cap (Below(p, f) \ {f}))
  BY <1>1, <1>2 DEF Below
<1>5. Guarded(p, f, c) <=> Guarded(p, f, n) \/ (c \in p.body /\ Swallows(p, n))
  BY <1>1, <1>4 DEF Guarded
<1>6. InCancellation(p, f, c) <=> Cancels(p, f, n)
  BY <1>1 DEF InCancellation, Cancels
<1>7. Cancels(p, f, c) <=> IF p.kind[c] = "handler" THEN c \in p.cancel ELSE Cancels(p, f, n)
  <2>1. CASE p.kind[c] = "handler"
    <3>1. Cancels(p, f, c) => c \in p.cancel
      BY <1>1, <1>4, <2>1, TreeOrder DEF Cancels
    <3>2. c \in p.cancel => Cancels(p, f, c)
      BY <1>1, <1>4, <2>1 DEF Cancels
    <3> QED BY <2>1, <3>1, <3>2
  <2>2. CASE p.kind[c] # "handler"
    BY <1>4, <2>2 DEF Cancels
  <2> QED BY <2>1, <2>2
<1> QED BY <1>3, <1>5, <1>6, <1>7

\* Below a node where walk stops, f has no node of its own but that one.
LEMMA StopsHere ==
  ASSUME NEW p \in Program, WellFormed(p), NEW f \in Node, NEW c \in OwnNodes(p, f),
         p.kind[c] \in {"def", "lambda", "await", "raise"},
         NEW m \in OwnNodes(p, f), c \in p.above[m]
  PROVE  m = c
BY DEF OwnNodes, Outside

-----------------------------------------------------------------------------
\* The stack of calls: a call returns, is replaced, or makes another one.
LEMMA PopSeq ==
  ASSUME NEW F, NEW s \in Seq(F), Len(s) >= 1
  PROVE  /\ SubSeq(s, 1, Len(s) - 1) \in Seq(F) /\ Len(SubSeq(s, 1, Len(s) - 1)) = Len(s) - 1
         /\ \A i \in 1..(Len(s) - 1) : SubSeq(s, 1, Len(s) - 1)[i] = s[i]
<1>1. Len(s) \in Nat /\ \A i \in 1..(Len(s) - 1) : s[i] \in F
  OBVIOUS
<1>2. 1 \in Int /\ Len(s) - 1 \in Int
  BY <1>1
<1> DEFINE u == SubSeq(s, 1, Len(s) - 1)
<1>3. /\ u \in Seq(F) /\ Len(u) = IF 1 <= Len(s) - 1 THEN Len(s) - 1 - 1 + 1 ELSE 0
      /\ \A i \in 1..(Len(s) - 1 - 1 + 1) : u[i] = s[1 + i - 1]
  BY <1>1, <1>2, SubSeqProperties
<1> HIDE DEF u
<1>4. Len(u) = Len(s) - 1
  <2>1. \A k \in Nat : k >= 1 => (IF 1 <= k - 1 THEN k - 1 - 1 + 1 ELSE 0) = k - 1
    OBVIOUS
  <2> QED BY <1>1, <1>3, <2>1
<1>5. \A i \in 1..(Len(s) - 1) : i \in 1..(Len(s) - 1 - 1 + 1) /\ 1 + i - 1 = i
  BY <1>1
<1>6. \A i \in 1..(Len(s) - 1) : u[i] = s[i]
  BY <1>3, <1>5
<1> QED BY <1>3, <1>4, <1>6 DEF u

LEMMA ReplaceSeq ==
  ASSUME NEW F, NEW s \in Seq(F), Len(s) >= 1, NEW t \in F
  PROVE  LET u == Append(SubSeq(s, 1, Len(s) - 1), t) IN
         /\ u \in Seq(F) /\ Len(u) = Len(s) /\ u[Len(s)] = t
         /\ \A i \in 1..(Len(s) - 1) : u[i] = s[i]
<1> DEFINE w == SubSeq(s, 1, Len(s) - 1)
           u == Append(w, t)
<1>1. w \in Seq(F) /\ Len(w) = Len(s) - 1 /\ \A i \in 1..(Len(s) - 1) : w[i] = s[i]
  BY PopSeq
<1> HIDE DEF w
<1>2. u \in Seq(F) /\ Len(u) = Len(s) /\ u[Len(s)] = t /\ \A i \in 1..(Len(s) - 1) : u[i] = s[i]
  BY <1>1
<1> QED BY <1>2 DEF w

LEMMA PushSeq ==
  ASSUME NEW F, NEW s \in Seq(F), NEW t \in F, NEW u, u = Append(s, t)
  PROVE  /\ u \in Seq(F) /\ Len(u) = Len(s) + 1 /\ u[Len(s) + 1] = t
         /\ \A i \in 1..Len(s) : u[i] = s[i]
OBVIOUS

-----------------------------------------------------------------------------
\* The functions taken to be contained: by the memo, or because they are at work.
Assumed == {f \in Node : memo[f] = "contained"} \cup InProgress

Defs(p) == {d \in Node : p.kind[d] = "def"}

AnyFrame(p) == [node : Node, host : Node \cup {SiteHost(p)}, protected : BOOLEAN,
                cancel : BOOLEAN, todo : SUBSET Node, refs : SUBSET (Ref \cup {Unknown})]

\* The first frame is the gather call, all others are inside of a function.
SiteFrame(p, fr) ==
  /\ fr.node = p.site /\ fr.host = SiteHost(p) /\ fr.todo = {}
  /\ fr.refs \subseteq p.refs[p.site]

WalkFrame(p, fr) ==
  /\ Inner(p, fr.host, fr.node) /\ fr.refs = {}
  /\ fr.todo \subseteq Children(p, fr.node)
  /\ fr.protected <=> Guarded(p, fr.host, fr.node)
  /\ fr.cancel <=> Cancels(p, fr.host, fr.node)

AwaitFrame(p, fr) ==
  /\ fr.node \in FreeAwaits(p, fr.host) /\ fr.todo = {}
  /\ fr.refs \subseteq p.refs[fr.node]

InsideFrame(p, fr) == fr.host \in Defs(p) /\ (WalkFrame(p, fr) \/ AwaitFrame(p, fr))

\* A thread that is understood, or a call of a function in A.
RefSettled(p, A, host, r) ==
  /\ Understood(p, r, host)
  /\ r.how = "call" => Resolve(p, r, host) \subseteq A

\* In stack s, a call still has to follow reference r of the await n of f.
RefPending(s, f, n, r) == \E i \in 2..Len(s) : s[i].host = f /\ s[i].node = n /\ r \in s[i].refs

\* Node n of f has been found harmless, its awaits as far as they have been followed.
Settled(p, A, s, f, n) ==
  /\ p.kind[n] = "raise" => InCancellation(p, f, n)
  /\ p.kind[n] = "try" => ~LeakyFinally(p, n)
  /\ n \in FreeAwaits(p, f) =>
       \A r \in p.refs[n] : RefSettled(p, A, f, r) \/ RefPending(s, f, n, r)

\* A call still has to walk to n.
Waiting(p, s, f, n) == \E i \in 2..Len(s) : s[i].host = f /\ \E c \in s[i].todo : c \in p.above[n]

Seen(p, A, s, f, n) == Settled(p, A, s, f, n) \/ Waiting(p, s, f, n)

Progress == \A f \in Assumed : \A n \in OwnNodes(program, f) : Seen(program, Assumed, stack, f, n)

SiteProgress ==
  \A r \in program.refs[program.site] :
    RefSettled(program, Assumed, SiteHost(program), r) \/ r \in stack[1].refs

\* Every function at work can be reached from the gather call: it is in every closed
\* set of functions that the gathered ones belong to.
ClosedSets(p) ==
  {S \in SUBSET Defs(p) : Closed(p, S) /\ Calls(p, p.refs[p.site], SiteHost(p)) \subseteq S}

Reached(p, s) == \A S \in ClosedSets(p) : \A i \in 2..Len(s) : s[i].host \in S

\* The frames are those of the gather call and of functions called from it.
Frames(p, s) ==
  /\ Len(s) >= 1 /\ SiteFrame(p, s[1])
  /\ \A i \in 2..Len(s) : InsideFrame(p, s[i])
  /\ \A i \in 2..Len(s) : \E j \in 2..i : s[j].node = s[i].host
  /\ Reached(p, s)

SearchInv ==
  /\ Frames(program, stack)
  /\ \A n \in Node : memo[n] # "leaks"
  /\ Progress /\ SiteProgress

Types ==
  /\ program \in Programs
  /\ stack \in Seq(AnyFrame(program))
  /\ memo \in [Node -> {"none", "contained", "leaks"}]
  /\ status \in {"search", "unwind", "contained", "reported"}

Verdict ==
  /\ status \in {"unwind", "reported"} => ~Contained(program)
  /\ status = "contained" => Contained(program)

GInv ==
  /\ Types /\ EachFunctionOnce /\ Verdict
  /\ \A n \in Node : memo[n] = "contained" => program.kind[n] = "def"
  /\ status = "search" => SearchInv
  /\ status = "unwind" => Len(stack) >= 1

LEMMA ProgramTypes ==
  ASSUME Types
  PROVE  /\ program \in Program /\ WellFormed(program) /\ Unknown \notin Ref
         /\ program.site \in Node /\ program.kind[program.site] = "await"
         /\ program.refs \in [Node -> SUBSET (Ref \cup {Unknown})]
         /\ program.kind \in [Node -> NodeKind]
         /\ Len(stack) \in Nat /\ \A i \in 1..Len(stack) : stack[i] \in AnyFrame(program)
<1>1. program \in Program /\ WellFormed(program) /\ Unknown \notin Ref
  BY ProgramAssumption DEF Types
<1>2. program.site \in Node /\ program.kind[program.site] = "await"
  BY <1>1 DEF Program, WellFormed
<1>3. /\ program.refs \in [Node -> SUBSET (Ref \cup {Unknown})]
      /\ program.kind \in [Node -> NodeKind]
  BY <1>1 DEF Program
<1>4. Len(stack) \in Nat /\ \A i \in 1..Len(stack) : stack[i] \in AnyFrame(program)
  BY DEF Types
<1> QED BY <1>1, <1>2, <1>3, <1>4

\* A frame whose node is a function is the call that analyses it.
LEMMA FrameOfFunction ==
  ASSUME NEW p, NEW fr, InsideFrame(p, fr), p.kind[fr.node] = "def"
  PROVE  fr.node = fr.host
BY DEF InsideFrame, WalkFrame, AwaitFrame, Inner, InnerKind, FreeAwaits

\* The functions at work are the hosts of the frames.
LEMMA HostsAtWork ==
  ASSUME Types, Frames(program, stack), NEW i \in 2..Len(stack)
  PROVE  stack[i].host \in InProgress
<1>1. PICK j \in 2..i : stack[j].node = stack[i].host
  BY DEF Frames
<1>2. stack[i].host \in Defs(program) /\ j \in 1..Len(stack)
  BY <1>1, ProgramTypes DEF Frames, InsideFrame
<1> QED BY <1>1, <1>2 DEF InProgress, Defs

LEMMA InitGather == Init => GInv
<1> SUFFICES ASSUME Init PROVE GInv
  OBVIOUS
<1>1. program \in Program /\ WellFormed(program)
  BY ProgramAssumption DEF Init
<1> DEFINE fr == [node |-> program.site, host |-> SiteHost(program), protected |-> FALSE,
                  cancel |-> FALSE, todo |-> {}, refs |-> program.refs[program.site]]
<1>2. program.site \in Node /\ program.refs[program.site] \subseteq Ref \cup {Unknown}
  BY <1>1 DEF Program
<1>3. fr \in AnyFrame(program)
  BY <1>2 DEF AnyFrame
<1>4. SiteFrame(program, fr) /\ fr.node = program.site /\ fr.refs = program.refs[program.site]
  BY DEF SiteFrame
<1>5. stack = <<fr>>
  BY DEF Init
<1> HIDE DEF fr
<1>6. stack \in Seq(AnyFrame(program)) /\ Len(stack) = 1 /\ stack[1] = fr
  BY <1>3, <1>5
<1>7. Types
  BY <1>6 DEF Init, Types
<1>8. program.kind[stack[1].node] = "await"
  BY <1>1, <1>4, <1>6 DEF WellFormed
<1>9. EachFunctionOnce
  BY <1>6, <1>8 DEF EachFunctionOnce
<1>10. Assumed = {}
  BY <1>6, <1>8 DEF Assumed, InProgress, Init
<1>11. 2..Len(stack) = {}
  BY <1>6
<1>12. SiteFrame(program, stack[1]) /\ SiteProgress
  BY <1>4, <1>6 DEF SiteProgress
<1>13. Progress /\ Frames(program, stack) /\ \A n \in Node : memo[n] # "leaks"
  BY <1>6, <1>10, <1>11, <1>12 DEF Progress, Frames, Reached, Init
<1>14. SearchInv
  BY <1>12, <1>13 DEF SearchInv
<1> QED BY <1>7, <1>9, <1>14 DEF GInv, Verdict, Init
-----------------------------------------------------------------------------
\* What has been seen of a function stays seen when the top frame of s loses some of
\* its nodes and references, and other frames may be pushed on top of it.
LEMMA Kept ==
  ASSUME NEW p, NEW A, NEW B, A \subseteq B, NEW s, NEW u,
         Len(s) \in Nat, Len(u) \in Nat, Len(s) >= 1, Len(u) >= Len(s),
         \A i \in 1..(Len(s) - 1) : u[i] = s[i],
         u[Len(s)].node = s[Len(s)].node, u[Len(s)].host = s[Len(s)].host,
         NEW f, NEW n, Seen(p, A, s, f, n),
         \A c \in s[Len(s)].todo \ u[Len(s)].todo :
           f = s[Len(s)].host /\ c \in p.above[n] => Seen(p, B, u, f, n),
         \A r \in s[Len(s)].refs \ u[Len(s)].refs : RefSettled(p, B, s[Len(s)].host, r)
  PROVE  Seen(p, B, u, f, n)
<1> DEFINE l == Len(s)
<1>0. /\ l \in Nat /\ l >= 1 /\ Len(u) \in Nat /\ Len(u) >= l
      /\ \A i \in 2..l : i \in 2..Len(u) /\ (i = l \/ i \in 1..(l - 1))
      /\ \A i \in 1..(l - 1) : u[i] = s[i]
      /\ u[l].node = s[l].node /\ u[l].host = s[l].host
  OBVIOUS
<1> HIDE DEF l
<1>1. CASE Settled(p, A, s, f, n)
  <2>1. ASSUME n \in FreeAwaits(p, f), NEW r \in p.refs[n]
        PROVE  RefSettled(p, B, f, r) \/ RefPending(u, f, n, r)
    <3>1. CASE RefSettled(p, A, f, r)
      BY <3>1 DEF RefSettled
    <3>2. CASE RefPending(s, f, n, r)
      <4>1. PICK i \in 2..l : s[i].host = f /\ s[i].node = n /\ r \in s[i].refs
        BY <3>2 DEF RefPending, l
      <4>2. CASE i \in 1..(l - 1)
        BY <1>0, <4>1, <4>2 DEF RefPending
      <4>3. CASE i = l /\ r \in u[l].refs
        BY <1>0, <4>1, <4>3 DEF RefPending
      <4>4. CASE i = l /\ r \notin u[l].refs
        BY <4>1, <4>4 DEF l
      <4> QED BY <1>0, <4>2, <4>3, <4>4
    <3> QED BY <1>1, <2>1, <3>1, <3>2 DEF Settled
  <2> QED BY <1>1, <2>1 DEF Settled, Seen
<1>2. CASE Waiting(p, s, f, n)
  <2>1. PICK i \in 2..l : s[i].host = f /\ \E c \in s[i].todo : c \in p.above[n]
    BY <1>2 DEF Waiting, l
  <2>2. PICK c \in s[i].todo : c \in p.above[n]
    BY <2>1
  <2>3. CASE i \in 1..(l - 1)
    BY <1>0, <2>1, <2>2, <2>3 DEF Seen, Waiting
  <2>4. CASE i = l /\ c \in u[l].todo
    BY <1>0, <2>1, <2>2, <2>4 DEF Seen, Waiting
  <2>5. CASE i = l /\ c \notin u[l].todo
    BY <2>1, <2>2, <2>5 DEF l
  <2> QED BY <1>0, <2>3, <2>4, <2>5
<1> QED BY <1>1, <1>2 DEF Seen

\* Or when it is popped with nothing left to do.
LEMMA KeptByPop ==
  ASSUME NEW p, NEW A, NEW s, NEW u, Len(s) \in Nat, Len(s) >= 1, Len(u) = Len(s) - 1,
         \A i \in 1..(Len(s) - 1) : u[i] = s[i],
         s[Len(s)].todo = {}, s[Len(s)].refs = {},
         NEW f, NEW n, Seen(p, A, s, f, n)
  PROVE  Seen(p, A, u, f, n)
<1> DEFINE l == Len(s)
<1>0. /\ l \in Nat /\ l >= 1 /\ Len(u) = l - 1
      /\ \A i \in 2..l : i # l => i \in 2..Len(u) /\ u[i] = s[i]
      /\ s[l].todo = {} /\ s[l].refs = {}
  OBVIOUS
<1> HIDE DEF l
<1>1. ASSUME NEW r, RefPending(s, f, n, r) PROVE RefPending(u, f, n, r)
  <2>1. PICK i \in 2..l : s[i].host = f /\ s[i].node = n /\ r \in s[i].refs
    BY <1>1 DEF RefPending, l
  <2> QED BY <1>0, <2>1 DEF RefPending
<1>2. ASSUME Waiting(p, s, f, n) PROVE Waiting(p, u, f, n)
  <2>1. PICK i \in 2..l : s[i].host = f /\ \E c \in s[i].todo : c \in p.above[n]
    BY <1>2 DEF Waiting, l
  <2> QED BY <1>0, <2>1 DEF Waiting
<1> QED BY <1>1, <1>2 DEF Seen, Settled

\* The stack and the functions at work when a call goes on, makes another, or returns.
LEMMA GoesOn ==
  ASSUME Types, Len(stack) >= 1, program' = program,
         NEW t \in AnyFrame(program), t.node = Top.node, stack' = Append(Rest, t)
  PROVE  /\ stack' \in Seq(AnyFrame(program)) /\ Len(stack') = Len(stack)
         /\ stack'[Len(stack)] = t /\ \A i \in 1..(Len(stack) - 1) : stack'[i] = stack[i]
         /\ \A i \in 1..Len(stack) : stack'[i].node = stack[i].node
         /\ InProgress' = InProgress
<1>1. /\ stack' \in Seq(AnyFrame(program)) /\ Len(stack') = Len(stack)
      /\ stack'[Len(stack)] = t /\ \A i \in 1..(Len(stack) - 1) : stack'[i] = stack[i]
  <2>1. stack \in Seq(AnyFrame(program))
    BY DEF Types
  <2>2. stack' = Append(SubSeq(stack, 1, Len(stack) - 1), t)
    BY DEF Rest
  <2> QED BY <2>1, <2>2, ReplaceSeq
<1>2. Len(stack) \in Nat
  BY ProgramTypes
<1>3. \A i \in 1..Len(stack) : i = Len(stack) \/ i \in 1..(Len(stack) - 1)
  BY <1>2
<1>4. \A i \in 1..Len(stack) : stack'[i].node = stack[i].node
  BY <1>1, <1>3 DEF Top
<1>5. InProgress' = InProgress
  BY <1>1, <1>4 DEF InProgress
<1> QED BY <1>1, <1>4, <1>5

LEMMA Calling ==
  ASSUME Types, Len(stack) >= 1, program' = program,
         NEW t \in AnyFrame(program), t.node = Top.node, NEW u \in AnyFrame(program),
         stack' = Append(Append(Rest, t), u)
  PROVE  /\ stack' \in Seq(AnyFrame(program)) /\ Len(stack') = Len(stack) + 1
         /\ stack'[Len(stack) + 1] = u /\ stack'[Len(stack)] = t
         /\ \A i \in 1..(Len(stack) - 1) : stack'[i] = stack[i]
         /\ \A i \in 1..Len(stack) : stack'[i].node = stack[i].node
         /\ InProgress' = InProgress \cup ({u.node} \cap Defs(program))
<1> DEFINE w == Append(Rest, t)
<1>1. /\ w \in Seq(AnyFrame(program)) /\ Len(w) = Len(stack)
      /\ w[Len(stack)] = t /\ \A i \in 1..(Len(stack) - 1) : w[i] = stack[i]
  <2>1. stack \in Seq(AnyFrame(program))
    BY DEF Types
  <2>2. w = Append(SubSeq(stack, 1, Len(stack) - 1), t)
    BY DEF Rest
  <2> QED BY <2>1, <2>2, ReplaceSeq
<1>2. stack' = Append(w, u)
  OBVIOUS
<1> HIDE DEF w
<1>3. /\ stack' \in Seq(AnyFrame(program)) /\ Len(stack') = Len(w) + 1
      /\ stack'[Len(w) + 1] = u /\ \A i \in 1..Len(w) : stack'[i] = w[i]
  BY <1>1, <1>2, PushSeq
<1>4. Len(stack) \in Nat
  BY ProgramTypes
<1>5. \A i \in 1..Len(stack) : i = Len(stack) \/ i \in 1..(Len(stack) - 1)
  BY <1>4
<1>6. Len(stack) \in 1..Len(stack) /\ \A i \in 1..(Len(stack) - 1) : i \in 1..Len(stack)
  BY <1>4
<1>7. /\ Len(stack') = Len(stack) + 1 /\ stack'[Len(stack) + 1] = u /\ stack'[Len(stack)] = t
      /\ \A i \in 1..(Len(stack) - 1) : stack'[i] = stack[i]
  BY <1>1, <1>3, <1>6
<1>8. \A i \in 1..Len(stack) : stack'[i].node = stack[i].node
  BY <1>5, <1>7 DEF Top
<1>9. \A i \in 1..(Len(stack) + 1) : i = Len(stack) + 1 \/ i \in 1..Len(stack)
  BY <1>4
<1>10. Len(stack) + 1 \in 1..(Len(stack) + 1) /\ \A i \in 1..Len(stack) : i \in 1..(Len(stack) + 1)
  BY <1>4
<1>11. InProgress' = InProgress \cup ({u.node} \cap Defs(program))
  <2>1. u.node \in Node
    BY DEF AnyFrame
  <2>2. InProgress' = {f \in Node : program.kind[f] = "def" /\ \E i \in 1..(Len(stack) + 1) : stack'[i].node = f}
    BY <1>7 DEF InProgress
  <2>3. \A f : (\E i \in 1..(Len(stack) + 1) : stack'[i].node = f)
                <=> f = u.node \/ \E i \in 1..Len(stack) : stack[i].node = f
    <3> HIDE DEF Top
    <3> QED BY <1>7, <1>8, <1>9, <1>10
  <2> QED BY <2>1, <2>2, <2>3 DEF InProgress, Defs
<1> QED BY <1>3, <1>7, <1>8, <1>11
\* The frames stay those of the gather call and of functions called from it.
LEMMA FramesKept ==
  ASSUME NEW p, NEW s, NEW u, Len(s) \in Nat, Len(u) \in Nat, Len(u) >= Len(s),
         \A i \in 1..(Len(s) - 1) : u[i] = s[i],
         u[Len(s)].node = s[Len(s)].node, u[Len(s)].host = s[Len(s)].host,
         Frames(p, s),
         IF Len(s) = 1 THEN SiteFrame(p, u[Len(s)]) ELSE InsideFrame(p, u[Len(s)]),
         \A i \in (Len(s) + 1)..Len(u) :
           /\ InsideFrame(p, u[i]) /\ \E j \in 2..i : u[j].node = u[i].host
           /\ \A S \in ClosedSets(p) : u[i].host \in S
  PROVE  Frames(p, u)
<1> DEFINE l == Len(s)
           m == Len(u)
<1>0. /\ l \in Nat /\ l >= 1 /\ m \in Nat /\ m >= l
      /\ \A i \in 1..(l - 1) : u[i] = s[i]
      /\ u[l].node = s[l].node /\ u[l].host = s[l].host
      /\ IF l = 1 THEN SiteFrame(p, u[l]) ELSE InsideFrame(p, u[l])
  BY DEF Frames
<1>1. \A i \in (l + 1)..m :
           /\ InsideFrame(p, u[i]) /\ \E j \in 2..i : u[j].node = u[i].host
           /\ \A S \in ClosedSets(p) : u[i].host \in S
  OBVIOUS
<1>2. /\ SiteFrame(p, s[1]) /\ \A i \in 2..l : InsideFrame(p, s[i])
      /\ \A i \in 2..l : \E j \in 2..i : s[j].node = s[i].host
      /\ \A S \in ClosedSets(p) : \A i \in 2..l : s[i].host \in S
  BY DEF Frames, Reached
<1> HIDE DEF l, m
<1>3. m >= 1
  BY <1>0
<1>4. SiteFrame(p, u[1])
  <2>1. CASE l = 1
    BY <1>0, <2>1
  <2>2. CASE l # 1
    BY <1>0, <1>2, <2>2
  <2> QED BY <2>1, <2>2
<1>5. \A i \in 2..m : i \in (l + 1)..m \/ (i \in 2..l /\ (i = l \/ i \in 1..(l - 1)) /\ (i = l => l # 1))
  BY <1>0
<1>6. \A i \in 2..m : InsideFrame(p, u[i])
  BY <1>0, <1>1, <1>2, <1>5
<1>7. \A i \in 2..l : u[i].node = s[i].node /\ u[i].host = s[i].host
  BY <1>0
<1>8. \A i \in 2..m : \E j \in 2..i : u[j].node = u[i].host
  <2> SUFFICES ASSUME NEW i \in 2..m PROVE \E j \in 2..i : u[j].node = u[i].host
    OBVIOUS
  <2>1. CASE i \in 2..l
    <3>1. PICK j \in 2..i : s[j].node = s[i].host
      BY <1>2, <2>1
    <3>2. j \in 2..l
      BY <1>0, <2>1
    <3> QED BY <1>7, <2>1, <3>1, <3>2
  <2> QED BY <1>1, <1>5, <2>1
<1>9. \A S \in ClosedSets(p) : \A i \in 2..m : u[i].host \in S
  BY <1>1, <1>2, <1>5, <1>7
<1> QED BY <1>3, <1>4, <1>6, <1>8, <1>9 DEF Frames, Reached, m

-----------------------------------------------------------------------------
\* The call that walks below a node, and the arguments of walk for its child c.
LEMMA WalkTop ==
  ASSUME GInv, status = "search", NEW c \in Top.todo
  PROVE  /\ Len(stack) \in Nat /\ Len(stack) >= 2 /\ Top \in AnyFrame(program)
         /\ Top.host \in Defs(program) /\ WalkFrame(program, Top)
         /\ c \in Node /\ c \in OwnNodes(program, Top.host) /\ c \in Children(program, Top.node)
         /\ ProtectedAt(c) <=> Guarded(program, Top.host, c)
         /\ CancelAt(c) <=> Cancels(program, Top.host, c)
         /\ program.kind[c] # "handler" => (CancelAt(c) <=> InCancellation(program, Top.host, c))
<1>1. Types /\ Frames(program, stack)
  BY DEF GInv, SearchInv
<1>2. Len(stack) \in Nat /\ Len(stack) >= 1 /\ program \in Program /\ WellFormed(program)
  BY <1>1, ProgramTypes DEF Frames
<1>3. Top \in AnyFrame(program)
  BY <1>1, <1>2, ProgramTypes DEF Top
<1>4. Len(stack) # 1
  BY <1>1 DEF Frames, SiteFrame, Top
<1>5. InsideFrame(program, Top)
  <2>1. \A k \in Nat : k >= 1 /\ k # 1 => k \in 2..k
    OBVIOUS
  <2>2. Len(stack) \in 2..Len(stack)
    BY <1>2, <1>4, <2>1
  <2> QED BY <1>1, <2>2 DEF Frames, Top
<1>6. Top.host \in Defs(program) /\ WalkFrame(program, Top)
  BY <1>5 DEF InsideFrame, AwaitFrame
<1>7. Top.node \in Node /\ Top.host \in Node /\ Top.protected \in BOOLEAN /\ Top.cancel \in BOOLEAN
  BY <1>3, <1>6 DEF AnyFrame, Defs
<1>8. c \in Children(program, Top.node) /\ Inner(program, Top.host, Top.node)
  BY <1>6 DEF WalkFrame
<1>9. c \in Node
  BY <1>8 DEF Children
<1>10. /\ c \in OwnNodes(program, Top.host)
       /\ Guarded(program, Top.host, c)
            <=> Guarded(program, Top.host, Top.node) \/ (c \in program.body /\ Swallows(program, Top.node))
       /\ InCancellation(program, Top.host, c) <=> Cancels(program, Top.host, Top.node)
       /\ Cancels(program, Top.host, c)
            <=> IF program.kind[c] = "handler" THEN c \in program.cancel
                                               ELSE Cancels(program, Top.host, Top.node)
  BY <1>2, <1>7, <1>8, ChildOfInner
<1>11. /\ Top.protected <=> Guarded(program, Top.host, Top.node)
       /\ Top.cancel <=> Cancels(program, Top.host, Top.node)
  BY <1>6 DEF WalkFrame
<1>12. ProtectedAt(c) <=> Guarded(program, Top.host, c)
  BY <1>10, <1>11 DEF ProtectedAt
<1>13. CancelAt(c) <=> Cancels(program, Top.host, c)
  BY <1>10, <1>11 DEF CancelAt
<1>14. program.kind[c] # "handler" => (CancelAt(c) <=> InCancellation(program, Top.host, c))
  BY <1>10, <1>11 DEF CancelAt
<1>15. Len(stack) >= 2
  <2>1. \A k \in Nat : k >= 1 /\ k # 1 => k >= 2
    OBVIOUS
  <2> QED BY <1>2, <1>4, <2>1
<1> QED BY <1>2, <1>3, <1>6, <1>8, <1>9, <1>10, <1>12, <1>13, <1>14, <1>15

\* The rest of the frame of a call that has turned to child c.
LEMMA WithoutChild ==
  ASSUME GInv, status = "search", NEW c \in Top.todo, NEW t, t = [Top EXCEPT !.todo = @ \ {c}]
  PROVE  /\ t \in AnyFrame(program) /\ t.node = Top.node /\ t.host = Top.host /\ t.refs = Top.refs
         /\ Top.todo \ t.todo \subseteq {c} /\ InsideFrame(program, t)
<1>1. Top \in AnyFrame(program) /\ Top.host \in Defs(program) /\ WalkFrame(program, Top)
  BY WalkTop
<1>2. /\ t.node = Top.node /\ t.host = Top.host /\ t.refs = Top.refs /\ t.todo = Top.todo \ {c}
      /\ t.protected = Top.protected /\ t.cancel = Top.cancel /\ t \in AnyFrame(program)
  BY <1>1 DEF AnyFrame
<1>3. InsideFrame(program, t)
  BY <1>1, <1>2 DEF InsideFrame, WalkFrame
<1> QED BY <1>2, <1>3
-----------------------------------------------------------------------------
\* What holds after any step that neither leaks nor ends a call.
LEMMA StillSearching ==
  ASSUME GInv, status = "search", UNCHANGED <<program, memo, status>>,
         stack' \in Seq(AnyFrame(program)), EachFunctionOnce', SearchInv'
  PROVE  GInv'
<1>1. Types'
  BY DEF GInv, Types
<1>2. Verdict'
  BY DEF GInv, Verdict
<1> QED BY <1>1, <1>2 DEF GInv

\* walk leaves child c alone: nothing of the function is below it that counts.
LEMMA SkipStep ==
  ASSUME GInv, status = "search", NEW c \in Top.todo, Skip(c)
  PROVE  GInv'
<1> DEFINE t == [Top EXCEPT !.todo = @ \ {c}]
           h == Top.host
<1>1. /\ Types /\ Frames(program, stack) /\ Progress /\ SiteProgress /\ EachFunctionOnce
      /\ \A n \in Node : memo[n] # "leaks"
  BY DEF GInv, SearchInv
<1>2. /\ Len(stack) \in Nat /\ Len(stack) >= 2 /\ h \in Defs(program)
      /\ c \in Node /\ c \in OwnNodes(program, h)
      /\ ProtectedAt(c) <=> Guarded(program, h, c)
      /\ program.kind[c] # "handler" => (CancelAt(c) <=> InCancellation(program, h, c))
  BY WalkTop
<1>3. /\ t \in AnyFrame(program) /\ t.node = Top.node /\ t.host = h /\ t.refs = Top.refs
      /\ Top.todo \ t.todo \subseteq {c} /\ InsideFrame(program, t)
  BY WithoutChild
<1>4. /\ program' = program /\ memo' = memo /\ status' = status /\ stack' = Append(Rest, t)
      /\ \/ program.kind[c] \in {"def", "lambda"}
         \/ program.kind[c] = "raise" /\ CancelAt(c)
         \/ program.kind[c] = "await" /\ ProtectedAt(c)
  BY DEF Skip, Goes
<1> HIDE DEF t
<1>5. /\ stack' \in Seq(AnyFrame(program)) /\ Len(stack') = Len(stack)
      /\ stack'[Len(stack)] = t /\ \A i \in 1..(Len(stack) - 1) : stack'[i] = stack[i]
      /\ \A i \in 1..Len(stack) : stack'[i].node = stack[i].node
      /\ InProgress' = InProgress
  BY <1>1, <1>2, <1>3, <1>4, GoesOn
<1>6. Assumed' = Assumed
  BY <1>4, <1>5 DEF Assumed
<1>7. Settled(program, Assumed, stack', h, c)
  BY <1>2, <1>4 DEF Settled, FreeAwaits
<1>8. \A n \in OwnNodes(program, h) : c \in program.above[n] => n = c
  BY <1>1, <1>2, <1>4, ProgramTypes, StopsHere DEF Defs
<1>9. Progress'
  <2> SUFFICES ASSUME NEW f \in Assumed, NEW n \in OwnNodes(program, f)
               PROVE  Seen(program, Assumed, stack', f, n)
    BY <1>4, <1>6 DEF Progress
  <2>1. Seen(program, Assumed, stack, f, n)
    BY <1>1 DEF Progress
  <2>2. \A d \in Top.todo \ t.todo : f = h /\ d \in program.above[n] => Seen(program, Assumed, stack', f, n)
    BY <1>3, <1>7, <1>8 DEF Seen
  <2> QED BY <1>2, <1>3, <1>5, <2>1, <2>2, Kept DEF Top
<1>10. SiteProgress'
  BY <1>1, <1>2, <1>4, <1>5, <1>6 DEF SiteProgress
<1>11. Frames(program, stack')
  BY <1>1, <1>2, <1>3, <1>5, FramesKept DEF Top
<1>12. SearchInv'
  BY <1>1, <1>4, <1>9, <1>10, <1>11 DEF SearchInv
<1>13. EachFunctionOnce'
  BY <1>1, <1>4, <1>5 DEF EachFunctionOnce
<1> QED BY <1>4, <1>5, <1>12, <1>13, StillSearching
\* walk goes on below child c, in a call of its own.
LEMMA EnterStep ==
  ASSUME GInv, status = "search", NEW c \in Top.todo, Enter(c)
  PROVE  GInv'
<1> DEFINE t == [Top EXCEPT !.todo = @ \ {c}]
           h == Top.host
           u == [node |-> c, host |-> h, protected |-> ProtectedAt(c), cancel |-> CancelAt(c),
                 todo |-> IF program.kind[c] = "await" THEN {} ELSE Children(program, c),
                 refs |-> IF program.kind[c] = "await" THEN program.refs[c] ELSE {}]
<1>1. /\ Types /\ Frames(program, stack) /\ Progress /\ SiteProgress /\ EachFunctionOnce
      /\ \A n \in Node : memo[n] # "leaks"
  BY DEF GInv, SearchInv
<1>2. /\ Len(stack) \in Nat /\ Len(stack) >= 2 /\ Top \in AnyFrame(program) /\ h \in Defs(program)
      /\ c \in Node /\ c \in OwnNodes(program, h)
      /\ ProtectedAt(c) <=> Guarded(program, h, c)
      /\ CancelAt(c) <=> Cancels(program, h, c)
  BY WalkTop
<1>3. /\ t \in AnyFrame(program) /\ t.node = Top.node /\ t.host = h /\ t.refs = Top.refs
      /\ Top.todo \ t.todo \subseteq {c} /\ InsideFrame(program, t)
  BY WithoutChild
<1>4. /\ program' = program /\ memo' = memo /\ status' = status
      /\ stack' = Append(Append(Rest, t), u)
      /\ \/ program.kind[c] = "await" /\ ~ProtectedAt(c)
         \/ program.kind[c] = "try" /\ ~LeakyFinally(program, c)
         \/ program.kind[c] \in {"class", "call", "handler", "other"}
  BY DEF Enter, Goes
<1>5. /\ program \in Program /\ WellFormed(program)
      /\ program.refs \in [Node -> SUBSET (Ref \cup {Unknown})]
  BY <1>1, ProgramTypes
<1>6. /\ u.node = c /\ u.host = h /\ u.protected = ProtectedAt(c) /\ u.cancel = CancelAt(c)
      /\ u.todo = IF program.kind[c] = "await" THEN {} ELSE Children(program, c)
      /\ u.refs = IF program.kind[c] = "await" THEN program.refs[c] ELSE {}
  OBVIOUS
<1>7. u \in AnyFrame(program)
  <2>1. ProtectedAt(c) \in BOOLEAN /\ CancelAt(c) \in BOOLEAN
    <3>1. Top.cancel \in BOOLEAN
      BY <1>2 DEF AnyFrame
    <3>2. ProtectedAt(c) \in BOOLEAN
      BY Zenon DEF ProtectedAt
    <3>3. (c \in program.cancel) \in BOOLEAN
      OBVIOUS
    <3>4. CancelAt(c) \in BOOLEAN
      BY <3>1, <3>3, Zenon DEF CancelAt
    <3> QED BY <3>2, <3>4
  <2>2. Children(program, c) \subseteq Node /\ h \in Node
    BY <1>2 DEF Children, Defs
  <2>3. program.refs[c] \subseteq Ref \cup {Unknown}
    BY <1>2, <1>5
  <2> QED BY <1>2, <2>1, <2>2, <2>3 DEF AnyFrame
<1> HIDE DEF t, u
<1>8. InsideFrame(program, u)
  <2>1. CASE program.kind[c] = "await"
    <3>1. c \in FreeAwaits(program, h)
      BY <1>2, <1>4, <2>1 DEF FreeAwaits
    <3> QED BY <1>2, <1>6, <2>1, <3>1 DEF InsideFrame, AwaitFrame
  <2>2. CASE program.kind[c] # "await"
    <3>1. Inner(program, h, c)
      BY <1>2, <1>4, <2>2 DEF Inner, InnerKind
    <3> QED BY <1>2, <1>6, <2>2, <3>1 DEF InsideFrame, WalkFrame
  <2> QED BY <2>1, <2>2
<1>9. /\ stack' \in Seq(AnyFrame(program)) /\ Len(stack') = Len(stack) + 1
      /\ stack'[Len(stack) + 1] = u /\ stack'[Len(stack)] = t
      /\ \A i \in 1..(Len(stack) - 1) : stack'[i] = stack[i]
      /\ \A i \in 1..Len(stack) : stack'[i].node = stack[i].node
      /\ InProgress' = InProgress \cup ({u.node} \cap Defs(program))
  BY <1>1, <1>2, <1>3, <1>4, <1>7, Calling
<1>10. program.kind[u.node] # "def"
  BY <1>4, <1>6
<1>11. Assumed' = Assumed
  BY <1>4, <1>9, <1>10 DEF Assumed, Defs
<1>12. Len(stack) + 1 \in 2..Len(stack') /\ Len(stack') \in Nat /\ Len(stack') >= Len(stack)
  BY <1>2, <1>9
<1>13. Settled(program, Assumed, stack', h, c)
  <2>1. CASE program.kind[c] = "await"
    <3>1. \A r \in program.refs[c] : RefPending(stack', h, c, r)
      BY <1>6, <1>9, <1>12, <2>1 DEF RefPending
    <3> QED BY <2>1, <3>1 DEF Settled
  <2>2. CASE program.kind[c] # "await"
    BY <1>4, <2>2 DEF Settled, FreeAwaits
  <2> QED BY <2>1, <2>2
<1>14. ASSUME NEW n \in OwnNodes(program, h), c \in program.above[n]
       PROVE  Seen(program, Assumed, stack', h, n)
  <2>1. n \in Node
    BY DEF OwnNodes, Below
  <2>2. CASE n = c
    BY <1>13, <2>2 DEF Seen
  <2>3. CASE n # c /\ program.kind[c] = "await"
    BY <1>2, <1>5, <1>14, <2>3, StopsHere DEF Defs
  <2>4. CASE n # c /\ program.kind[c] # "await"
    <3>1. PICK d \in Children(program, c) : d \in program.above[n]
      BY <1>2, <1>5, <1>14, <2>1, <2>4, BelowAChild
    <3> QED BY <1>6, <1>9, <1>12, <2>4, <3>1 DEF Seen, Waiting
  <2> QED BY <2>2, <2>3, <2>4
<1>15. Progress'
  <2> SUFFICES ASSUME NEW f \in Assumed, NEW n \in OwnNodes(program, f)
               PROVE  Seen(program, Assumed, stack', f, n)
    BY <1>4, <1>11 DEF Progress
  <2>1. Seen(program, Assumed, stack, f, n)
    BY <1>1 DEF Progress
  <2>2. \A d \in Top.todo \ t.todo : f = h /\ d \in program.above[n] => Seen(program, Assumed, stack', f, n)
    BY <1>3, <1>14
  <2> QED BY <1>2, <1>3, <1>9, <1>12, <2>1, <2>2, Kept DEF Top
<1>16. SiteProgress'
  BY <1>1, <1>2, <1>4, <1>9, <1>11 DEF SiteProgress
<1>17. Frames(program, stack')
  <2>1. ASSUME NEW i \in (Len(stack) + 1)..Len(stack')
        PROVE  /\ InsideFrame(program, stack'[i]) /\ \E j \in 2..i : stack'[j].node = stack'[i].host
               /\ \A S \in ClosedSets(program) : stack'[i].host \in S
    <3>1. i = Len(stack) + 1 /\ Len(stack) \in 2..Len(stack)
      BY <1>2, <1>9
    <3>2. stack'[i] = u /\ stack[Len(stack)].host = h
      BY <1>9, <3>1 DEF Top
    <3>3. PICK j \in 2..Len(stack) : stack[j].node = h
      BY <1>1, <3>1, <3>2 DEF Frames
    <3>4. j \in 2..i /\ j \in 1..Len(stack)
      BY <1>2, <3>1, <3>3
    <3>5. stack'[j].node = h
      BY <1>9, <3>3, <3>4
    <3>6. \A S \in ClosedSets(program) : h \in S
      BY <1>1, <3>1, <3>2 DEF Frames, Reached
    <3> QED BY <1>6, <1>8, <3>2, <3>4, <3>5, <3>6
  <2> QED BY <1>1, <1>2, <1>3, <1>9, <1>12, <2>1, FramesKept DEF Top
<1>18. SearchInv'
  BY <1>1, <1>4, <1>15, <1>16, <1>17 DEF SearchInv
<1>19. EachFunctionOnce'
  <2>1. \A i \in 1..Len(stack') : i \in 1..Len(stack) \/ i = Len(stack) + 1
    BY <1>2, <1>9
  <2>2. \A i \in 1..Len(stack') : program.kind[stack'[i].node] = "def"
                                    => i \in 1..Len(stack) /\ stack'[i].node = stack[i].node
    BY <1>9, <1>10, <2>1
  <2>3. \A i, j \in 1..Len(stack') : i # j /\ program.kind[stack'[i].node] = "def"
                                        => stack'[i].node # stack'[j].node
    BY <1>1, <2>1, <2>2, <1>9, <1>10 DEF EachFunctionOnce
  <2>4. \A i \in 1..Len(stack') : program.kind[stack'[i].node] = "def" => memo[stack'[i].node] = "none"
    BY <1>1, <2>2 DEF EachFunctionOnce
  <2> QED BY <1>4, <2>3, <2>4 DEF EachFunctionOnce
<1> QED BY <1>4, <1>9, <1>18, <1>19, StillSearching
-----------------------------------------------------------------------------
\* A reference names one function, or none.
LEMMA ResolvesToOne ==
  ASSUME NEW p, NEW r, NEW host
  PROVE  /\ Resolve(p, r, host) \subseteq Defs(p)
         /\ \A f, g \in Resolve(p, r, host) : f = g
<1>1. \A s, id : DefsIn(p, s, id) \subseteq Defs(p)
  BY DEF DefsIn, Defs
<1>2. \A id : Flat(p, id) \subseteq Defs(p)
  BY <1>1 DEF Flat
<1>3. Candidates(p, r, host) \subseteq Defs(p)
  BY <1>1, <1>2 DEF Candidates
<1> QED BY <1>3 DEF Resolve

\* The call that follows the references of an await, and its frame without r.
LEMMA FollowTop ==
  ASSUME GInv, status = "search", NEW r \in Top.refs, NEW t, t = [Top EXCEPT !.refs = @ \ {r}]
  PROVE  /\ Len(stack) \in Nat /\ Len(stack) >= 1 /\ Top \in AnyFrame(program)
         /\ IF Len(stack) = 1
            THEN Top.host = SiteHost(program) /\ r \in program.refs[program.site] /\ SiteFrame(program, t)
            ELSE /\ Top.host \in Defs(program) /\ Top.node \in FreeAwaits(program, Top.host)
                 /\ r \in program.refs[Top.node] /\ InsideFrame(program, t)
                 /\ Len(stack) \in 2..Len(stack)
         /\ t \in AnyFrame(program) /\ t.node = Top.node /\ t.host = Top.host /\ t.todo = Top.todo
         /\ Top.refs \ t.refs \subseteq {r}
<1>1. Types /\ Frames(program, stack)
  BY DEF GInv, SearchInv
<1>2. Len(stack) \in Nat /\ Len(stack) >= 1
  BY <1>1, ProgramTypes DEF Frames
<1>3. Top \in AnyFrame(program)
  BY <1>1, <1>2, ProgramTypes DEF Top
<1>4. /\ t.node = Top.node /\ t.host = Top.host /\ t.todo = Top.todo /\ t.refs = Top.refs \ {r}
      /\ t.protected = Top.protected /\ t.cancel = Top.cancel /\ t \in AnyFrame(program)
  BY <1>3 DEF AnyFrame
<1>5. CASE Len(stack) = 1
  <2>1. SiteFrame(program, Top)
    BY <1>1, <1>5 DEF Frames, Top
  <2>2. Top.host = SiteHost(program) /\ r \in program.refs[program.site] /\ SiteFrame(program, t)
    BY <1>4, <2>1 DEF SiteFrame
  <2> QED BY <1>2, <1>3, <1>4, <1>5, <2>2
<1>6. CASE Len(stack) # 1
  <2>1. \A k \in Nat : k >= 1 /\ k # 1 => k \in 2..k
    OBVIOUS
  <2>2. Len(stack) \in 2..Len(stack)
    BY <1>2, <1>6, <2>1
  <2>3. InsideFrame(program, Top)
    BY <1>1, <2>2 DEF Frames, Top
  <2>4. Top.host \in Defs(program) /\ AwaitFrame(program, Top)
    BY <2>3 DEF InsideFrame, WalkFrame
  <2>5. InsideFrame(program, t)
    BY <1>4, <2>4 DEF InsideFrame, AwaitFrame
  <2>6. Top.node \in FreeAwaits(program, Top.host) /\ r \in program.refs[Top.node]
    BY <2>4 DEF AwaitFrame
  <2> QED BY <1>2, <1>3, <1>4, <1>6, <2>2, <2>4, <2>5, <2>6
<1> QED BY <1>5, <1>6

\* What the gather call itself has found out stays found out.
LEMMA SiteKept ==
  ASSUME NEW p, NEW A, NEW B, A \subseteq B, NEW s, NEW u, Len(s) \in Nat, Len(s) >= 1,
         \A i \in 1..(Len(s) - 1) : u[i] = s[i],
         Len(s) = 1 => s[1].host = SiteHost(p),
         \A r \in s[Len(s)].refs \ u[Len(s)].refs : RefSettled(p, B, s[Len(s)].host, r),
         \A r \in p.refs[p.site] : RefSettled(p, A, SiteHost(p), r) \/ r \in s[1].refs
  PROVE  \A r \in p.refs[p.site] : RefSettled(p, B, SiteHost(p), r) \/ r \in u[1].refs
<1>1. \A r : RefSettled(p, A, SiteHost(p), r) => RefSettled(p, B, SiteHost(p), r)
  BY DEF RefSettled
<1>2. CASE Len(s) = 1
  BY <1>1, <1>2
<1>3. CASE Len(s) # 1
  <2>1. \A k \in Nat : k >= 1 /\ k # 1 => 1 \in 1..(k - 1)
    OBVIOUS
  <2>2. u[1] = s[1]
    BY <1>3, <2>1
  <2> QED BY <1>1, <2>2
<1> QED BY <1>2, <1>3

\* The function is known to be contained, or is at work.
LEMMA KnownStep ==
  ASSUME GInv, status = "search", NEW r \in Top.refs, Known(r)
  PROVE  GInv'
<1> DEFINE t == [Top EXCEPT !.refs = @ \ {r}]
<1>1. /\ Types /\ Frames(program, stack) /\ Progress /\ SiteProgress /\ EachFunctionOnce
      /\ \A n \in Node : memo[n] # "leaks"
  BY DEF GInv, SearchInv
<1>2. /\ Len(stack) \in Nat /\ Len(stack) >= 1
      /\ IF Len(stack) = 1 THEN Top.host = SiteHost(program) /\ SiteFrame(program, t)
                           ELSE InsideFrame(program, t)
      /\ t \in AnyFrame(program) /\ t.node = Top.node /\ t.host = Top.host /\ t.todo = Top.todo
      /\ Top.refs \ t.refs \subseteq {r}
  BY FollowTop
<1>3. /\ program' = program /\ memo' = memo /\ status' = status /\ stack' = Append(Rest, t)
      /\ Understood(program, r, Top.host)
      /\ \/ r.how = "thread"
         \/ \E f \in Resolve(program, r, Top.host) :
              memo[f] = "contained" \/ (memo[f] = "none" /\ f \in InProgress)
  BY DEF Known, Goes
<1> HIDE DEF t
<1>4. /\ stack' \in Seq(AnyFrame(program)) /\ Len(stack') = Len(stack)
      /\ stack'[Len(stack)] = t /\ \A i \in 1..(Len(stack) - 1) : stack'[i] = stack[i]
      /\ \A i \in 1..Len(stack) : stack'[i].node = stack[i].node
      /\ InProgress' = InProgress
  BY <1>1, <1>2, <1>3, GoesOn
<1>5. Assumed' = Assumed
  BY <1>3, <1>4 DEF Assumed
<1>6. RefSettled(program, Assumed, Top.host, r)
  <2>1. CASE r.how = "thread"
    BY <1>3, <2>1 DEF RefSettled
  <2>2. CASE r.how # "thread"
    <3>1. PICK f \in Resolve(program, r, Top.host) :
                 memo[f] = "contained" \/ (memo[f] = "none" /\ f \in InProgress)
      BY <1>3, <2>2
    <3>2. f \in Node /\ \A g \in Resolve(program, r, Top.host) : g = f
      BY ResolvesToOne DEF Defs
    <3>3. f \in Assumed
      BY <3>1, <3>2 DEF Assumed
    <3> QED BY <1>3, <3>2, <3>3 DEF RefSettled
  <2> QED BY <2>1, <2>2
<1>7. \A q \in Top.refs \ t.refs : RefSettled(program, Assumed, Top.host, q)
  BY <1>2, <1>6
<1>8. Progress'
  <2> SUFFICES ASSUME NEW f \in Assumed, NEW n \in OwnNodes(program, f)
               PROVE  Seen(program, Assumed, stack', f, n)
    BY <1>3, <1>5 DEF Progress
  <2>1. Seen(program, Assumed, stack, f, n)
    BY <1>1 DEF Progress
  <2> QED BY <1>2, <1>4, <1>7, <2>1, Kept DEF Top
<1>9. SiteProgress'
  <2>1. \A q \in program.refs[program.site] :
          RefSettled(program, Assumed, SiteHost(program), q) \/ q \in stack'[1].refs
    BY <1>1, <1>2, <1>4, <1>7, SiteKept DEF SiteProgress, Top
  <2> QED BY <1>3, <1>5, <2>1 DEF SiteProgress
<1>10. Frames(program, stack')
  <2>1. (Len(stack) + 1)..Len(stack') = {}
    BY <1>2, <1>4
  <2>2. /\ IF Len(stack) = 1 THEN SiteFrame(program, stack'[Len(stack)])
                            ELSE InsideFrame(program, stack'[Len(stack)])
        /\ Len(stack') \in Nat /\ Len(stack') >= Len(stack)
    BY <1>2, <1>4
  <2>3. /\ stack'[Len(stack)].node = stack[Len(stack)].node
        /\ stack'[Len(stack)].host = stack[Len(stack)].host
    BY <1>2, <1>4 DEF Top
  <2> QED BY <1>1, <1>2, <1>4, <2>1, <2>2, <2>3, FramesKept
<1>11. SearchInv'
  BY <1>1, <1>3, <1>8, <1>9, <1>10 DEF SearchInv
<1>12. EachFunctionOnce'
  BY <1>1, <1>3, <1>4 DEF EachFunctionOnce
<1> QED BY <1>3, <1>4, <1>11, <1>12, StillSearching
\* The function is begun: all of its nodes wait, and it belongs to every closed set.
LEMMA AnalyzeStep ==
  ASSUME GInv, status = "search", NEW r \in Top.refs, Analyze(r)
  PROVE  GInv'
<1> DEFINE t == [Top EXCEPT !.refs = @ \ {r}]
           h == Top.host
<1>1. /\ Types /\ Frames(program, stack) /\ Progress /\ SiteProgress /\ EachFunctionOnce
      /\ \A n \in Node : memo[n] # "leaks"
  BY DEF GInv, SearchInv
<1>2. /\ Len(stack) \in Nat /\ Len(stack) >= 1
      /\ IF Len(stack) = 1
         THEN h = SiteHost(program) /\ r \in program.refs[program.site] /\ SiteFrame(program, t)
         ELSE /\ h \in Defs(program) /\ Top.node \in FreeAwaits(program, h)
              /\ r \in program.refs[Top.node] /\ InsideFrame(program, t)
              /\ Len(stack) \in 2..Len(stack)
      /\ t \in AnyFrame(program) /\ t.node = Top.node /\ t.host = h /\ t.todo = Top.todo
      /\ Top.refs \ t.refs \subseteq {r}
  BY FollowTop
<1> HIDE DEF t
<1>3. PICK f \in Resolve(program, r, h) :
        /\ memo[f] = "none" /\ f \notin InProgress
        /\ program' = program /\ memo' = memo /\ status' = status
        /\ stack' = Append(Append(Rest, t), Call(f))
  BY DEF Analyze, Goes, t
<1>4. Understood(program, r, h) /\ r.how = "call" /\ r # Unknown
  BY DEF Analyze, Understood
<1>5. f \in Defs(program) /\ f \in Node /\ \A g \in Resolve(program, r, h) : g = f
  BY <1>3, ResolvesToOne DEF Defs
<1>6. program \in Program /\ WellFormed(program)
  BY <1>1, ProgramTypes
<1> DEFINE u == Call(f)
<1>7. /\ u.node = f /\ u.host = f /\ u.protected = FALSE /\ u.cancel = FALSE
      /\ u.todo = Children(program, f) /\ u.refs = {}
  BY DEF Call
<1>8. u \in AnyFrame(program)
  BY <1>5 DEF Call, AnyFrame, Children
<1> HIDE DEF u
<1>9. InsideFrame(program, u)
  BY <1>5, <1>6, <1>7, BareFunction DEF InsideFrame, WalkFrame, Inner
<1>10. /\ stack' \in Seq(AnyFrame(program)) /\ Len(stack') = Len(stack) + 1
       /\ stack'[Len(stack) + 1] = u /\ stack'[Len(stack)] = t
       /\ \A i \in 1..(Len(stack) - 1) : stack'[i] = stack[i]
       /\ \A i \in 1..Len(stack) : stack'[i].node = stack[i].node
       /\ InProgress' = InProgress \cup ({u.node} \cap Defs(program))
  BY <1>1, <1>2, <1>3, <1>8, Calling DEF u
<1>11. Assumed' = Assumed \cup {f}
  BY <1>3, <1>5, <1>7, <1>10 DEF Assumed
<1>12. Len(stack) + 1 \in 2..Len(stack') /\ Len(stack') \in Nat /\ Len(stack') >= Len(stack)
  BY <1>2, <1>10
<1>13. RefSettled(program, Assumed', h, r)
  BY <1>4, <1>5, <1>11 DEF RefSettled
<1>14. \A q \in Top.refs \ t.refs : RefSettled(program, Assumed', h, q)
  BY <1>2, <1>13
<1>15. Progress'
  <2> SUFFICES ASSUME NEW g \in Assumed', NEW n \in OwnNodes(program, g)
               PROVE  Seen(program, Assumed', stack', g, n)
    BY <1>3 DEF Progress
  <2>1. CASE g = f
    <3>1. n \in Node /\ f \in program.above[n] /\ f # n
      BY <2>1 DEF OwnNodes, Below
    <3>2. PICK d \in Children(program, f) : d \in program.above[n]
      BY <1>5, <1>6, <3>1, BelowAChild
    <3> QED BY <1>7, <1>10, <1>12, <2>1, <3>2 DEF Seen, Waiting
  <2>2. CASE g \in Assumed
    <3>1. Seen(program, Assumed, stack, g, n)
      BY <1>1, <2>2 DEF Progress
    <3>2. Assumed \subseteq Assumed'
      BY <1>11
    <3> QED BY <1>2, <1>10, <1>12, <1>14, <3>1, <3>2, Kept DEF Top
  <2> QED BY <1>11, <2>1, <2>2
<1>16. SiteProgress'
  <2>1. Assumed \subseteq Assumed'
    BY <1>11
  <2>2. \A q \in program.refs[program.site] :
          RefSettled(program, Assumed', SiteHost(program), q) \/ q \in stack'[1].refs
    <3>1. Len(stack) = 1 => stack[1].host = SiteHost(program)
      BY <1>2 DEF Top
    <3>2. \A q \in stack[Len(stack)].refs \ stack'[Len(stack)].refs :
            RefSettled(program, Assumed', stack[Len(stack)].host, q)
      BY <1>10, <1>14 DEF Top
    <3>3. \A q \in program.refs[program.site] :
            RefSettled(program, Assumed, SiteHost(program), q) \/ q \in stack[1].refs
      BY <1>1 DEF SiteProgress
    <3> QED BY <1>2, <1>10, <2>1, <3>1, <3>2, <3>3, SiteKept
  <2> QED BY <1>3, <2>2 DEF SiteProgress
<1>17. \A S \in ClosedSets(program) : f \in S
  <2> SUFFICES ASSUME NEW S \in ClosedSets(program) PROVE f \in S
    OBVIOUS
  <2>1. CASE Len(stack) = 1
    <3>1. Calls(program, program.refs[program.site], SiteHost(program)) \subseteq S
      BY DEF ClosedSets
    <3> QED BY <1>2, <1>3, <1>4, <2>1, <3>1 DEF Calls
  <2>2. CASE Len(stack) # 1
    <3>1. h \in S
      BY <1>1, <1>2, <2>2 DEF Frames, Reached, Top
    <3>2. Calls(program, program.refs[Top.node], h) \subseteq S
      BY <1>2, <2>2, <3>1 DEF ClosedSets, Closed
    <3> QED BY <1>2, <1>3, <1>4, <2>2, <3>2 DEF Calls
  <2> QED BY <2>1, <2>2
<1>18. Frames(program, stack')
  <2>1. ASSUME NEW i \in (Len(stack) + 1)..Len(stack')
        PROVE  /\ InsideFrame(program, stack'[i]) /\ \E j \in 2..i : stack'[j].node = stack'[i].host
               /\ \A S \in ClosedSets(program) : stack'[i].host \in S
    <3>1. i = Len(stack) + 1 /\ i \in 2..i
      BY <1>2, <1>10
    <3>2. stack'[i] = u
      BY <1>10, <3>1
    <3> QED BY <1>7, <1>9, <1>17, <3>1, <3>2
  <2>2. IF Len(stack) = 1 THEN SiteFrame(program, stack'[Len(stack)])
                          ELSE InsideFrame(program, stack'[Len(stack)])
    BY <1>2, <1>10
  <2>3. /\ stack'[Len(stack)].node = stack[Len(stack)].node
        /\ stack'[Len(stack)].host = stack[Len(stack)].host
    BY <1>2, <1>10 DEF Top
  <2> QED BY <1>1, <1>2, <1>10, <1>12, <2>1, <2>2, <2>3, FramesKept
<1>19. SearchInv'
  BY <1>1, <1>3, <1>15, <1>16, <1>18 DEF SearchInv
<1>20. EachFunctionOnce'
  <2>1. \A i \in 1..Len(stack') : i \in 1..Len(stack) \/ i = Len(stack) + 1
    BY <1>2, <1>10
  <2>2. \A i \in 1..Len(stack) : stack[i].node # f
    BY <1>3, <1>5 DEF InProgress, Defs
  <2>3. stack'[Len(stack) + 1].node = f
    BY <1>7, <1>10
  <2>4. \A i, j \in 1..Len(stack') : i # j /\ program.kind[stack'[i].node] = "def"
                                        => stack'[i].node # stack'[j].node
    BY <1>1, <1>10, <2>1, <2>2, <2>3 DEF EachFunctionOnce
  <2>5. \A i \in 1..Len(stack') : program.kind[stack'[i].node] = "def" => memo[stack'[i].node] = "none"
    BY <1>1, <1>3, <1>10, <2>1, <2>3 DEF EachFunctionOnce
  <2> QED BY <1>3, <2>4, <2>5 DEF EachFunctionOnce
<1> QED BY <1>3, <1>10, <1>19, <1>20, StillSearching

-----------------------------------------------------------------------------
\* A leak, once found, stands: some function reached from the gather call leaks.
LEMMA LeakFound ==
  ASSUME GInv, status = "search", Leaks, ~Contained(program)
  PROVE  GInv'
<1>1. program' = program /\ stack' = stack /\ memo' = memo /\ status' = "unwind"
  BY DEF Leaks
<1>2. Types' /\ EachFunctionOnce'
  BY <1>1 DEF GInv, Types, EachFunctionOnce
<1>3. Len(stack) >= 1
  BY DEF GInv, SearchInv, Frames
<1> QED BY <1>1, <1>2, <1>3 DEF GInv, Verdict

LEMMA HostLeaks ==
  ASSUME Types, SearchInv, Len(stack) \in 2..Len(stack), LetsOut(program, Top.host)
  PROVE  ~Contained(program)
<1> SUFFICES ASSUME Contained(program) PROVE FALSE
  OBVIOUS
<1>1. PICK S \in ClosedSets(program) : TRUE
  BY DEF Contained, ClosedSets, Defs
<1>2. Top.host \in S
  BY <1>1 DEF SearchInv, Frames, Reached, Top
<1> QED BY <1>1, <1>2 DEF ClosedSets, Closed

LEMMA LeakStep ==
  ASSUME GInv, status = "search", NEW c \in Top.todo, Leak(c)
  PROVE  GInv'
<1>1. /\ Len(stack) \in Nat /\ Len(stack) >= 2 /\ c \in OwnNodes(program, Top.host)
      /\ program.kind[c] # "handler" => (CancelAt(c) <=> InCancellation(program, Top.host, c))
  BY WalkTop
<1>2. /\ Leaks
      /\ \/ program.kind[c] = "raise" /\ ~CancelAt(c)
         \/ program.kind[c] = "try" /\ LeakyFinally(program, c)
  BY DEF Leak
<1>3. LetsOut(program, Top.host)
  BY <1>1, <1>2 DEF LetsOut
<1>4. \A k \in Nat : k >= 2 => k \in 2..k
  OBVIOUS
<1>5. ~Contained(program)
  BY <1>1, <1>3, <1>4, HostLeaks DEF GInv
<1> QED BY <1>2, <1>5, LeakFound

LEMMA GiveUpStep ==
  ASSUME GInv, status = "search", NEW r \in Top.refs, GiveUp(r)
  PROVE  GInv'
<1> DEFINE t == [Top EXCEPT !.refs = @ \ {r}]
<1>1. IF Len(stack) = 1
      THEN Top.host = SiteHost(program) /\ r \in program.refs[program.site]
      ELSE /\ Top.node \in FreeAwaits(program, Top.host)
           /\ r \in program.refs[Top.node] /\ Len(stack) \in 2..Len(stack)
  BY FollowTop
<1>2. \A f \in Resolve(program, r, Top.host) : memo[f] # "leaks"
  BY ResolvesToOne DEF GInv, SearchInv, Defs
<1>3. Leaks /\ ~Understood(program, r, Top.host)
  BY <1>2 DEF GiveUp
<1>4. ~Contained(program)
  <2>1. CASE Len(stack) = 1
    BY <1>1, <1>3, <2>1 DEF Contained
  <2>2. CASE Len(stack) # 1
    <3>1. LetsOut(program, Top.host)
      BY <1>1, <1>3, <2>2 DEF LetsOut
    <3> QED BY <1>1, <2>2, <3>1, HostLeaks DEF GInv
  <2> QED BY <2>1, <2>2
<1> QED BY <1>3, <1>4, LeakFound
-----------------------------------------------------------------------------
\* A call ends: its frame goes, and what func_contained concluded is kept.
LEMMA EndsStep ==
  ASSUME Types, EachFunctionOnce, Len(stack) >= 1,
         NEW answer \in {"contained", "leaks"}, NEW end \in {"contained", "reported"},
         Ends(answer, end)
  PROVE  /\ Types' /\ EachFunctionOnce' /\ program' = program /\ Len(stack) \in Nat
         /\ Len(stack') = Len(stack) - 1 /\ \A i \in 1..(Len(stack) - 1) : stack'[i] = stack[i]
         /\ Top.node \in Node
         /\ memo' = IF program.kind[Top.node] = "def" THEN [memo EXCEPT ![Top.node] = answer] ELSE memo
         /\ status' = IF Len(stack) = 1 THEN end ELSE status
<1>1. /\ program' = program /\ stack' = Rest
      /\ memo' = IF program.kind[Top.node] = "def" THEN [memo EXCEPT ![Top.node] = answer] ELSE memo
      /\ status' = IF Len(stack) = 1 THEN end ELSE status
  BY DEF Ends
<1>2. stack \in Seq(AnyFrame(program)) /\ memo \in [Node -> {"none", "contained", "leaks"}]
  BY DEF Types
<1>3. /\ stack' \in Seq(AnyFrame(program)) /\ Len(stack') = Len(stack) - 1
      /\ \A i \in 1..(Len(stack) - 1) : stack'[i] = stack[i]
  BY <1>1, <1>2, PopSeq DEF Rest
<1>4. Len(stack) \in Nat /\ \A i \in 1..Len(stack) : stack[i] \in AnyFrame(program)
  BY ProgramTypes
<1>5. Len(stack) \in 1..Len(stack) /\ \A i \in 1..(Len(stack) - 1) : i \in 1..Len(stack) /\ i # Len(stack)
  BY <1>4
<1>6. \A i \in 1..Len(stack) : stack[i].node \in Node
  BY <1>4 DEF AnyFrame
<1>7. Top.node \in Node
  BY <1>5, <1>6 DEF Top
<1>8. memo' \in [Node -> {"none", "contained", "leaks"}]
  BY <1>1, <1>2
<1>9. Types'
  BY <1>1, <1>3, <1>8 DEF Types
<1>10. \A i, j \in 1..(Len(stack) - 1) :
         i # j /\ program.kind[stack[i].node] = "def" => stack[i].node # stack[j].node
  BY <1>5 DEF EachFunctionOnce
<1>11. \A i \in 1..(Len(stack) - 1) : program.kind[stack[i].node] = "def" => memo'[stack[i].node] = "none"
  <2> SUFFICES ASSUME NEW i \in 1..(Len(stack) - 1), program.kind[stack[i].node] = "def"
               PROVE  memo'[stack[i].node] = "none"
    OBVIOUS
  <2>1. stack[i].node # Top.node /\ memo[stack[i].node] = "none" /\ stack[i].node \in Node
    BY <1>5, <1>6 DEF EachFunctionOnce, Top
  <2> QED BY <1>1, <1>2, <1>7, <2>1
<1>12. EachFunctionOnce'
  BY <1>1, <1>3, <1>10, <1>11 DEF EachFunctionOnce
<1> QED BY <1>1, <1>3, <1>4, <1>7, <1>9, <1>12

\* When the gather call itself returns, the memo is a closed set.
LEMMA MemoIsClosed ==
  ASSUME GInv, status = "search", Len(stack) = 1, Top.refs = {}
  PROVE  Contained(program)
<1> DEFINE S == Assumed
<1>1. /\ Types /\ Frames(program, stack) /\ Progress /\ SiteProgress
      /\ \A n \in Node : memo[n] = "contained" => program.kind[n] = "def"
  BY DEF GInv, SearchInv
<1>2. program.kind[stack[1].node] # "def"
  BY <1>1, ProgramTypes DEF Frames, SiteFrame
<1>3. S \subseteq Defs(program)
  BY <1>1 DEF Assumed, InProgress, Defs
<1>4. 2..Len(stack) = {}
  OBVIOUS
<1>5. \A f \in S : \A n \in OwnNodes(program, f) :
        /\ program.kind[n] = "raise" => InCancellation(program, f, n)
        /\ program.kind[n] = "try" => ~LeakyFinally(program, n)
        /\ n \in FreeAwaits(program, f) => \A r \in program.refs[n] : RefSettled(program, S, f, r)
  BY <1>1, <1>4 DEF Progress, Seen, Settled, Waiting, RefPending
<1>6. \A r \in program.refs[program.site] : RefSettled(program, S, SiteHost(program), r)
  BY <1>1 DEF SiteProgress, Top
<1> HIDE DEF S
<1>7. \A f \in S : ~LetsOut(program, f)
  BY <1>5 DEF LetsOut, FreeAwaits, RefSettled
<1>8. \A f \in S : \A n \in FreeAwaits(program, f) : Calls(program, program.refs[n], f) \subseteq S
  BY <1>5 DEF FreeAwaits, Calls, RefSettled
<1>9. Calls(program, program.refs[program.site], SiteHost(program)) \subseteq S
  BY <1>6 DEF Calls, RefSettled
<1>10. \A r \in program.refs[program.site] : Understood(program, r, SiteHost(program))
  BY <1>6 DEF RefSettled
<1> QED BY <1>3, <1>7, <1>8, <1>9, <1>10 DEF Contained, Closed, Defs

LEMMA ReturnStep ==
  ASSUME GInv, Return
  PROVE  GInv'
<1>1. status = "search" /\ Top.todo = {} /\ Top.refs = {} /\ Ends("contained", "contained")
  BY DEF Return, Searching
<1>2. /\ Types /\ Frames(program, stack) /\ Progress /\ SiteProgress /\ EachFunctionOnce
      /\ \A n \in Node : memo[n] # "leaks"
      /\ \A n \in Node : memo[n] = "contained" => program.kind[n] = "def"
      /\ Len(stack) >= 1 /\ memo \in [Node -> {"none", "contained", "leaks"}]
  BY <1>1 DEF GInv, SearchInv, Frames, Types
<1>3. /\ Types' /\ EachFunctionOnce' /\ program' = program /\ Len(stack) \in Nat
      /\ Len(stack') = Len(stack) - 1 /\ \A i \in 1..(Len(stack) - 1) : stack'[i] = stack[i]
      /\ Top.node \in Node
      /\ memo' = IF program.kind[Top.node] = "def" THEN [memo EXCEPT ![Top.node] = "contained"] ELSE memo
      /\ status' = IF Len(stack) = 1 THEN "contained" ELSE status
  BY <1>1, <1>2, EndsStep
<1>4. /\ \A n \in Node : memo'[n] # "leaks"
      /\ \A n \in Node : memo'[n] = "contained" => program.kind[n] = "def"
  BY <1>2, <1>3
<1>5. CASE Len(stack) = 1
  <2>1. Contained(program) /\ status' = "contained"
    BY <1>1, <1>3, <1>5, MemoIsClosed
  <2> QED BY <1>3, <1>4, <2>1 DEF GInv, Verdict
<1>6. CASE Len(stack) # 1
  <2>1. status' = "search"
    BY <1>1, <1>3, <1>6
  <2>2. Assumed' = Assumed
    <3>1. \A i \in 1..Len(stack) : i = Len(stack) \/ i \in 1..(Len(stack) - 1)
      BY <1>3
    <3>2. Len(stack) \in 1..Len(stack) /\ \A i \in 1..(Len(stack) - 1) : i \in 1..Len(stack)
      BY <1>2, <1>3
    <3>3. InProgress' \subseteq InProgress
      BY <1>3, <3>2 DEF InProgress
    <3>4. InProgress \subseteq InProgress' \cup ({Top.node} \cap Defs(program))
      BY <1>3, <3>1 DEF InProgress, Top, Defs
    <3>5. program.kind[Top.node] = "def" => Top.node \in InProgress /\ memo'[Top.node] = "contained"
      BY <1>2, <1>3, <3>2 DEF InProgress, Top
    <3>6. \A n \in Node : n # Top.node => memo'[n] = memo[n]
      BY <1>2, <1>3
    <3>7. program.kind[Top.node] # "def" => memo' = memo
      BY <1>3
    <3> QED BY <1>3, <3>3, <3>4, <3>5, <3>6, <3>7 DEF Assumed, Defs
  <2>3. Progress'
    <3> SUFFICES ASSUME NEW f \in Assumed, NEW n \in OwnNodes(program, f)
                 PROVE  Seen(program, Assumed, stack', f, n)
      BY <1>3, <2>2 DEF Progress
    <3>1. Seen(program, Assumed, stack, f, n)
      BY <1>2 DEF Progress
    <3> QED BY <1>1, <1>2, <1>3, <3>1, KeptByPop DEF Top
  <2>4. \A k \in Nat : k >= 1 /\ k # 1 => k - 1 >= 1 /\ 1 \in 1..(k - 1)
    OBVIOUS
  <2>5. stack'[1] = stack[1] /\ Len(stack') >= 1
    BY <1>2, <1>3, <1>6, <2>4
  <2>6. SiteProgress'
    BY <1>2, <1>3, <2>2, <2>5 DEF SiteProgress
  <2>7. Frames(program, stack')
    <3>1. \A i \in 2..Len(stack') : i \in 2..Len(stack) /\ \A j \in 2..i : stack'[j] = stack[j]
      BY <1>3
    <3>2. \A i \in 2..Len(stack') : stack'[i] = stack[i]
      BY <1>3
    <3>3. \A i \in 2..Len(stack') : InsideFrame(program, stack'[i])
      BY <1>2, <3>1, <3>2 DEF Frames
    <3>4. \A i \in 2..Len(stack') : \E j \in 2..i : stack'[j].node = stack'[i].host
      BY <1>2, <3>1, <3>2 DEF Frames
    <3>5. Reached(program, stack')
      BY <1>2, <3>1, <3>2 DEF Frames, Reached
    <3> QED BY <1>2, <2>5, <3>3, <3>4, <3>5 DEF Frames
  <2>8. SearchInv'
    BY <1>3, <1>4, <2>3, <2>6, <2>7 DEF SearchInv
  <2> QED BY <1>3, <1>4, <2>1, <2>8 DEF GInv, Verdict
<1> QED BY <1>5, <1>6

LEMMA UnwindStep ==
  ASSUME GInv, Unwind
  PROVE  GInv'
<1>1. status = "unwind" /\ Ends("leaks", "reported")
  BY DEF Unwind
<1>2. /\ Types /\ EachFunctionOnce /\ ~Contained(program) /\ Len(stack) >= 1
      /\ \A n \in Node : memo[n] = "contained" => program.kind[n] = "def"
      /\ memo \in [Node -> {"none", "contained", "leaks"}]
  BY <1>1 DEF GInv, Verdict, Types
<1>3. /\ Types' /\ EachFunctionOnce' /\ program' = program /\ Len(stack) \in Nat
      /\ Len(stack') = Len(stack) - 1 /\ Top.node \in Node
      /\ memo' = IF program.kind[Top.node] = "def" THEN [memo EXCEPT ![Top.node] = "leaks"] ELSE memo
      /\ status' = IF Len(stack) = 1 THEN "reported" ELSE status
  BY <1>1, <1>2, EndsStep
<1>4. \A n \in Node : memo'[n] = "contained" => program.kind[n] = "def"
  BY <1>2, <1>3
<1>5. CASE Len(stack) = 1
  <2>1. status' = "reported"
    BY <1>3, <1>5
  <2> QED BY <1>2, <1>3, <1>4, <2>1 DEF GInv, Verdict
<1>6. CASE Len(stack) # 1
  <2>1. status' = "unwind"
    BY <1>1, <1>3, <1>6
  <2>2. \A k \in Nat : k >= 1 /\ k # 1 => k - 1 >= 1
    OBVIOUS
  <2>3. Len(stack') >= 1
    BY <1>2, <1>3, <1>6, <2>2
  <2> QED BY <1>2, <1>3, <1>4, <2>1, <2>3 DEF GInv, Verdict
<1> QED BY <1>5, <1>6

-----------------------------------------------------------------------------
LEMMA StepGather == GInv /\ [Next]_vars => GInv'
<1> SUFFICES ASSUME GInv, [Next]_vars PROVE GInv'
  OBVIOUS
<1>1. CASE Walk
  <2>1. PICK c \in Top.todo : Skip(c) \/ Leak(c) \/ Enter(c)
    BY <1>1 DEF Walk
  <2> QED BY <1>1, <2>1, SkipStep, LeakStep, EnterStep DEF Walk, Searching
<1>2. CASE FollowRef
  <2>1. PICK r \in Top.refs : GiveUp(r) \/ Known(r) \/ Analyze(r)
    BY <1>2 DEF FollowRef
  <2> QED BY <1>2, <2>1, GiveUpStep, KnownStep, AnalyzeStep DEF FollowRef, Searching
<1>3. CASE UNCHANGED vars
  BY <1>3 DEF vars, GInv, Types, EachFunctionOnce, Verdict, SearchInv, Frames, Progress, SiteProgress,
              Assumed, InProgress
<1> QED BY <1>1, <1>2, <1>3, ReturnStep, UnwindStep DEF Next

\* The search reports the gather call exactly when a function that can be reached from
\* it lets an exception out (is_contained): what is concluded while a function is still
\* assumed to be contained, and kept in the memo, is never wrong in the end.
THEOREM AnswerIsTheFixedPoint == Spec => []VerdictIsExact
<1>1. GInv => VerdictIsExact
  BY DEF GInv, Verdict, VerdictIsExact
<1> QED BY InitGather, StepGather, <1>1, PTL DEF Spec

\* func_contained is never begun for a function that is being analysed, nor after it
\* has been: recursion ends, and the work is bounded by the size of the module.
THEOREM NoFunctionTwice == Spec => []EachFunctionOnce
<1>1. GInv => EachFunctionOnce
  BY DEF GInv
<1> QED BY InitGather, StepGather, <1>1, PTL DEF Spec

-----------------------------------------------------------------------------
(***************************************************************************)
(* The function a gather call is in.                                       *)
(***************************************************************************)

\* The least-number principle, from the well-foundedness of < on Nat.
LEMMA LeastElement ==
  ASSUME NEW S \in SUBSET Nat, S # {}
  PROVE  \E x \in S : \A y \in S : x <= y
<1>1. PICK x \in S : \A y \in S : <<y, x>> \notin OpToRel(<, Nat)
  BY NatLessThanWellFounded, WFMin
<1>2. \A y \in S : ~(y < x)
  BY <1>1 DEF OpToRel
<1> QED BY <1>2

Depth(p, n) == Cardinality(p.above[n])

LEMMA Depths ==
  ASSUME NEW p \in Program, WellFormed(p), NEW n \in Node, NEW m \in Node
  PROVE  /\ Depth(p, n) \in Nat
         /\ p.above[m] \subseteq p.above[n] /\ p.above[m] # p.above[n] => Depth(p, m) < Depth(p, n)
<1>1. IsFiniteSet(p.above[n]) /\ IsFiniteSet(p.above[m])
  <2>1. p.above[n] \subseteq Node /\ p.above[m] \subseteq Node
    BY TreeOrder
  <2> QED BY <2>1, ProgramAssumption, FS_Subset
<1>2. Depth(p, n) \in Nat /\ Depth(p, m) \in Nat
  BY <1>1, FS_CardinalityType DEF Depth
<1>3. ASSUME p.above[m] \subseteq p.above[n], p.above[m] # p.above[n]
      PROVE  Depth(p, m) < Depth(p, n)
  <2>1. Cardinality(p.above[m]) <= Cardinality(p.above[n])
    BY <1>1, <1>3, FS_Subset
  <2>2. Cardinality(p.above[m]) # Cardinality(p.above[n])
    BY <1>1, <1>3, FS_Subset
  <2> QED BY <1>2, <2>1, <2>2 DEF Depth
<1> QED BY <1>2, <1>3

\* What encloses a node is a chain.
LEMMA EnclosingChain ==
  ASSUME NEW p \in Program, WellFormed(p), NEW n \in Node, NEW a \in p.above[n], NEW b \in p.above[n]
  PROVE  a \in p.above[b] \/ b \in p.above[a]
<1> DEFINE X == {x \in p.above[n] : a \in p.above[x] /\ b \in p.above[x]}
           D == {Depth(p, x) : x \in X}
<1>1. n \in X /\ X \subseteq Node
  BY TreeOrder
<1>2. D \in SUBSET Nat /\ D # {}
  BY <1>1, Depths
<1>3. PICK x \in X : \A y \in X : Depth(p, x) <= Depth(p, y)
  <2>1. PICK d \in D : \A e \in D : d <= e
    BY <1>2, LeastElement
  <2> QED BY <2>1
<1>4. CASE x = a \/ x = b
  BY <1>4
<1>5. CASE x # a /\ x # b /\ x = p.root
  BY <1>5 DEF WellFormed
<1>6. CASE x # a /\ x # b /\ x # p.root
  <2>1. x \in Node /\ p.parent[x] \in Node
    BY <1>1 DEF Program
  <2>2. p.above[x] = {x} \cup p.above[p.parent[x]] /\ x \notin p.above[p.parent[x]]
    BY <1>6, <2>1 DEF WellFormed
  <2>3. p.parent[x] \in p.above[p.parent[x]] /\ p.above[x] \subseteq p.above[n]
    BY <2>1, TreeOrder
  <2>4. p.parent[x] \in X
    BY <1>6, <2>2, <2>3
  <2>5. Depth(p, p.parent[x]) < Depth(p, x)
    BY <2>1, <2>2, Depths
  <2>6. Depth(p, x) \in Nat /\ Depth(p, p.parent[x]) \in Nat
    BY <2>1, Depths
  <2> QED BY <1>3, <2>4, <2>5, <2>6
<1> QED BY <1>4, <1>5, <1>6

\* Any of the nodes around a node are around the innermost of them.
LEMMA InnermostIsOne ==
  ASSUME NEW p \in Program, WellFormed(p), NEW n \in Node,
         NEW S, S \subseteq p.above[n], S # {}
  PROVE  Innermost(p, S) \in S /\ S \subseteq p.above[Innermost(p, S)]
<1>1. S \subseteq Node
  BY TreeOrder
<1> DEFINE Gap(x) == Cardinality(p.above[n] \ p.above[x])
           G == {Gap(x) : x \in S}
<1>2. \A x \in S : Gap(x) \in Nat /\ IsFiniteSet(p.above[n] \ p.above[x])
  <2>1. IsFiniteSet(p.above[n])
    BY TreeOrder, ProgramAssumption, FS_Subset
  <2> QED BY <2>1, FS_Subset, FS_CardinalityType
<1>3. PICK x \in S : \A y \in S : Gap(x) <= Gap(y)
  <2>1. G \in SUBSET Nat /\ G # {}
    BY <1>2
  <2>2. PICK d \in G : \A e \in G : d <= e
    BY <2>1, LeastElement
  <2> QED BY <2>2
<1>4. ASSUME NEW y \in S PROVE y \in p.above[x]
  <2>1. CASE y \in p.above[x]
    BY <2>1
  <2>2. CASE x \in p.above[y] /\ x # y
    <3>1. p.above[x] \subseteq p.above[y] /\ y \in p.above[y] /\ y \notin p.above[x] /\ y \in p.above[n]
      BY <1>1, <2>2, TreeOrder
    <3> DEFINE A == p.above[n] \ p.above[y]
               B == p.above[n] \ p.above[x]
    <3>2. A \subseteq B /\ A # B
      BY <3>1
    <3>3. Cardinality(A) <= Cardinality(B) /\ Cardinality(A) # Cardinality(B)
      BY <1>2, <3>2, FS_Subset
    <3>4. Gap(y) <= Gap(x) /\ Gap(y) # Gap(x)
      BY <3>3
    <3>5. Gap(x) \in Nat /\ Gap(y) \in Nat /\ Gap(x) <= Gap(y)
      BY <1>2, <1>3
    <3> HIDE DEF Gap
    <3>6. FALSE
      BY <3>4, <3>5
    <3> QED BY <3>6
  <2>3. y \in p.above[x] \/ x \in p.above[y]
    BY EnclosingChain
  <2>4. x = y => y \in p.above[x]
    BY <1>1, TreeOrder
  <2> QED BY <2>1, <2>2, <2>3, <2>4
<1>5. \E y \in S : S \subseteq p.above[y]
  BY <1>4
<1> QED BY <1>5 DEF Innermost

\* A call at module level is the module's.
LEMMA SiteHostIsANode ==
  ASSUME NEW p \in Program, WellFormed(p)
  PROVE  SiteHost(p) \in Node
<1>1. p.site \in Node /\ p.root \in Node /\ FuncStack(p) \subseteq p.above[p.site]
  BY DEF Program, FuncStack
<1>2. p.above[p.site] \subseteq Node
  BY <1>1, TreeOrder
<1> QED BY <1>1, <1>2, InnermostIsOne DEF SiteHost

\* Every call on the stack is of walk or of one of the *_contained functions, with a
\* function of the module, or the module, as its host.
THEOREM ContainmentTypes == Spec => []TypeOK
<1>1. GInv => TypeOK
  <2> SUFFICES ASSUME GInv PROVE TypeOK
    OBVIOUS
  <2>1. program \in Program /\ WellFormed(program)
    BY ProgramAssumption DEF GInv, Types
  <2>2. AnyFrame(program) = Frame
    BY <2>1, SiteHostIsANode DEF AnyFrame, Frame
  <2> QED BY <2>1, <2>2 DEF GInv, Types, TypeOK
<1> QED BY InitGather, StepGather, <1>1, PTL DEF Spec
=============================================================================
