------------------------- MODULE FileSelectionProofs -------------------------
(***************************************************************************)
(* For any tree with any links, any editor and any commands: a command     *)
(* that comes to its end has looked at exactly the files it is asked for,  *)
(* the three copies of the selection agree, and a scan of a tree that has  *)
(* not changed since its baseline was created, named alike, reports        *)
(* nothing but what it alone was asked for.                                *)
(***************************************************************************)
EXTENDS FileSelection, SequenceTheorems, WellFoundedInduction, TLAPS

\* The least-number principle, from the well-foundedness of < on Nat.
LEMMA LeastElement ==
  ASSUME NEW T \in SUBSET Nat, T # {}
  PROVE  \E m \in T : \A k \in T : m <= k
<1>1. PICK m \in T : \A k \in T : <<k, m>> \notin OpToRel(<, Nat)
  BY NatLessThanWellFounded, WFMin
<1>2. \A k \in T : ~ (k < m)
  BY <1>1 DEF OpToRel
<1> QED BY <1>2

-----------------------------------------------------------------------------
(***************************************************************************)
(* Paths                                                                   *)
(***************************************************************************)
LEMMA FrontFacts ==
  ASSUME NEW p \in Path, p # <<>>
  PROVE  /\ Len(p) \in Nat \ {0} /\ Front(p) \in Path /\ Len(Front(p)) = Len(p) - 1
         /\ \A j \in 1..(Len(p) - 1) : Front(p)[j] = p[j]
         /\ Last(p) = p[Len(p)] /\ Last(p) \in Name /\ p = Append(Front(p), Last(p))
<1>1. Len(p) \in Nat \ {0} /\ \A j \in 1..Len(p) : p[j] \in Name
  BY EmptySeq, ElementOfSeq DEF Path
<1> DEFINE k == Len(p) - 1
<1>2. k \in Nat /\ \A j \in 1..k : p[j] \in Name
  BY <1>1
<1>3. Front(p) = SubSeq(p, 1, k)
  BY DEF Front
<1> HIDE DEF k
<1>4. Front(p) \in Seq(Name) /\ Len(Front(p)) = k /\ \A j \in 1..k : Front(p)[j] = p[j]
  BY <1>2, <1>3, SubSeqProperties
<1>5. Last(p) = p[Len(p)] /\ Last(p) \in Name
  BY <1>1 DEF Last
<1>6. p = Append(Front(p), Last(p))
  <2> DEFINE a == Append(Front(p), Last(p))
  <2>1. /\ a \in Seq(Name) /\ Len(a) = k + 1 /\ a[k + 1] = Last(p)
        /\ \A j \in 1..k : a[j] = Front(p)[j]
    BY <1>4, <1>5, AppendProperties
  <2>2. k + 1 = Len(p)
    BY <1>1 DEF k
  <2> HIDE DEF a
  <2>3. \A j \in 1..Len(p) : p[j] = a[j]
    BY <1>2, <1>4, <1>5, <2>1, <2>2
  <2>4. p = a
    BY <2>1, <2>2, <2>3, SeqEqual DEF Path
  <2> QED BY <2>4 DEF a
<1> QED BY <1>1, <1>4, <1>5, <1>6 DEF k, Path

LEMMA AppendFacts ==
  ASSUME NEW p \in Path, NEW n \in Name
  PROVE  /\ Append(p, n) \in Path \ {<<>>} /\ Len(Append(p, n)) = Len(p) + 1 /\ Len(p) \in Nat
         /\ Append(p, n)[Len(p) + 1] = n /\ \A j \in 1..Len(p) : Append(p, n)[j] = p[j]
         /\ Front(Append(p, n)) = p /\ Last(Append(p, n)) = n
<1> DEFINE a == Append(p, n)
<1>1. /\ a \in Path \ {<<>>} /\ Len(a) = Len(p) + 1 /\ Len(p) \in Nat
      /\ a[Len(p) + 1] = n /\ \A j \in 1..Len(p) : a[j] = p[j]
  <2>1. p \in Seq(Name)
    BY DEF Path
  <2>2. /\ a \in Seq(Name) /\ a # <<>> /\ Len(a) = Len(p) + 1 /\ a[Len(p) + 1] = n
        /\ \A j \in 1..Len(p) : a[j] = p[j]
    BY <2>1, AppendProperties
  <2> QED BY <2>1, <2>2, LenProperties DEF Path
<1> HIDE DEF a
<1>2. /\ Front(a) \in Path /\ Len(Front(a)) = Len(p) /\ \A j \in 1..Len(p) : Front(a)[j] = a[j]
      /\ Last(a) = n
  <2>1. /\ Front(a) \in Path /\ Len(Front(a)) = Len(a) - 1
        /\ \A j \in 1..(Len(a) - 1) : Front(a)[j] = a[j]
        /\ Last(a) = a[Len(a)]
    BY <1>1, FrontFacts
  <2>2. Len(a) - 1 = Len(p)
    BY <1>1
  <2> QED BY <1>1, <2>1, <2>2
<1>3. Front(a) = p
  BY <1>1, <1>2, SeqEqual DEF Path
<1> QED BY <1>1, <1>2, <1>3 DEF a

\* A prefix, element by element.
LEMMA PrefixMeans ==
  ASSUME NEW q \in Path, NEW p \in Path
  PROVE  /\ IsPrefix(q, p) <=> Len(q) <= Len(p) /\ \A j \in 1..Len(q) : q[j] = p[j]
         /\ IsStrictPrefix(q, p) <=> IsPrefix(q, p) /\ Len(q) < Len(p)
         /\ Len(q) \in Nat /\ Len(p) \in Nat
<1>1. /\ Len(q) \in Nat /\ Len(p) \in Nat
      /\ \A j \in 1..Len(q) : q[j] \in Name
      /\ \A j \in 1..Len(p) : p[j] \in Name
  BY LenProperties, ElementOfSeq DEF Path
<1>2. ASSUME Len(q) <= Len(p)
      PROVE  SubSeq(q, 1, Len(q)) = SubSeq(p, 1, Len(q)) <=> \A j \in 1..Len(q) : q[j] = p[j]
  <2> DEFINE k == Len(q)
             s == SubSeq(p, 1, k)
  <2>1. \A j \in 1..k : p[j] \in Name
    BY <1>1, <1>2
  <2>2. SubSeq(q, 1, k) = q
    BY SubSeqFull DEF Path
  <2>3. k \in Nat
    BY <1>1
  <2>4. Len(q) = k
    OBVIOUS
  <2> HIDE DEF k
  <2>5. s \in Seq(Name) /\ Len(s) = k /\ \A j \in 1..k : s[j] = p[j]
    BY <2>1, <2>3, SubSeqProperties
  <2> HIDE DEF s
  <2>6. q = s <=> \A j \in 1..k : q[j] = p[j]
    BY <2>4, <2>5, SeqEqual DEF Path
  <2> QED BY <2>2, <2>6 DEF k, s
<1>3. IsPrefix(q, p) <=> Len(q) <= Len(p) /\ \A j \in 1..Len(q) : q[j] = p[j]
  BY <1>2 DEF IsPrefix
<1>4. IsStrictPrefix(q, p) <=> IsPrefix(q, p) /\ Len(q) < Len(p)
  <2>1. ASSUME IsPrefix(q, p), Len(q) = Len(p) PROVE q = p
    BY <1>1, <1>3, <2>1, SeqEqual DEF Path
  <2> QED BY <1>1, <1>3, <2>1 DEF IsStrictPrefix
<1> QED BY <1>1, <1>3, <1>4

-----------------------------------------------------------------------------
(***************************************************************************)
(* The file system                                                         *)
(***************************************************************************)
Place == [at : Path, hops : Nat]
Begun == [at |-> <<>>, hops |-> 0]

\* One component of a path, followed from the place w.
Followed(links, w, n) ==
  IF Append(w.at, n) \in DOMAIN links
    THEN [at |-> links[Append(w.at, n)], hops |-> w.hops + 1]
    ELSE [w EXCEPT !.at = Append(w.at, n)]

\* g holds the places on the way along the first i components of p.
Way(links, p, i, g) ==
  g = [j \in 0..i |-> IF j = 0 THEN Begun ELSE Followed(links, g[j - 1], p[j])]

LEMMA FollowedType ==
  ASSUME NEW links, \A l \in DOMAIN links : links[l] \in Path, NEW w \in Place, NEW n \in Name
  PROVE  Followed(links, w, n) \in Place
<1>1. w.at \in Path /\ w.hops \in Nat /\ Append(w.at, n) \in Path
  BY AppendFacts DEF Place
<1>2. CASE Append(w.at, n) \in DOMAIN links
  BY <1>1, <1>2 DEF Followed, Place
<1>3. CASE Append(w.at, n) \notin DOMAIN links
  <2>1. \A v \in Place : \A a : [v EXCEPT !.at = a] = [at |-> a, hops |-> v.hops]
    BY DEF Place
  <2>2. Followed(links, w, n) = [at |-> Append(w.at, n), hops |-> w.hops]
    BY <1>3, <2>1 DEF Followed
  <2> QED BY <1>1, <2>2 DEF Place
<1> QED BY <1>2, <1>3

\* There is a way along every path: of the lengths for which there is none, the
\* least would have one.
LEMMA WayExists ==
  ASSUME NEW links, NEW p \in Path, NEW i \in 0..Len(p)
  PROVE  \E g : Way(links, p, i, g)
<1> DEFINE T == {k \in 0..Len(p) : ~ \E g : Way(links, p, k, g)}
<1>1. Len(p) \in Nat
  BY LenProperties DEF Path
<1> SUFFICES ASSUME T # {} PROVE FALSE
  OBVIOUS
<1>2. T \in SUBSET Nat
  BY <1>1
<1> HIDE DEF T
<1>3. PICK m \in T : \A k \in T : m <= k
  BY <1>2, LeastElement
<1>4. m \in 0..Len(p) /\ ~ \E g : Way(links, p, m, g)
  BY <1>3 DEF T
<1>5. CASE m = 0
  <2> DEFINE g == [j \in 0..0 |-> Begun]
  <2>1. Way(links, p, 0, g)
    BY DEF Way
  <2> QED BY <1>4, <1>5, <2>1
<1>6. CASE m # 0
  <2>1. m - 1 \in 0..Len(p) /\ m - 1 \notin T /\ m \in Nat
    BY <1>1, <1>3, <1>4, <1>6 DEF T
  <2>2. PICK h : Way(links, p, m - 1, h)
    BY <2>1 DEF T
  <2> DEFINE g == [j \in 0..m |-> IF j = m THEN Followed(links, h[m - 1], p[m]) ELSE h[j]]
  <2>3. h = [j \in 0..(m - 1) |-> IF j = 0 THEN Begun ELSE Followed(links, h[j - 1], p[j])]
    BY <2>2 DEF Way
  <2>4. \A j \in 0..(m - 1) : h[j] = IF j = 0 THEN Begun ELSE Followed(links, h[j - 1], p[j])
    BY <2>3
  <2>5. \A j \in 0..m : g[j] = IF j = 0 THEN Begun ELSE Followed(links, g[j - 1], p[j])
    <3> SUFFICES ASSUME NEW j \in 0..m
                 PROVE  g[j] = IF j = 0 THEN Begun ELSE Followed(links, g[j - 1], p[j])
      OBVIOUS
    <3>1. j # 0 => g[j - 1] = h[j - 1]
      BY <2>1
    <3> HIDE DEF g
    <3>2. g[j] = IF j = m THEN Followed(links, h[m - 1], p[m]) ELSE h[j]
      BY DEF g
    <3> QED BY <1>6, <2>1, <2>4, <3>1, <3>2
  <2>6. g = [j \in 0..m |-> g[j]]
    OBVIOUS
  <2> HIDE DEF g
  <2>7. Way(links, p, m, g)
    BY <2>5, <2>6 DEF Way
  <2> QED BY <1>4, <2>7
<1> QED BY <1>5, <1>6

\* A place on the way depends on the components before it only.
LEMMA WayIsOne ==
  ASSUME NEW links, NEW p, NEW q, NEW i \in Nat, NEW k \in Nat, k <= i,
         \A j \in 1..k : q[j] = p[j],
         NEW g, Way(links, p, i, g), NEW h, Way(links, q, k, h)
  PROVE  \A j \in 0..k : g[j] = h[j]
<1> DEFINE T == {j \in 0..k : g[j] # h[j]}
<1> SUFFICES ASSUME T # {} PROVE FALSE
  OBVIOUS
<1>1. T \in SUBSET Nat
  OBVIOUS
<1> HIDE DEF T
<1>2. PICK m \in T : \A j \in T : m <= j
  BY <1>1, LeastElement
<1>3. m \in 0..k /\ g[m] # h[m]
  BY <1>2 DEF T
<1>4. m # 0 => m - 1 \in 0..k /\ g[m - 1] = h[m - 1] /\ q[m] = p[m]
  BY <1>2, <1>3 DEF T
<1>5. g[m] = IF m = 0 THEN Begun ELSE Followed(links, g[m - 1], p[m])
  <2>1. g = [j \in 0..i |-> IF j = 0 THEN Begun ELSE Followed(links, g[j - 1], p[j])]
    BY DEF Way
  <2> QED BY <1>3, <2>1
<1>6. h[m] = IF m = 0 THEN Begun ELSE Followed(links, h[m - 1], q[m])
  <2>1. h = [j \in 0..k |-> IF j = 0 THEN Begun ELSE Followed(links, h[j - 1], q[j])]
    BY DEF Way
  <2> QED BY <1>3, <2>1
<1> QED BY <1>3, <1>4, <1>5, <1>6

LEMMA LocateIsWay ==
  ASSUME NEW links, NEW p \in Path
  PROVE  \E g : Way(links, p, Len(p), g) /\ Locate(links, p) = g[Len(p)]
<1> DEFINE g == CHOOSE f : Way(links, p, Len(p), f)
<1>1. Len(p) \in 0..Len(p)
  BY LenProperties DEF Path
<1>2. Way(links, p, Len(p), g)
  BY <1>1, WayExists
<1>3. Locate(links, p) = g[Len(p)]
  BY DEF Locate, Way, Followed, Begun
<1> QED BY <1>2, <1>3

\* Where a path leads, from where the path without its last component does.
LEMMA LocateFacts ==
  ASSUME NEW links
  PROVE  /\ Locate(links, <<>>) = Begun
         /\ \A p \in Path \ {<<>>} : Locate(links, p) = Followed(links, Locate(links, Front(p)), Last(p))
<1>1. Locate(links, <<>>) = Begun
  <2>1. <<>> \in Path /\ Len(<<>>) = 0
    BY EmptySeq DEF Path
  <2>2. PICK g : Way(links, <<>>, 0, g) /\ Locate(links, <<>>) = g[0]
    BY <2>1, LocateIsWay
  <2>3. g = [j \in 0..0 |-> IF j = 0 THEN Begun ELSE Followed(links, g[j - 1], <<>>[j])]
    BY <2>2 DEF Way
  <2> QED BY <2>2, <2>3
<1>2. ASSUME NEW p \in Path \ {<<>>}
      PROVE  Locate(links, p) = Followed(links, Locate(links, Front(p)), Last(p))
  <2> DEFINE k == Len(p) - 1
  <2>1. /\ Len(p) \in Nat \ {0} /\ Front(p) \in Path /\ Len(Front(p)) = k /\ k \in Nat
        /\ k <= Len(p) /\ \A j \in 1..k : Front(p)[j] = p[j]
    BY FrontFacts
  <2>2. Last(p) = p[Len(p)]
    BY FrontFacts
  <2>3. PICK g : Way(links, p, Len(p), g) /\ Locate(links, p) = g[Len(p)]
    BY LocateIsWay
  <2>4. PICK h : Way(links, Front(p), k, h) /\ Locate(links, Front(p)) = h[k]
    BY <2>1, LocateIsWay
  <2>5. g[k] = h[k]
    BY <2>1, <2>3, <2>4, WayIsOne
  <2>6. g[Len(p)] = Followed(links, g[k], p[Len(p)])
    <3>1. g = [j \in 0..Len(p) |-> IF j = 0 THEN Begun ELSE Followed(links, g[j - 1], p[j])]
      BY <2>3 DEF Way
    <3> QED BY <2>1, <3>1
  <2> QED BY <2>2, <2>3, <2>4, <2>5, <2>6
<1> QED BY <1>1, <1>2

\* A set with the empty path, and with each path whose parent it has, has all of them.
LEMMA PathInduction ==
  ASSUME NEW S, <<>> \in S, \A p \in Path \ {<<>>} : Front(p) \in S => p \in S
  PROVE  Path \subseteq S
<1> DEFINE T == {k \in Nat : \E p \in Path \ S : Len(p) = k}
<1> SUFFICES ASSUME NEW q \in Path \ S PROVE FALSE
  OBVIOUS
<1>1. Len(q) \in T
  BY LenProperties DEF Path
<1>2. T \in SUBSET Nat /\ T # {}
  BY <1>1
<1>3. \A p \in Path \ S : Len(p) \in T
  BY LenProperties DEF Path
<1>4. \A k \in T : \E p \in Path \ S : Len(p) = k
  OBVIOUS
<1> HIDE DEF T
<1>5. PICK m \in T : \A k \in T : m <= k
  BY <1>2, LeastElement
<1>6. PICK p \in Path \ S : Len(p) = m
  BY <1>4
<1>7. p # <<>> /\ Front(p) \notin S
  BY <1>6
<1>8. Front(p) \in Path /\ Len(Front(p)) = m - 1 /\ m \in Nat \ {0}
  BY <1>6, <1>7, FrontFacts
<1>9. Len(Front(p)) \in T
  BY <1>3, <1>7, <1>8
<1> QED BY <1>5, <1>8, <1>9

LEMMA LocateType ==
  ASSUME NEW links, \A l \in DOMAIN links : links[l] \in Path
  PROVE  \A p \in Path : Locate(links, p) \in Place
<1> DEFINE S == {p \in Path : Locate(links, p) \in Place}
<1>1. <<>> \in S
  <2>1. <<>> \in Path
    BY EmptySeq DEF Path
  <2>2. Begun \in Place
    BY <2>1 DEF Place, Begun
  <2> QED BY <2>1, <2>2, LocateFacts
<1>2. ASSUME NEW p \in Path \ {<<>>}, Front(p) \in S PROVE p \in S
  <2> DEFINE w == Locate(links, Front(p))
  <2>1. w \in Place /\ Last(p) \in Name
    BY <1>2, FrontFacts
  <2>2. Locate(links, p) = Followed(links, w, Last(p))
    BY LocateFacts
  <2> HIDE DEF w
  <2>3. Followed(links, w, Last(p)) \in Place
    BY <2>1, FollowedType
  <2> QED BY <2>2, <2>3
<1> HIDE DEF S
<1>3. Path \subseteq S
  BY <1>1, <1>2, PathInduction
<1> QED BY <1>3 DEF S

-----------------------------------------------------------------------------
(***************************************************************************)
(* A tree                                                                  *)
(***************************************************************************)
Nodes == tree.dirs \cup DOMAIN tree.files \cup DOMAIN tree.links

LEMMA TreeFacts ==
  ASSUME IsTree(tree)
  PROVE  /\ Nodes \subseteq Path /\ \A l \in DOMAIN tree.links : tree.links[l] \in Path
         /\ \A q \in Nodes : q # <<>> => Front(q) \in tree.dirs
         /\ tree.dirs \cap DOMAIN tree.files = {}
         /\ DOMAIN tree.links \cap (tree.dirs \cup DOMAIN tree.files) = {}
BY DEF IsTree, Nodes

LEMMA RealType ==
  ASSUME IsTree(tree), NEW p \in Path
  PROVE  Locate(tree.links, p) \in Place /\ Real(p) \in Path
BY TreeFacts, LocateType DEF Real, Place

\* The path of a directory or of a file leads there, over no link.
LEMMA RealOfNode ==
  ASSUME IsTree(tree)
  PROVE  \A f \in tree.dirs \cup DOMAIN tree.files : Real(f) = f /\ Locate(tree.links, f).hops = 0
<1> DEFINE S == {p \in Path : p \in tree.dirs \cup DOMAIN tree.files
                                => Locate(tree.links, p) = [at |-> p, hops |-> 0]}
<1>1. <<>> \in S
  BY LocateFacts, EmptySeq DEF Path, Begun
<1>2. ASSUME NEW p \in Path \ {<<>>}, Front(p) \in S PROVE p \in S
  <2> SUFFICES ASSUME p \in tree.dirs \cup DOMAIN tree.files
               PROVE  Locate(tree.links, p) = [at |-> p, hops |-> 0]
    OBVIOUS
  <2>1. Front(p) \in tree.dirs /\ p \notin DOMAIN tree.links
    BY TreeFacts DEF Nodes
  <2> DEFINE w == Locate(tree.links, Front(p))
  <2>2. w = [at |-> Front(p), hops |-> 0]
    BY <1>2, <2>1
  <2>3. Append(w.at, Last(p)) = p
    BY <2>2, FrontFacts
  <2>4. Locate(tree.links, p) = Followed(tree.links, w, Last(p))
    BY LocateFacts
  <2> HIDE DEF w
  <2>5. Followed(tree.links, w, Last(p)) = [w EXCEPT !.at = p]
    BY <2>1, <2>3 DEF Followed
  <2> QED BY <2>2, <2>4, <2>5
<1> HIDE DEF S
<1>3. Path \subseteq S
  BY <1>1, <1>2, PathInduction
<1> SUFFICES ASSUME NEW f \in tree.dirs \cup DOMAIN tree.files
             PROVE  Real(f) = f /\ Locate(tree.links, f).hops = 0
  OBVIOUS
<1>4. f \in S
  BY <1>3, TreeFacts DEF Nodes
<1>5. Locate(tree.links, f) = [at |-> f, hops |-> 0]
  BY <1>4 DEF S
<1> QED BY <1>5 DEF Real

\* The parent of a path that leads somewhere leads to a directory, which has its name.
LEMMA ParentFacts ==
  ASSUME IsTree(tree), MaxLinks \in Nat, NEW p \in Path \ {<<>>},
         Opens(p), Real(p) \in tree.dirs \cup DOMAIN tree.files
  PROVE  IsDir(Front(p)) /\ Last(p) \in Entries(Front(p))
<1> DEFINE w == Locate(tree.links, Front(p))
           q == Append(w.at, Last(p))
<1>1. Front(p) \in Path /\ Last(p) \in Name
  BY FrontFacts
<1>2. w \in Place
  BY <1>1, RealType
<1>3. w.at \in Path /\ w.hops \in Nat
  BY <1>2 DEF Place
<1>4. q \in Path \ {<<>>} /\ Front(q) = w.at
  BY <1>1, <1>3, AppendFacts
<1>5. Locate(tree.links, p) = Followed(tree.links, w, Last(p))
  BY LocateFacts
<1> HIDE DEF w
<1>6. q \in Nodes /\ w.hops <= MaxLinks
  <2>1. CASE q \in DOMAIN tree.links
    <3>1. Locate(tree.links, p).hops = w.hops + 1
      BY <1>5, <2>1 DEF Followed
    <3> QED BY <1>3, <2>1, <3>1 DEF Opens, Nodes
  <2>2. CASE q \notin DOMAIN tree.links
    <3>1. [w EXCEPT !.at = q] = [at |-> q, hops |-> w.hops]
      BY <1>2 DEF Place
    <3>2. Locate(tree.links, p) = [at |-> q, hops |-> w.hops]
      BY <1>5, <2>2, <3>1 DEF Followed
    <3> QED BY <3>2 DEF Opens, Real, Nodes
  <2> QED BY <2>1, <2>2
<1>7. w.at \in tree.dirs
  BY <1>4, <1>6, TreeFacts
<1> QED BY <1>1, <1>6, <1>7 DEF IsDir, Opens, Real, Entries, Nodes, w

\* Each directory on a path that leads somewhere has the next component.
LEMMA Walkable ==
  ASSUME IsTree(tree), MaxLinks \in Nat
  PROVE  \A p \in Path : Opens(p) /\ Real(p) \in tree.dirs \cup DOMAIN tree.files =>
           \A q \in Path : IsStrictPrefix(q, p) => IsDir(q) /\ p[Len(q) + 1] \in Entries(q)
<1> DEFINE Leads(p) == Opens(p) /\ Real(p) \in tree.dirs \cup DOMAIN tree.files
           S == {p \in Path : Leads(p) => \A q \in Path : IsStrictPrefix(q, p) =>
                                            IsDir(q) /\ p[Len(q) + 1] \in Entries(q)}
<1>1. <<>> \in S
  <2>1. <<>> \in Path /\ Len(<<>>) = 0
    BY EmptySeq DEF Path
  <2>2. \A q \in Path : ~ IsStrictPrefix(q, <<>>)
    BY <2>1, PrefixMeans
  <2> QED BY <2>1, <2>2
<1>2. ASSUME NEW p \in Path \ {<<>>}, Front(p) \in S PROVE p \in S
  <2> SUFFICES ASSUME Leads(p), NEW q \in Path, IsStrictPrefix(q, p)
               PROVE  IsDir(q) /\ p[Len(q) + 1] \in Entries(q)
    OBVIOUS
  <2>1. IsDir(Front(p)) /\ Last(p) \in Entries(Front(p))
    BY ParentFacts
  <2>2. Leads(Front(p))
    BY <2>1 DEF IsDir
  <2>3. /\ Len(p) \in Nat \ {0} /\ Front(p) \in Path /\ Len(Front(p)) = Len(p) - 1
        /\ \A j \in 1..(Len(p) - 1) : Front(p)[j] = p[j]
        /\ Last(p) = p[Len(p)]
    BY FrontFacts
  <2>4. Len(q) \in Nat /\ Len(q) < Len(p) /\ \A j \in 1..Len(q) : q[j] = p[j]
    BY PrefixMeans
  <2>5. CASE Len(q) = Len(p) - 1
    <3>1. q = Front(p)
      BY <2>3, <2>4, <2>5, SeqEqual DEF Path
    <3> QED BY <2>1, <2>3, <2>5, <3>1
  <2>6. CASE Len(q) < Len(p) - 1
    <3>1. \A j \in 1..Len(q) : q[j] = Front(p)[j]
      BY <2>3, <2>4, <2>6
    <3>2. IsStrictPrefix(q, Front(p))
      BY <2>3, <2>4, <2>6, <3>1, PrefixMeans
    <3>3. Front(p)[Len(q) + 1] = p[Len(q) + 1]
      BY <2>3, <2>4, <2>6
    <3> QED BY <1>2, <2>2, <3>2, <3>3
  <2> QED BY <2>3, <2>4, <2>5, <2>6
<1> HIDE DEF S
<1>3. Path \subseteq S
  BY <1>1, <1>2, PathInduction
<1> QED BY <1>3 DEF S

-----------------------------------------------------------------------------
(***************************************************************************)
(* What a command asks for                                                 *)
(***************************************************************************)
\* Wanted, of the command c.
WantedBy(c, p) ==
  /\ IsPrefix(c.target, p) /\ Last(p) \in PyName
  /\ \A i \in (Len(c.target) + 1)..(Len(p) - 1) : p[i] \notin DefaultExcludes \cup c.exclude
  /\ ~(c.no_tests /\ IsTestFile(p, c))
  /\ ~IsExcluded(p, c.target)

\* What a command looks at, on the tree as it is.
Chosen(c) == {r \in Record : /\ WantedBy(c, r.path) /\ IsFile(r.path)
                             /\ r.content = tree.files[Real(r.path)]}

LEMMA SkipsMeans ==
  ASSUME NEW p, command \in Commands
  PROVE  Skips(p) <=> \/ command.no_tests /\ IsTestFile(p, command)
                      \/ IsExcluded(p, command.target)
<1>1. /\ command.kind \in {"scan", "baseline", "audit"}
      /\ command.kind = "audit" => ~command.no_tests
  BY SelectionAssumption DEF Command
<1> QED BY <1>1 DEF Skips, ScanSkips, BaselineSkips, AuditSkips

\* The properties of a command that covers another.
LEMMA CoversMeans ==
  ASSUME NEW a \in Command, NEW c \in Command, Covers(a, c), NEW p \in Path, WantedBy(c, p)
  PROVE  WantedBy(a, p)
<1>1. a.target \in Path /\ c.target \in Path
  BY DEF Command
<1>2. /\ Len(a.target) \in Nat /\ Len(c.target) \in Nat /\ Len(p) \in Nat
      /\ Len(a.target) <= Len(c.target) /\ \A j \in 1..Len(a.target) : a.target[j] = c.target[j]
      /\ Len(c.target) <= Len(p) /\ \A j \in 1..Len(c.target) : c.target[j] = p[j]
  BY <1>1, PrefixMeans DEF Covers, WantedBy
<1>3. IsPrefix(a.target, p)
  <2>1. Len(a.target) <= Len(p) /\ \A j \in 1..Len(a.target) : a.target[j] = p[j]
    BY <1>2
  <2> QED BY <1>1, <2>1, PrefixMeans
<1>4. ASSUME NEW i \in (Len(a.target) + 1)..(Len(p) - 1)
      PROVE  p[i] \notin DefaultExcludes \cup a.exclude
  <2>1. CASE i <= Len(c.target)
    <3>1. i \in (Len(a.target) + 1)..Len(c.target) /\ i \in 1..Len(c.target)
      BY <1>2, <2>1
    <3> QED BY <1>2, <3>1 DEF Covers
  <2>2. CASE ~ (i <= Len(c.target))
    <3>1. i \in (Len(c.target) + 1)..(Len(p) - 1)
      BY <1>2, <2>2
    <3>2. p[i] \notin DefaultExcludes \cup c.exclude
      BY <3>1 DEF WantedBy
    <3> QED BY <3>2 DEF Covers
  <2> QED BY <2>1, <2>2
<1>5. ~ (a.no_tests /\ IsTestFile(p, a))
  <2>1. ASSUME a.target = c.target, a.absolute = c.absolute
        PROVE  IsTestFile(p, a) <=> IsTestFile(p, c)
    <3>1. Base(a) = Base(c)
      BY <2>1 DEF Base
    <3>2. Segments(p, a) = Segments(p, c)
      BY <2>1, <3>1 DEF Segments
    <3> QED BY <3>2 DEF IsTestFile
  <2> QED BY <2>1 DEF Covers, WantedBy
<1>6. ~ IsExcluded(p, a.target)
  <2>1. IsExcluded(p, a.target) <=> IsExcluded(p, c.target)
    BY DEF Covers, IsExcluded, Home
  <2> QED BY <2>1 DEF WantedBy
<1> QED BY <1>3, <1>4, <1>5, <1>6 DEF WantedBy

LEMMA ChosenWithin ==
  ASSUME NEW a \in Command, NEW c \in Command, Covers(a, c)
  PROVE  Chosen(c) \subseteq Chosen(a)
<1> SUFFICES ASSUME NEW r \in Chosen(c) PROVE r \in Chosen(a)
  OBVIOUS
<1>1. r \in Record /\ WantedBy(c, r.path) /\ IsFile(r.path) /\ r.content = tree.files[Real(r.path)]
  BY DEF Chosen
<1>2. r.path \in Path
  BY <1>1 DEF Record, PyPath
<1>3. WantedBy(a, r.path)
  BY <1>1, <1>2, CoversMeans
<1> QED BY <1>1, <1>3 DEF Chosen

\* An editor creates and deletes files; where the paths lead, what is a directory and
\* what is excluded stay.
SameShape == /\ tree'.links = tree.links /\ tree'.dirs = tree.dirs
             /\ tree'.configs = tree.configs

LEMMA ShapeStays ==
  ASSUME SameShape
  PROVE  /\ \A p : Real(p)' = Real(p) /\ Opens(p)' = Opens(p) /\ IsDir(p)' = IsDir(p)
         /\ \A t : Homes(t)' = Homes(t) /\ Home(t)' = Home(t)
         /\ \A p, t : IsExcluded(p, t)' = IsExcluded(p, t)
         /\ \A p, c : WantedBy(c, p)' = WantedBy(c, p)
<1>1. \A p : Real(p)' = Real(p)
  BY DEF SameShape, Real
<1>2. \A p : Opens(p)' = Opens(p)
  BY DEF SameShape, Opens
<1>3. \A p : IsDir(p)' = IsDir(p)
  BY <1>1, <1>2 DEF SameShape, IsDir
<1>4. \A t : Homes(t)' = Homes(t)
  BY <1>1 DEF SameShape, Homes
<1>5. \A t : Home(t)' = Home(t)
  BY <1>4 DEF Home
<1>6. \A p, t : IsExcluded(p, t)' = IsExcluded(p, t)
  BY <1>1, <1>4, <1>5 DEF SameShape, IsExcluded
<1>7. \A p, c : WantedBy(c, p)' = WantedBy(c, p)
  BY <1>6 DEF WantedBy
<1> QED BY <1>1, <1>2, <1>3, <1>4, <1>5, <1>6, <1>7

-----------------------------------------------------------------------------
(***************************************************************************)
(* The walk                                                                *)
(***************************************************************************)
\* The call fr of _walk has yet to come to the path p.
Leads(fr, p) == IsStrictPrefix(fr.path, p) /\ p[Len(fr.path) + 1] \in fr.todo
Pending(calls, p) == \E i \in 1..Len(calls) : Leads(calls[i], p)

LEMMA StackFacts ==
  ASSUME stack \in Seq(Frame), stack # <<>>
  PROVE  /\ Len(stack) \in Nat \ {0} /\ Top \in Frame /\ Top.path \in Path /\ Top.todo \subseteq Name
         /\ \A i \in 1..Len(stack) : stack[i] \in Frame
<1>1. Len(stack) \in Nat \ {0} /\ \A i \in 1..Len(stack) : stack[i] \in Frame
  BY EmptySeq, ElementOfSeq
<1>2. Top \in Frame
  BY <1>1 DEF Top
<1> QED BY <1>1, <1>2 DEF Frame

LEMMA WithoutFacts ==
  ASSUME stack \in Seq(Frame), stack # <<>>, NEW n \in Name
  PROVE  /\ Without(n) \in Seq(Frame) /\ Len(Without(n)) = Len(stack) /\ Without(n) # <<>>
         /\ Without(n)[Len(stack)] = [path |-> Top.path, todo |-> Top.todo \ {n}]
         /\ \A i \in 1..(Len(stack) - 1) : Without(n)[i] = stack[i]
<1> DEFINE fr == [path |-> Top.path, todo |-> Top.todo \ {n}]
<1>1. Top \in Frame /\ fr \in Frame
  BY StackFacts DEF Frame
<1>2. [Top EXCEPT !.todo = Top.todo \ {n}] = fr
  <2>1. \A w \in Frame : \A s : [w EXCEPT !.todo = s] = [path |-> w.path, todo |-> s]
    BY DEF Frame
  <2> QED BY <1>1, <2>1
<1>3. Len(stack) \in 1..Len(stack) /\ \A i \in 1..Len(stack) : stack[i] \in Frame
  BY StackFacts
<1>4. Without(n) = [stack EXCEPT ![Len(stack)] = fr]
  BY <1>2 DEF Without, Top
<1> HIDE DEF fr
<1>5. [stack EXCEPT ![Len(stack)] = fr] \in Seq(Frame)
      /\ Len([stack EXCEPT ![Len(stack)] = fr]) = Len(stack)
      /\ \A j \in 1..Len(stack) :
           [stack EXCEPT ![Len(stack)] = fr][j] = IF j = Len(stack) THEN fr ELSE stack[j]
  BY <1>1, <1>3, ExceptSeq
<1>6. \A i \in 1..(Len(stack) - 1) : i \in 1..Len(stack) /\ i # Len(stack)
  BY StackFacts
<1>7. Without(n) # <<>>
  BY <1>3, <1>4, <1>5, EmptySeq, StackFacts
<1> QED BY <1>3, <1>4, <1>5, <1>6, <1>7 DEF fr

\* When n is taken off the innermost call, the paths on which it is are no longer
\* pending there, and no others.
LEMMA PendingWithout ==
  ASSUME stack \in Seq(Frame), stack # <<>>, NEW n \in Name, NEW p \in Path,
         Pending(stack, p), ~ IsPrefix(Append(Top.path, n), p)
  PROVE  Pending(Without(n), p)
<1>1. PICK i \in 1..Len(stack) : Leads(stack[i], p)
  BY DEF Pending
<1>2. CASE i # Len(stack)
  <2>1. i \in 1..(Len(stack) - 1)
    BY <1>1, <1>2, StackFacts
  <2> QED BY <1>1, <2>1, WithoutFacts DEF Pending
<1>3. CASE i = Len(stack)
  <2>1. Leads(Top, p)
    BY <1>1, <1>3 DEF Top
  <2>2. /\ Top.path \in Path /\ Len(Top.path) \in Nat /\ Len(p) \in Nat /\ Len(Top.path) < Len(p)
        /\ \A j \in 1..Len(Top.path) : Top.path[j] = p[j]
    BY <2>1, StackFacts, PrefixMeans DEF Leads
  <2>3. p[Len(Top.path) + 1] # n
    <3> SUFFICES ASSUME p[Len(Top.path) + 1] = n PROVE FALSE
      OBVIOUS
    <3> DEFINE a == Append(Top.path, n)
    <3>1. /\ a \in Path /\ Len(a) = Len(Top.path) + 1 /\ a[Len(Top.path) + 1] = n
          /\ \A j \in 1..Len(Top.path) : a[j] = Top.path[j]
      BY <2>2, AppendFacts
    <3> HIDE DEF a
    <3>2. \A j \in 1..Len(a) : a[j] = p[j]
      BY <2>2, <3>1
    <3>3. IsPrefix(a, p)
      BY <2>2, <3>1, <3>2, PrefixMeans
    <3> QED BY <3>3 DEF a
  <2>4. Leads([path |-> Top.path, todo |-> Top.todo \ {n}], p)
    BY <2>1, <2>3 DEF Leads
  <2> QED BY <1>3, <2>4, WithoutFacts DEF Pending
<1> QED BY <1>2, <1>3

LEMMA PendingAppend ==
  ASSUME NEW calls \in Seq(Frame), NEW fr \in Frame, NEW p
  PROVE  /\ Append(calls, fr) \in Seq(Frame) /\ Append(calls, fr) # <<>>
         /\ Len(Append(calls, fr)) = Len(calls) + 1 /\ Len(calls) \in Nat
         /\ \A i \in 1..Len(calls) : Append(calls, fr)[i] = calls[i]
         /\ Append(calls, fr)[Len(calls) + 1] = fr
         /\ Pending(calls, p) \/ Leads(fr, p) => Pending(Append(calls, fr), p)
<1> DEFINE a == Append(calls, fr)
<1>1. /\ a \in Seq(Frame) /\ a # <<>> /\ Len(a) = Len(calls) + 1 /\ Len(calls) \in Nat
      /\ \A i \in 1..Len(calls) : a[i] = calls[i]
      /\ a[Len(calls) + 1] = fr
  BY AppendProperties, LenProperties
<1> HIDE DEF a
<1>2. ASSUME Pending(calls, p) PROVE Pending(a, p)
  <2>1. PICK i \in 1..Len(calls) : Leads(calls[i], p)
    BY <1>2 DEF Pending
  <2>2. i \in 1..Len(a) /\ Leads(a[i], p)
    BY <1>1, <2>1
  <2> QED BY <2>2 DEF Pending
<1>3. ASSUME Leads(fr, p) PROVE Pending(a, p)
  <2>1. Len(a) \in 1..Len(a) /\ Leads(a[Len(a)], p)
    BY <1>1, <1>3
  <2> QED BY <2>1 DEF Pending
<1> QED BY <1>1, <1>2, <1>3 DEF a

LEMMA PendingReturn ==
  ASSUME stack \in Seq(Frame), stack # <<>>, Top.todo = {}
  PROVE  LET below == SubSeq(stack, 1, Len(stack) - 1) IN
         /\ below \in Seq(Frame) /\ (below = <<>> <=> Len(stack) = 1)
         /\ Len(below) = Len(stack) - 1
         /\ \A i \in 1..Len(below) : below[i] = stack[i]
         /\ \A p : Pending(stack, p) => Pending(below, p)
<1> DEFINE k == Len(stack) - 1
           below == SubSeq(stack, 1, k)
<1>1. k \in Nat /\ \A i \in 1..k : stack[i] \in Frame
  BY StackFacts
<1>2. k + 1 = Len(stack)
  BY StackFacts
<1> HIDE DEF k
<1>3. below \in Seq(Frame) /\ Len(below) = k /\ \A i \in 1..k : below[i] = stack[i]
  BY <1>1, SubSeqProperties
<1> HIDE DEF below
<1>4. below = <<>> <=> Len(stack) = 1
  BY <1>1, <1>2, <1>3, EmptySeq
<1>5. ASSUME NEW p, Pending(stack, p) PROVE Pending(below, p)
  <2>1. PICK i \in 1..Len(stack) : Leads(stack[i], p)
    BY <1>5 DEF Pending
  <2>2. i # Len(stack)
    BY <2>1 DEF Leads, Top
  <2>3. i \in 1..k
    BY <1>1, <1>2, <2>1, <2>2
  <2> QED BY <1>3, <2>1, <2>3 DEF Pending
<1> QED BY <1>2, <1>3, <1>4, <1>5 DEF k, below

-----------------------------------------------------------------------------
(***************************************************************************)
(* The types                                                               *)
(***************************************************************************)
Run == [command : Commands, looked : SUBSET Record, new : SUBSET Record,
        exit : {"exit 0", "exit 1", "exit 2"}]
\* The keys of a baseline.
KeysType(keys) == \A k \in keys : k.path \in PyPath /\ \E c \in Commands : k = Typed(c, k.path)
Types == TypeOK /\ last \in Seq(Run)

LEMMA InitTypes == Init => Types
<1> SUFFICES ASSUME Init PROVE Types
  OBVIOUS
<1>1. IsTree(tree) /\ command \in Commands
  BY SelectionAssumption DEF Init
<1>2. stack \in Seq(Frame) /\ last \in Seq(Run)
  BY EmptySeq DEF Init
<1>3. /\ edits \in 0..MaxEdits /\ runs \in 0..MaxCommands
      /\ stage = "idle" /\ exit = "none" /\ looked \subseteq Record
      /\ saved \in BOOLEAN /\ accepted = {}
  <2>1. 0 \in 0..MaxEdits /\ 0 \in 0..MaxCommands
    BY SelectionAssumption
  <2> QED BY <2>1 DEF Init
<1>4. (stage = "walk") = (stack # <<>>)
  BY DEF Init
<1> QED BY <1>1, <1>2, <1>3, <1>4 DEF Types, TypeOK

\* The editor leaves a tree.
LEMMA EditTypes ==
  ASSUME IsTree(tree), Edit
  PROVE  /\ IsTree(tree') /\ SameShape
         /\ \A f \in DOMAIN tree.files \cup DOMAIN tree'.files :
              f \notin touched' => /\ f \in DOMAIN tree.files /\ f \in DOMAIN tree'.files
                                   /\ tree'.files[f] = tree.files[f]
<1>1. PICK f \in Edited :
        /\ Front(f) \in tree.dirs /\ f \notin tree.dirs \cup DOMAIN tree.links
        /\ tree' = IF f \in DOMAIN tree.files
                     THEN [tree EXCEPT !.files = [g \in DOMAIN @ \ {f} |-> @[g]]]
                     ELSE [tree EXCEPT !.files = [g \in DOMAIN @ \cup {f} |->
                                                    IF g = f THEN "finding" ELSE @[g]]]
        /\ touched' = touched \cup {f}
  BY DEF Edit
<1>2. f \in Path \ {<<>>}
  BY SelectionAssumption
<1>3. tree = [dirs |-> tree.dirs, links |-> tree.links, files |-> tree.files,
              configs |-> tree.configs]
  BY DEF IsTree
<1> DEFINE fewer == [g \in DOMAIN tree.files \ {f} |-> tree.files[g]]
           more == [g \in DOMAIN tree.files \cup {f} |-> IF g = f THEN "finding" ELSE tree.files[g]]
           now == IF f \in DOMAIN tree.files THEN fewer ELSE more
<1>4. tree' = [tree EXCEPT !.files = now]
  BY <1>1
<1>5. /\ DOMAIN now \subseteq DOMAIN tree.files \cup {f}
      /\ \A g \in DOMAIN now : g = f \/ (g \in DOMAIN tree.files /\ now[g] = tree.files[g])
      /\ f \in DOMAIN now => now[f] = "finding"
      /\ \A g \in DOMAIN tree.files \cup DOMAIN now :
           g # f => g \in DOMAIN tree.files /\ g \in DOMAIN now /\ now[g] = tree.files[g]
  <2>1. CASE f \in DOMAIN tree.files
    <3>1. now = fewer
      BY <2>1
    <3> QED BY <3>1
  <2>2. CASE f \notin DOMAIN tree.files
    <3>1. now = more
      BY <2>2
    <3>2. DOMAIN more = DOMAIN tree.files \cup {f}
      OBVIOUS
    <3>3. \A g \in DOMAIN more : more[g] = IF g = f THEN "finding" ELSE tree.files[g]
      OBVIOUS
    <3>4. DOMAIN now = DOMAIN tree.files \cup {f} /\ now[f] = "finding"
      BY <3>1, <3>2, <3>3
    <3>5. \A g \in DOMAIN tree.files \cup {f} : g # f => g \in DOMAIN tree.files /\ now[g] = tree.files[g]
      BY <3>1, <3>3
    <3> HIDE DEF now, more
    <3> QED BY <3>4, <3>5
  <2> QED BY <2>1, <2>2
<1> HIDE DEF now
<1>6. tree' = [dirs |-> tree.dirs, links |-> tree.links, files |-> now, configs |-> tree.configs]
  <2> DEFINE w == tree
  <2>1. \A d, l, s, c : [[dirs |-> d, links |-> l, files |-> s, configs |-> c] EXCEPT !.files = now]
                         = [dirs |-> d, links |-> l, files |-> now, configs |-> c]
    OBVIOUS
  <2> QED BY <1>3, <1>4, <2>1
<1>7. /\ tree'.dirs = tree.dirs /\ tree'.links = tree.links /\ tree'.files = now
      /\ tree'.configs = tree.configs
  BY <1>6
<1>8. IsTree(tree')
  <2>1. tree' = [dirs |-> tree'.dirs, links |-> tree'.links, files |-> tree'.files,
                 configs |-> tree'.configs]
    BY <1>6, <1>7
  <2> DEFINE nodes == tree.dirs \cup DOMAIN now \cup DOMAIN tree.links
  <2>2. nodes \subseteq Nodes \cup {f}
    BY <1>5 DEF Nodes
  <2>3. \A q \in nodes : IF q = <<>> THEN q \in tree.dirs ELSE Front(q) \in tree.dirs
    BY <1>1, <1>2, <2>2 DEF IsTree, Nodes
  <2>4. nodes \subseteq Path
    BY <1>2, <2>2, TreeFacts
  <2>5. \A g \in DOMAIN now : now[g] \in Content
    BY <1>5 DEF IsTree, Content
  <2>6. tree.dirs \cap DOMAIN now = {} /\ DOMAIN tree.links \cap (tree.dirs \cup DOMAIN now) = {}
    BY <1>1, <1>5, TreeFacts
  <2> QED BY <1>7, <2>1, <2>3, <2>4, <2>5, <2>6 DEF IsTree
<1> QED BY <1>1, <1>5, <1>7, <1>8 DEF SameShape

\* What a path that is looked at adds.
LEMMA AnalyzeFacts ==
  ASSUME IsTree(tree), NEW p \in Path, Last(p) \in PyName, IsFile(p)
  PROVE  [path |-> p, content |-> tree.files[Real(p)]] \in Record
<1>1. tree.files[Real(p)] \in Content
  BY DEF IsFile, IsTree
<1>2. p \in PyPath
  BY DEF PyPath
<1> QED BY <1>1, <1>2 DEF Record

\* What a command finds, and what it saves of it.
LEMMA FindingsType ==
  ASSUME looked \subseteq Record, command \in Commands
  PROVE  /\ Findings \subseteq Record /\ New \subseteq Record
         /\ KeysType({Typed(command, r.path) : r \in Findings})
<1>1. Findings \subseteq Record /\ New \subseteq Record
  BY DEF Findings, New
<1>2. \A r \in Record : r.path \in PyPath /\ Typed(command, r.path).path = r.path
  BY DEF Record, Typed
<1>3. \A k \in {Typed(command, r.path) : r \in Findings} :
        k.path \in PyPath /\ k = Typed(command, k.path)
  BY <1>1, <1>2
<1> QED BY <1>1, <1>3 DEF KeysType

\* A sequence of calls is empty unless a directory is walked.
LEMMA StackEmpty ==
  ASSUME TypeOK
  PROVE  /\ stage # "walk" => stack = <<>>
         /\ stage = "walk" => stack # <<>> /\ Top.path \in Path /\ Top.todo \subseteq Name
                              /\ Top \in Frame
BY StackFacts DEF TypeOK

\* The steps that neither touch the tree nor begin a command.
Quiet == UNCHANGED kept /\ UNCHANGED command

LEMMA StepTypes ==
  ASSUME Types, Step
  PROVE  Types' /\ Quiet
<1> USE DEF Types
<1>1. /\ IsTree(tree) /\ edits \in 0..MaxEdits /\ runs \in 0..MaxCommands /\ command \in Commands
      /\ looked \subseteq Record /\ KeysType(accepted) /\ stack \in Seq(Frame)
      /\ exit \in {"none", "exit 0", "exit 1", "exit 2", "traceback"}
      /\ saved \in BOOLEAN /\ (accepted # {} => saved)
      /\ (stage = "walk") = (stack # <<>>)
      /\ stage \in {"idle", "config", "target", "walk", "report"}
  BY DEF TypeOK, KeysType
<1>2. command.target \in Path
  BY <1>1, SelectionAssumption DEF Command
<1> DEFINE Calls(s, g) == s \in Seq(Frame) /\ (g = "walk") = (s # <<>>)
                          /\ g \in {"idle", "config", "target", "walk", "report"}
<1>3. <<>> \in Seq(Frame)
  BY EmptySeq
<1>4. ASSUME UNCHANGED <<kept, command, saved, accepted, last>>, looked' \subseteq Record,
             exit' \in {"none", "exit 0", "exit 1", "exit 2", "traceback"},
             Calls(stack', stage')
      PROVE  Types' /\ Quiet
  <2>1. Quiet
    BY <1>4 DEF Quiet
  <2>2. UNCHANGED <<tree, edits, runs, command, saved, accepted, last>>
    BY <1>4 DEF kept
  <2>3. KeysType(accepted') /\ (accepted' # {} => saved') /\ saved' \in BOOLEAN
    BY <1>1, <1>4
  <2>4. IsTree(tree)' /\ edits' \in 0..MaxEdits /\ runs' \in 0..MaxCommands /\ command' \in Commands
    BY <1>1, <2>2
  <2>5. TypeOK'
    BY <1>4, <2>3, <2>4 DEF TypeOK, KeysType
  <2> QED BY <1>4, <2>1, <2>5
<1>5. ASSUME NEW p \in Path, Last(p) \in PyName, Analyze(p)
      PROVE  /\ looked' \subseteq Record
             /\ exit' \in {"none", "exit 0", "exit 1", "exit 2", "traceback"}
  BY <1>1, <1>5, AnalyzeFacts DEF Analyze
<1>6. CASE LoadConfig
  <2>1. Calls(stack', stage')
    BY <1>1, <1>3, <1>6 DEF LoadConfig, Ends
  <2> QED BY <1>1, <1>4, <1>6, <2>1 DEF LoadConfig, Ends
<1>7. CASE TargetIsFile
  <2>1. stack' = stack /\ stage' \in {"idle", "report"} /\ stage = "target"
    BY <1>7 DEF TargetIsFile
  <2>2. Calls(stack', stage')
    BY <1>1, <2>1
  <2>3. looked' \subseteq Record /\ exit' \in {"none", "exit 0", "exit 1", "exit 2", "traceback"}
    <3>1. CASE Analyze(command.target)
      <4>1. CASE Last(command.target) \in PyName
        BY <1>2, <1>5, <3>1, <4>1
      <4>2. CASE ~IsFile(command.target)
        BY <1>1, <3>1, <4>2 DEF Analyze
      <4>3. Last(command.target) \in PyName \/ ~IsFile(command.target) \/ UNCHANGED <<exit, looked>>
        BY <1>7 DEF TargetIsFile
      <4> QED BY <1>1, <4>1, <4>2, <4>3
    <3>2. CASE UNCHANGED <<exit, looked>>
      BY <1>1, <3>2
    <3> QED BY <1>7, <3>1, <3>2 DEF TargetIsFile
  <2> QED BY <1>4, <1>7, <2>2, <2>3 DEF TargetIsFile
<1>8. CASE TargetIsDirectory
  <2> DEFINE fr == [path |-> command.target, todo |-> Entries(command.target)]
  <2>1. fr \in Frame
    BY <1>2 DEF Frame, Entries
  <2> HIDE DEF fr
  <2>2. <<fr>> \in Seq(Frame) /\ <<fr>> # <<>>
    BY <2>1
  <2>3. stack' = <<fr>> /\ stage' = "walk"
    BY <1>8 DEF TargetIsDirectory, fr
  <2>4. Calls(stack', stage')
    BY <2>2, <2>3
  <2> QED BY <1>1, <1>4, <1>8, <2>4 DEF TargetIsDirectory
<1>9. CASE Return
  <2>1. /\ stage = "walk" /\ stack # <<>> /\ Top.todo = {}
        /\ stack' = SubSeq(stack, 1, Len(stack) - 1)
        /\ stage' = IF Len(stack) = 1 THEN "report" ELSE "walk"
    BY <1>1, <1>9 DEF Return
  <2>2. stack' \in Seq(Frame) /\ (stack' = <<>> <=> Len(stack) = 1)
    BY <1>1, <2>1, PendingReturn
  <2>3. Calls(stack', stage')
    BY <2>1, <2>2
  <2> QED BY <1>1, <1>4, <1>9, <2>3 DEF Return
<1>10. CASE Report
  <2>1. /\ stage' = "idle" /\ stack' = <<>> /\ exit' \in {"exit 0", "exit 1", "exit 2"}
        /\ UNCHANGED kept /\ UNCHANGED command /\ looked' = looked
    BY <1>10 DEF Report, Ends
  <2>2. KeysType(accepted') /\ saved' \in BOOLEAN /\ (accepted' # {} => saved')
    BY <1>1, <1>10, FindingsType DEF Report
  <2>3. last' \in Seq(Run)
    <3> DEFINE r == [command |-> command, looked |-> looked, new |-> New, exit |-> exit']
    <3>1. r \in Run
      <4> DEFINE e == exit'
      <4>1. e \in {"exit 0", "exit 1", "exit 2"}
        BY <2>1
      <4> HIDE DEF e
      <4> QED BY <1>1, <4>1, FindingsType DEF Run, e
    <3> HIDE DEF r
    <3>2. Append(last, r) \in Seq(Run)
      BY <3>1, AppendProperties
    <3>3. last' = Append(last, r) \/ last' = last
      BY <1>10 DEF Report, r
    <3> QED BY <3>2, <3>3
  <2>4. UNCHANGED <<tree, edits, runs, command, looked>> /\ Quiet
    BY <2>1 DEF Quiet, kept
  <2> QED BY <1>1, <1>3, <2>1, <2>2, <2>3, <2>4 DEF TypeOK, KeysType
<1>11. ASSUME NEW n \in Name, VisitDirectory(n)
       PROVE  Types' /\ Quiet
  <2> DEFINE p == Append(Top.path, n)
             fr == [path |-> p, todo |-> Entries(p)]
  <2>1. stage = "walk" /\ stack # <<>> /\ stage' = "walk"
    BY <1>1, <1>11 DEF VisitDirectory
  <2>2. Without(n) \in Seq(Frame) /\ Without(n) # <<>>
    BY <1>1, <2>1, WithoutFacts
  <2>3. fr \in Frame
    <3>1. p \in Path
      BY <1>1, <2>1, StackFacts, AppendFacts
    <3> QED BY <3>1 DEF Frame, Entries
  <2>4. stack' = Without(n) \/ stack' = Append(Without(n), fr)
    BY <1>11 DEF VisitDirectory
  <2> HIDE DEF fr
  <2>5. Append(Without(n), fr) \in Seq(Frame) /\ Append(Without(n), fr) # <<>>
    BY <2>2, <2>3, PendingAppend
  <2>6. Calls(stack', stage')
    BY <2>1, <2>2, <2>4, <2>5
  <2> QED BY <1>1, <1>4, <1>11, <2>6 DEF VisitDirectory
<1>12. ASSUME NEW n \in Name, VisitFile(n)
       PROVE  Types' /\ Quiet
  <2> DEFINE p == Append(Top.path, n)
  <2>1. stage = "walk" /\ stack # <<>>
    BY <1>1, <1>12 DEF VisitFile
  <2>2. Without(n) \in Seq(Frame) /\ Without(n) # <<>>
    BY <1>1, <2>1, WithoutFacts
  <2>3. p \in Path /\ Last(p) = n
    BY <1>1, <2>1, StackFacts, AppendFacts
  <2>4. (stack' = Without(n) /\ stage' = "walk") \/ (stack' = <<>> /\ stage' = "idle")
    BY <1>12, <2>1 DEF VisitFile
  <2>5. Calls(stack', stage')
    BY <1>3, <2>2, <2>4
  <2>6. looked' \subseteq Record /\ exit' \in {"none", "exit 0", "exit 1", "exit 2", "traceback"}
    BY <1>1, <1>5, <1>12, <2>3 DEF VisitFile
  <2> QED BY <1>4, <1>12, <2>5, <2>6 DEF VisitFile
<1> QED BY <1>6, <1>7, <1>8, <1>9, <1>10, <1>11, <1>12 DEF Step

LEMMA NextTypes == Types /\ [Next]_vars => Types'
<1> SUFFICES ASSUME Types, [Next]_vars PROVE Types'
  OBVIOUS
<1>1. CASE Step
  BY <1>1, StepTypes
<1>2. ASSUME NEW c \in Commands, Begin(c) PROVE Types'
  <2>1. /\ command' = c /\ runs' = runs + 1 /\ runs < MaxCommands /\ looked' = {}
        /\ exit' \in {"none", "exit 2"} /\ stage = "idle" /\ stage' \in {"config", "idle"}
        /\ (stack' = stack \/ stack' = <<>>)
        /\ UNCHANGED <<tree, edits, saved, accepted, last>>
    BY <1>2 DEF Begin, Ends
  <2>2. stack' = <<>>
    BY <2>1, StackEmpty DEF Types
  <2>3. <<>> \in Seq(Frame)
    BY EmptySeq
  <2>4. runs' \in 0..MaxCommands
    <3>1. runs \in 0..MaxCommands /\ MaxCommands \in Nat
      BY SelectionAssumption DEF Types, TypeOK
    <3>2. runs < MaxCommands /\ runs' = runs + 1
      BY <2>1
    <3> QED BY <3>1, <3>2
  <2> QED BY <2>1, <2>2, <2>3, <2>4 DEF Types, TypeOK
<1>3. CASE Edit
  <2>1. IsTree(tree)'
    BY <1>3, EditTypes DEF Types, TypeOK
  <2>2. edits' \in 0..MaxEdits
    <3>1. edits \in 0..MaxEdits /\ MaxEdits \in Nat
      BY SelectionAssumption DEF Types, TypeOK
    <3>2. edits < MaxEdits /\ edits' = edits + 1
      BY <1>3 DEF Edit
    <3> QED BY <3>1, <3>2
  <2>3. last' \in Seq(Run)
    BY <1>3, EmptySeq DEF Edit
  <2>4. UNCHANGED <<command, stage, stack, looked, exit, saved, accepted, runs>>
    BY <1>3 DEF Edit
  <2> QED BY <2>1, <2>2, <2>3, <2>4 DEF Types, TypeOK
<1>4. CASE UNCHANGED vars
  BY <1>4 DEF vars, Types, TypeOK
<1> QED BY <1>1, <1>2, <1>3, <1>4 DEF Next

\* A command holds what its variables are said to hold, whatever the links and edits.
THEOREM SelectionTypes == Spec => []TypeOK
<1>1. Init => Types
  BY InitTypes
<1>2. Types /\ [Next]_vars => Types'
  BY NextTypes
<1>3. Types => TypeOK
  BY DEF Types
<1> QED BY <1>1, <1>2, <1>3, PTL DEF Spec

-----------------------------------------------------------------------------
(***************************************************************************)
(* A command looks at what it is asked for                                 *)
(***************************************************************************)
\* A directory the walk may be in: below the target, over no excluded name.
Reached(p) == /\ IsPrefix(command.target, p)
              /\ \A i \in (Len(command.target) + 1)..Len(p) : p[i] \notin Excludes

Seen(p) == [path |-> p, content |-> tree.files[Real(p)]] \in looked

Due(p) == WantedBy(command, p) /\ IsFile(p) /\ Real(p) \notin touched

\* A wanted file that nobody has touched is looked at or in a directory still to be
\* walked, and what is looked at was wanted.
AllFound == stage \in {"walk", "report"} =>
              \A p \in Path : Due(p) => Seen(p) \/ Pending(stack, p)
NoneElse == \A r \in looked :
              /\ WantedBy(command, r.path)
              /\ \/ Real(r.path) \in touched
                 \/ IsFile(r.path) /\ r.content = tree.files[Real(r.path)]
Frames == \A i \in 1..Len(stack) : Reached(stack[i].path)
Search == Frames /\ AllFound /\ NoneElse

LEMMA TypeFacts ==
  ASSUME TypeOK
  PROVE  /\ IsTree(tree) /\ command \in Commands /\ command \in Command /\ command.target \in Path
         /\ MaxLinks \in Nat /\ stack \in Seq(Frame) /\ looked \subseteq Record
BY SelectionAssumption DEF TypeOK, Command

LEMMA QuietStays ==
  ASSUME Quiet
  PROVE  /\ tree' = tree /\ touched' = touched /\ command' = command
         /\ \A p : Real(p)' = Real(p) /\ IsFile(p)' = IsFile(p)
         /\ \A p, c : WantedBy(c, p)' = WantedBy(c, p)
         /\ \A p : Due(p)' = Due(p) /\ Reached(p)' = Reached(p)
<1>1. tree' = tree /\ touched' = touched /\ command' = command /\ SameShape
  BY DEF Quiet, kept, SameShape
<1>2. \A p : Real(p)' = Real(p) /\ Opens(p)' = Opens(p)
  BY <1>1, ShapeStays
<1>3. \A p, c : WantedBy(c, p)' = WantedBy(c, p)
  BY <1>1, ShapeStays
<1>4. \A p : IsFile(p)' = IsFile(p)
  BY <1>1, <1>2 DEF IsFile
<1>5. \A p : Due(p)' = Due(p)
  BY <1>1, <1>2, <1>3, <1>4 DEF Due
<1>6. \A p : Reached(p)' = Reached(p)
  BY <1>1 DEF Reached, Excludes
<1> QED BY <1>1, <1>2, <1>3, <1>4, <1>5, <1>6

LEMMA FramesStay ==
  ASSUME Quiet, \A i \in 1..Len(stack') : Reached(stack'[i].path)
  PROVE  Frames'
<1>1. command' = command
  BY DEF Quiet
<1> QED BY <1>1 DEF Frames, Reached, Excludes

\* What is looked at stays right when nothing is added, and when a wanted file is.
LEMMA NoneElseStays ==
  ASSUME Quiet, NoneElse,
         \/ looked' = looked
         \/ \E p \in Path : /\ WantedBy(command, p) /\ IsFile(p)
                            /\ looked' = looked \cup {[path |-> p, content |-> tree.files[Real(p)]]}
  PROVE  NoneElse' /\ \A p : Seen(p) => Seen(p)'
<1>1. \A r \in looked' :
        /\ WantedBy(command, r.path)
        /\ \/ Real(r.path) \in touched
           \/ IsFile(r.path) /\ r.content = tree.files[Real(r.path)]
  BY DEF NoneElse
<1>2. NoneElse'
  BY <1>1, QuietStays DEF NoneElse
<1>3. \A p : Seen(p) => Seen(p)'
  BY QuietStays DEF Seen
<1> QED BY <1>2, <1>3

LEMMA ReachedAppend ==
  ASSUME TypeOK, NEW p \in Path, NEW n \in Name, Reached(p)
  PROVE  LET a == Append(p, n) IN
         /\ a \in Path /\ IsPrefix(command.target, a) /\ Last(a) = n /\ Len(a) = Len(p) + 1
         /\ Len(command.target) \in Nat /\ Len(p) \in Nat /\ Len(command.target) <= Len(p)
         /\ \A i \in (Len(command.target) + 1)..(Len(a) - 1) : a[i] \notin Excludes
         /\ a[Len(a)] = n /\ (n \notin Excludes => Reached(a))
<1> DEFINE a == Append(p, n)
           c == command.target
<1>1. /\ a \in Path /\ Len(a) = Len(p) + 1 /\ Len(p) \in Nat /\ Last(a) = n
      /\ a[Len(p) + 1] = n /\ \A j \in 1..Len(p) : a[j] = p[j]
  BY AppendFacts
<1>2. c \in Path
  BY TypeFacts
<1>3. Len(c) \in Nat /\ Len(c) <= Len(p) /\ \A j \in 1..Len(c) : c[j] = p[j]
  BY <1>2, PrefixMeans DEF Reached
<1>4. \A i \in (Len(c) + 1)..Len(p) : p[i] \notin Excludes
  BY DEF Reached
<1> HIDE DEF a
<1>5. IsPrefix(c, a)
  <2>1. Len(c) <= Len(a) /\ \A j \in 1..Len(c) : c[j] = a[j]
    BY <1>1, <1>3
  <2> QED BY <1>1, <1>2, <2>1, PrefixMeans
<1> HIDE DEF c
<1>6. \A i \in (Len(c) + 1)..(Len(a) - 1) : a[i] \notin Excludes
  BY <1>1, <1>3, <1>4
<1>7. n \notin Excludes => \A i \in (Len(c) + 1)..Len(a) : a[i] \notin Excludes
  BY <1>1, <1>3, <1>4
<1> QED BY <1>1, <1>3, <1>5, <1>6, <1>7 DEF a, c, Reached

\* A directory on the way to a file is walked: it has the next component.
LEMMA WayToFile ==
  ASSUME TypeOK, NEW x \in Path, IsFile(x), NEW q \in Path, IsPrefix(q, x)
  PROVE  /\ IsDir(q) => IsStrictPrefix(q, x) /\ x[Len(q) + 1] \in Entries(q)
         /\ ~IsDir(q) => q = x
<1>1. IsTree(tree) /\ MaxLinks \in Nat
  BY TypeFacts
<1>2. ~IsDir(x)
  BY <1>1, TreeFacts DEF IsDir, IsFile
<1>3. IsStrictPrefix(q, x) \/ q = x
  BY DEF IsStrictPrefix
<1>4. IsStrictPrefix(q, x) => IsDir(q) /\ x[Len(q) + 1] \in Entries(q)
  BY <1>1, Walkable DEF IsFile
<1> QED BY <1>2, <1>3, <1>4

LEMMA SearchTarget ==
  ASSUME TypeOK, Search, Quiet, TargetIsFile \/ TargetIsDirectory
  PROVE  Search'
<1> DEFINE c == command.target
<1>1. c \in Path /\ command \in Commands
  BY TypeFacts
<1>2. ASSUME NEW x \in Path, Due(x) PROVE IsFile(x) /\ IsPrefix(c, x) /\ WantedBy(command, x)
  BY <1>2 DEF Due, WantedBy
<1>3. CASE TargetIsFile
  <2>1. ~IsDir(c) /\ stack' = stack /\ stack = <<>> /\ stage' \in {"report", "idle"}
    BY <1>3, StackEmpty DEF TargetIsFile
  <2>2. ASSUME NEW x \in Path, Due(x)
        PROVE  x = c /\ WantedBy(command, c) /\ IsFile(c) /\ Last(c) \in PyName /\ ~Skips(c)
    <3>1. x = c
      BY <1>1, <1>2, <2>1, <2>2, WayToFile
    <3>2. WantedBy(command, c) /\ IsFile(c)
      BY <1>2, <2>2, <3>1
    <3>3. Last(c) \in PyName /\ ~Skips(c)
      BY <1>1, <3>2, SkipsMeans DEF WantedBy
    <3> QED BY <3>1, <3>2, <3>3
  <2>3. CASE ~(IsFile(c) /\ Last(c) \in PyName /\ ~Skips(c))
    <3>1. looked' = looked
      BY <1>3, <2>3 DEF TargetIsFile, Analyze
    <3>2. NoneElse'
      BY <3>1, NoneElseStays DEF Search
    <3>3. \A x \in Path : ~Due(x)
      BY <2>2, <2>3
    <3>4. AllFound'
      BY <3>3, QuietStays DEF AllFound
    <3>5. Frames'
      BY <2>1, FramesStay
    <3> QED BY <3>2, <3>4, <3>5 DEF Search
  <2>4. CASE IsFile(c) /\ Last(c) \in PyName /\ ~Skips(c)
    <3>1. Analyze(c)
      BY <1>3, <2>4 DEF TargetIsFile
    <3>2. ~(command.no_tests /\ IsTestFile(c, command)) /\ ~IsExcluded(c, c)
      BY <1>1, <2>4, SkipsMeans
    <3>3. IsPrefix(c, c) /\ \A i \in (Len(c) + 1)..(Len(c) - 1) : FALSE
      <4>1. Len(c) \in Nat
        BY <1>1, LenProperties DEF Path
      <4> QED BY <1>1, <4>1, PrefixMeans
    <3>4. WantedBy(command, c)
      BY <2>4, <3>2, <3>3 DEF WantedBy
    <3>5. looked' = looked \cup {[path |-> c, content |-> tree.files[Real(c)]]}
      BY <2>4, <3>1 DEF Analyze
    <3>6. NoneElse'
      BY <1>1, <2>4, <3>4, <3>5, NoneElseStays DEF Search
    <3>7. \A x \in Path : Due(x) => Seen(x)'
      <4> SUFFICES ASSUME NEW x \in Path, Due(x) PROVE Seen(x)'
        OBVIOUS
      <4>1. x = c /\ IsFile(c)
        BY <2>2
      <4> QED BY <3>5, <4>1, QuietStays DEF Seen
    <3>8. AllFound'
      BY <3>7, QuietStays DEF AllFound
    <3>9. Frames'
      BY <2>1, FramesStay
    <3> QED BY <3>6, <3>8, <3>9 DEF Search
  <2> QED BY <2>3, <2>4
<1>4. CASE TargetIsDirectory
  <2> DEFINE fr == [path |-> c, todo |-> Entries(c)]
  <2>1. IsDir(c) /\ stack' = <<fr>> /\ looked' = looked
    BY <1>4 DEF TargetIsDirectory
  <2>2. NoneElse'
    BY <2>1, NoneElseStays DEF Search
  <2>3. Reached(c)
    <3>1. Len(c) \in Nat
      BY <1>1, LenProperties DEF Path
    <3>2. IsPrefix(c, c)
      BY <1>1, <3>1, PrefixMeans
    <3> QED BY <3>1, <3>2 DEF Reached
  <2>4. Len(stack') = 1 /\ stack'[1] = fr
    BY <2>1
  <2>5. ASSUME NEW x \in Path, Due(x) PROVE Pending(stack', x)
    <3>1. IsStrictPrefix(c, x) /\ x[Len(c) + 1] \in Entries(c)
      BY <1>1, <1>2, <2>1, <2>5, WayToFile
    <3>2. Leads(stack'[1], x)
      BY <2>4, <3>1 DEF Leads
    <3> QED BY <2>4, <3>2 DEF Pending
  <2>6. \A x \in Path : Due(x) => Pending(stack, x)'
    BY <2>5 DEF Pending, Leads
  <2>7. AllFound'
    BY <2>6, QuietStays DEF AllFound
  <2>8. Frames'
    BY <2>3, <2>4, FramesStay
  <2> QED BY <2>2, <2>7, <2>8 DEF Search
<1> QED BY <1>3, <1>4

LEMMA SearchReturn ==
  ASSUME TypeOK, Search, Quiet, Return
  PROVE  Search'
<1>1. /\ stage = "walk" /\ stack # <<>> /\ Top.todo = {} /\ looked' = looked
      /\ stack' = SubSeq(stack, 1, Len(stack) - 1)
  BY StackEmpty DEF Return
<1>2. /\ \A i \in 1..Len(stack') : stack'[i] = stack[i] /\ i \in 1..Len(stack)
      /\ \A p : Pending(stack, p) => Pending(stack', p)
  <2> DEFINE below == SubSeq(stack, 1, Len(stack) - 1)
  <2>1. /\ Len(below) = Len(stack) - 1
        /\ \A i \in 1..Len(below) : below[i] = stack[i]
        /\ \A p : Pending(stack, p) => Pending(below, p)
    BY <1>1, PendingReturn, TypeFacts
  <2>2. Len(stack) \in Nat
    BY TypeFacts, LenProperties
  <2>3. stack' = below
    BY <1>1
  <2> HIDE DEF below
  <2> QED BY <2>1, <2>2, <2>3
<1>3. Frames'
  BY <1>2, FramesStay DEF Search, Frames
<1>4. NoneElse' /\ \A p : Seen(p) => Seen(p)'
  BY <1>1, NoneElseStays DEF Search
<1>5. \A x \in Path : Due(x) => Seen(x)' \/ Pending(stack, x)'
  <2>1. \A x \in Path : Due(x) => Seen(x)' \/ Pending(stack', x)
    BY <1>1, <1>2, <1>4 DEF Search, AllFound
  <2> QED BY <2>1 DEF Pending, Leads
<1>6. AllFound'
  BY <1>5, QuietStays DEF AllFound
<1> QED BY <1>3, <1>4, <1>6 DEF Search

LEMMA SearchDirectory ==
  ASSUME TypeOK, Search, Quiet, NEW n \in Name, VisitDirectory(n)
  PROVE  Search'
<1> DEFINE p == Append(Top.path, n)
           fr == [path |-> p, todo |-> Entries(p)]
           c == command.target
<1>1. /\ stage = "walk" /\ stack # <<>> /\ looked' = looked /\ IsDir(p)
      /\ stack' = IF n \in Excludes THEN Without(n) ELSE Append(Without(n), fr)
      /\ Top.path \in Path
  BY StackEmpty DEF VisitDirectory
<1>2. stack \in Seq(Frame) /\ c \in Path
  BY TypeFacts
<1>3. Reached(Top.path)
  <2>1. Len(stack) \in 1..Len(stack)
    BY <1>1, <1>2, StackFacts
  <2> QED BY <2>1 DEF Search, Frames, Top
<1>4. /\ p \in Path /\ Len(p) = Len(Top.path) + 1 /\ Len(Top.path) \in Nat /\ p[Len(p)] = n
      /\ Len(c) \in Nat /\ Len(c) <= Len(Top.path)
      /\ n \notin Excludes => Reached(p)
  BY <1>1, <1>3, ReachedAppend
<1>5. /\ Without(n) \in Seq(Frame) /\ Len(Without(n)) = Len(stack)
      /\ Without(n)[Len(stack)] = [path |-> Top.path, todo |-> Top.todo \ {n}]
      /\ \A i \in 1..(Len(stack) - 1) : Without(n)[i] = stack[i]
      /\ Len(stack) \in Nat \ {0}
  BY <1>1, <1>2, WithoutFacts, StackFacts
<1>6. fr \in Frame
  BY <1>4 DEF Frame, Entries
<1>7. fr.path = p /\ fr.todo = Entries(p)
  OBVIOUS
<1> HIDE DEF fr, p
<1>8. \A i \in 1..Len(Without(n)) : Reached(Without(n)[i].path)
  <2> SUFFICES ASSUME NEW i \in 1..Len(stack) PROVE Reached(Without(n)[i].path)
    BY <1>5
  <2>1. CASE i = Len(stack)
    BY <1>3, <1>5, <2>1
  <2>2. CASE i # Len(stack)
    <3>1. i \in 1..(Len(stack) - 1)
      BY <1>5, <2>2
    <3> QED BY <1>5, <3>1 DEF Search, Frames
  <2> QED BY <2>1, <2>2
<1>9. ASSUME NEW x
      PROVE  /\ Len(Append(Without(n), fr)) = Len(stack) + 1
             /\ \A i \in 1..Len(stack) : Append(Without(n), fr)[i] = Without(n)[i]
             /\ Append(Without(n), fr)[Len(stack) + 1] = fr
             /\ Pending(Without(n), x) \/ Leads(fr, x) => Pending(Append(Without(n), fr), x)
  BY <1>5, <1>6, PendingAppend
<1>10. \A i \in 1..Len(stack') : Reached(stack'[i].path)
  <2>1. CASE n \in Excludes
    BY <1>1, <1>8, <2>1
  <2>2. CASE n \notin Excludes
    <3>1. stack' = Append(Without(n), fr)
      BY <1>1, <2>2
    <3> SUFFICES ASSUME NEW i \in 1..Len(stack') PROVE Reached(stack'[i].path)
      OBVIOUS
    <3>2. i \in 1..Len(stack) \/ i = Len(stack) + 1
      BY <1>5, <1>9, <3>1
    <3>3. CASE i \in 1..Len(stack)
      <4>1. stack'[i] = Without(n)[i]
        BY <1>9, <3>1, <3>3
      <4> QED BY <1>5, <1>8, <3>3, <4>1
    <3>4. CASE i = Len(stack) + 1
      <4>1. stack'[i] = fr
        BY <1>9, <3>1, <3>4
      <4> QED BY <1>4, <1>7, <2>2, <4>1
    <3> QED BY <3>2, <3>3, <3>4
  <2> QED BY <2>1, <2>2
<1>11. Frames'
  BY <1>10, FramesStay
<1>12. NoneElse' /\ \A x : Seen(x) => Seen(x)'
  BY <1>1, NoneElseStays DEF Search
<1>13. ASSUME NEW x \in Path, Due(x), Pending(stack, x)
       PROVE  Pending(stack', x)
  <2>1. CASE ~IsPrefix(p, x)
    <3>1. Pending(Without(n), x)
      BY <1>1, <1>2, <1>13, <2>1, PendingWithout DEF p
    <3> QED BY <1>1, <1>9, <3>1
  <2>2. CASE IsPrefix(p, x)
    <3>1. IsFile(x) /\ WantedBy(command, x)
      BY <1>13 DEF Due
    <3>2. IsStrictPrefix(p, x) /\ x[Len(p) + 1] \in Entries(p)
      BY <1>1, <1>4, <2>2, <3>1, WayToFile
    <3>3. Len(p) < Len(x) /\ x[Len(p)] = n /\ Len(x) \in Nat
      <4>1. /\ Len(p) < Len(x) /\ Len(p) \in Nat /\ Len(x) \in Nat
            /\ \A j \in 1..Len(p) : p[j] = x[j]
        BY <1>4, <3>2, PrefixMeans
      <4>2. Len(p) \in 1..Len(p)
        BY <1>4, <4>1
      <4> QED BY <1>4, <4>1, <4>2
    <3>4. n \notin Excludes
      <4>1. Len(p) \in (Len(c) + 1)..(Len(x) - 1)
        BY <1>4, <3>3
      <4>2. \A i \in (Len(c) + 1)..(Len(x) - 1) : x[i] \notin Excludes
        BY <3>1 DEF WantedBy, Excludes
      <4> QED BY <3>3, <4>1, <4>2
    <3>5. Leads(fr, x)
      BY <1>7, <3>2 DEF Leads
    <3> QED BY <1>1, <1>9, <3>4, <3>5
  <2> QED BY <2>1, <2>2
<1>14. \A x \in Path : Due(x) => Seen(x)' \/ Pending(stack, x)'
  <2>1. \A x \in Path : Due(x) => Seen(x)' \/ Pending(stack', x)
    BY <1>1, <1>12, <1>13 DEF Search, AllFound
  <2> QED BY <2>1 DEF Pending, Leads
<1>15. AllFound'
  BY <1>14, QuietStays DEF AllFound
<1> QED BY <1>11, <1>12, <1>15 DEF Search

LEMMA SearchFile ==
  ASSUME TypeOK, Search, Quiet, NEW n \in Name, VisitFile(n)
  PROVE  Search'
<1> DEFINE p == Append(Top.path, n)
           c == command.target
<1>1. /\ stage = "walk" /\ stack # <<>> /\ ~IsDir(p) /\ Top.path \in Path
      /\ IF n \notin PyName \/ Skips(p)
           THEN stack' = Without(n) /\ looked' = looked /\ stage' = "walk"
           ELSE /\ Analyze(p)
                /\ IF IsFile(p) THEN stack' = Without(n) /\ stage' = "walk"
                                ELSE stack' = <<>> /\ stage' = "idle"
  BY StackEmpty DEF VisitFile
<1>2. stack \in Seq(Frame) /\ c \in Path /\ command \in Commands
  BY TypeFacts
<1>3. Reached(Top.path)
  <2>1. Len(stack) \in 1..Len(stack)
    BY <1>1, <1>2, StackFacts
  <2> QED BY <2>1 DEF Search, Frames, Top
<1>4. /\ p \in Path /\ IsPrefix(c, p) /\ Last(p) = n
      /\ \A i \in (Len(c) + 1)..(Len(p) - 1) : p[i] \notin Excludes
  BY <1>1, <1>3, ReachedAppend
<1>5. /\ Len(Without(n)) = Len(stack)
      /\ Without(n)[Len(stack)] = [path |-> Top.path, todo |-> Top.todo \ {n}]
      /\ \A i \in 1..(Len(stack) - 1) : Without(n)[i] = stack[i]
      /\ Len(stack) \in Nat \ {0}
  BY <1>1, <1>2, WithoutFacts, StackFacts
<1> DEFINE Read == n \in PyName /\ ~Skips(p)
<1>6. Read => WantedBy(command, p)
  BY <1>2, <1>4, SkipsMeans DEF WantedBy, Excludes
<1>7. /\ Read /\ IsFile(p) => looked' = looked \cup {[path |-> p, content |-> tree.files[Real(p)]]}
      /\ ~(Read /\ IsFile(p)) => looked' = looked
      /\ stack' = Without(n) \/ (stack' = <<>> /\ stage' = "idle")
  BY <1>1 DEF Analyze
<1> HIDE DEF p
<1>8. \A i \in 1..Len(stack') : Reached(stack'[i].path)
  <2>1. CASE stack' = Without(n)
    <3> SUFFICES ASSUME NEW i \in 1..Len(stack) PROVE Reached(Without(n)[i].path)
      BY <1>5, <2>1
    <3>1. CASE i = Len(stack)
      BY <1>3, <1>5, <3>1
    <3>2. CASE i # Len(stack)
      <4>1. i \in 1..(Len(stack) - 1)
        BY <1>5, <3>2
      <4> QED BY <1>5, <4>1 DEF Search, Frames
    <3> QED BY <3>1, <3>2
  <2>2. CASE stack' = <<>>
    BY <2>2
  <2> QED BY <1>7, <2>1, <2>2
<1>9. Frames'
  BY <1>8, FramesStay
<1>10. NoneElse' /\ \A x : Seen(x) => Seen(x)'
  BY <1>4, <1>6, <1>7, NoneElseStays DEF Search
<1>11. ASSUME NEW x \in Path, Due(x), Pending(stack, x), stack' = Without(n)
       PROVE  Seen(x)' \/ Pending(stack', x)
  <2>1. CASE ~IsPrefix(p, x)
    BY <1>1, <1>2, <1>11, <2>1, PendingWithout DEF p
  <2>2. CASE IsPrefix(p, x)
    <3>1. IsFile(x) /\ WantedBy(command, x)
      BY <1>11 DEF Due
    <3>2. p = x
      BY <1>1, <1>4, <2>2, <3>1, WayToFile DEF p
    <3>3. Read
      BY <1>2, <1>4, <3>1, <3>2, SkipsMeans DEF WantedBy
    <3>4. Seen(x)'
      BY <1>7, <3>1, <3>2, <3>3, QuietStays DEF Seen
    <3> QED BY <3>4
  <2> QED BY <2>1, <2>2
<1>12. \A x \in Path : Due(x) /\ stage' # "idle" => Seen(x)' \/ Pending(stack, x)'
  <2>1. \A x \in Path : Due(x) /\ stage' # "idle" => Seen(x)' \/ Pending(stack', x)
    BY <1>1, <1>7, <1>10, <1>11 DEF Search, AllFound
  <2> QED BY <2>1 DEF Pending, Leads
<1>13. AllFound'
  BY <1>12, QuietStays DEF AllFound
<1> QED BY <1>9, <1>10, <1>13 DEF Search

\* What the editor touches is no longer due, and what is looked at there may be stale.
LEMMA SearchEdit ==
  ASSUME TypeOK, Search, Edit
  PROVE  Search'
<1>1. /\ SameShape
      /\ \A f \in DOMAIN tree.files \cup DOMAIN tree'.files :
           f \notin touched' => /\ f \in DOMAIN tree.files /\ f \in DOMAIN tree'.files
                                /\ tree'.files[f] = tree.files[f]
  BY EditTypes, TypeFacts
<1>2. /\ command' = command /\ stage' = stage /\ stack' = stack /\ looked' = looked
      /\ touched \subseteq touched'
  BY DEF Edit
<1>3. /\ \A x : Real(x)' = Real(x) /\ Opens(x)' = Opens(x)
      /\ \A x, d : WantedBy(d, x)' = WantedBy(d, x)
  BY <1>1, ShapeStays
<1>4. Frames'
  BY <1>2 DEF Search, Frames, Reached, Excludes
<1>5. ASSUME NEW x, Real(x) \notin touched'
      PROVE  /\ IsFile(x)' = IsFile(x)
             /\ IsFile(x) => tree'.files[Real(x)] = tree.files[Real(x)]
  <2>1. Real(x) \in DOMAIN tree.files <=> Real(x) \in DOMAIN tree'.files
    BY <1>1, <1>5
  <2>2. Real(x) \in DOMAIN tree.files => tree'.files[Real(x)] = tree.files[Real(x)]
    BY <1>1, <1>5
  <2> QED BY <1>3, <2>1, <2>2 DEF IsFile
<1>6. AllFound'
  <2>1. \A x \in Path : WantedBy(command, x) /\ IsFile(x)' /\ Real(x) \notin touched' =>
                          Due(x) /\ tree'.files[Real(x)] = tree.files[Real(x)]
    BY <1>2, <1>5 DEF Due
  <2>2. \A x \in Path : Due(x)' => Due(x) /\ tree'.files[Real(x)] = tree.files[Real(x)]
    BY <1>2, <1>3, <2>1 DEF Due
  <2>3. \A x \in Path : Pending(stack, x)' <=> Pending(stack, x)
    BY <1>2 DEF Pending, Leads
  <2>4. ASSUME stage \in {"walk", "report"}
        PROVE  \A x \in Path : Due(x)' => Seen(x)' \/ Pending(stack, x)'
    BY <1>2, <1>3, <2>2, <2>3, <2>4 DEF Search, AllFound, Seen
  <2> QED BY <1>2, <2>4 DEF AllFound
<1>7. NoneElse'
  <2>1. ASSUME NEW r \in looked
        PROVE  /\ WantedBy(command, r.path)
               /\ \/ Real(r.path) \in touched'
                  \/ IsFile(r.path)' /\ r.content = tree'.files[Real(r.path)]
    BY <1>2, <1>5 DEF Search, NoneElse
  <2> QED BY <1>2, <1>3, <2>1 DEF NoneElse
<1> QED BY <1>4, <1>6, <1>7 DEF Search

LEMMA InitSearch == Init => Search
BY DEF Init, Search, Frames, AllFound, NoneElse

LEMMA NextSearch == Types /\ Search /\ [Next]_vars => Search'
<1> SUFFICES ASSUME Types, Search, [Next]_vars PROVE Search'
  OBVIOUS
<1> TypeOK
  BY DEF Types
<1>1. ASSUME Quiet, stack' = <<>>, looked' = looked, stage' \notin {"walk", "report"}
      PROVE  Search'
  <2>1. NoneElse'
    BY <1>1, NoneElseStays DEF Search
  <2>2. Frames'
    BY <1>1, FramesStay
  <2> QED BY <1>1, <2>1, <2>2 DEF Search, AllFound
<1>2. CASE Step
  <2>1. Quiet
    BY <1>2, StepTypes
  <2>2. CASE LoadConfig
    <3>1. stack' = <<>> /\ looked' = looked /\ stage' \notin {"walk", "report"}
      BY <2>2, StackEmpty DEF LoadConfig, Ends
    <3> QED BY <1>1, <2>1, <3>1
  <2>3. CASE Report
    <3>1. stack' = <<>> /\ looked' = looked /\ stage' \notin {"walk", "report"}
      BY <2>3 DEF Report, Ends
    <3> QED BY <1>1, <2>1, <3>1
  <2>4. CASE TargetIsFile \/ TargetIsDirectory
    BY <2>1, <2>4, SearchTarget
  <2>5. CASE Return
    BY <2>1, <2>5, SearchReturn
  <2>6. ASSUME NEW n \in Name, VisitDirectory(n) \/ VisitFile(n) PROVE Search'
    BY <2>1, <2>6, SearchDirectory, SearchFile
  <2> QED BY <1>2, <2>2, <2>3, <2>4, <2>5, <2>6 DEF Step
<1>3. ASSUME NEW c \in Commands, Begin(c) PROVE Search'
  <2>1. looked' = {} /\ stack' = <<>> /\ stage' \notin {"walk", "report"}
    BY <1>3, StackEmpty DEF Begin, Ends
  <2> QED BY <2>1 DEF Search, Frames, AllFound, NoneElse
<1>4. CASE Edit
  BY <1>4, SearchEdit
<1>5. CASE UNCHANGED vars
  <2>1. Quiet /\ looked' = looked /\ stack' = stack /\ stage' = stage
    BY <1>5 DEF vars, Quiet, kept
  <2>2. NoneElse' /\ \A x : Seen(x) => Seen(x)'
    BY <2>1, NoneElseStays DEF Search
  <2>3. Frames'
    BY <2>1, FramesStay DEF Search, Frames
  <2>4. \A x \in Path : Pending(stack, x)' <=> Pending(stack, x)
    BY <2>1 DEF Pending, Leads
  <2>5. AllFound'
    BY <2>1, <2>2, <2>4, QuietStays DEF Search, AllFound
  <2> QED BY <2>2, <2>3, <2>5 DEF Search
<1> QED BY <1>2, <1>3, <1>4, <1>5 DEF Next

LEMMA WantedIsWantedBy == \A p : Wanted(p) <=> WantedBy(command, p)
BY DEF Wanted, WantedBy, Excludes

\* analyze_directory_full, _main_baseline and audit_directory: a command that comes to
\* its end has looked at each wanted file that was there all the time, and at nothing
\* that is not wanted.
THEOREM SelectedExactly == Spec => []SelectionIsExact
<1>1. Init => Types /\ Search
  BY InitTypes, InitSearch
<1>2. Types /\ Search /\ [Next]_vars => (Types /\ Search)'
  BY NextTypes, NextSearch
<1>3. Types /\ Search => SelectionIsExact
  <2> SUFFICES ASSUME Types, Search, stage = "report"
               PROVE  /\ \A f \in DOMAIN tree.files \ touched :
                           Wanted(f) => [path |-> f, content |-> tree.files[f]] \in looked
                      /\ \A r \in looked : Wanted(r.path)
    BY DEF SelectionIsExact
  <2> TypeOK
    BY DEF Types
  <2>1. \A r \in looked : Wanted(r.path)
    BY WantedIsWantedBy DEF Search, NoneElse
  <2>2. ASSUME NEW f \in DOMAIN tree.files \ touched, Wanted(f)
        PROVE  [path |-> f, content |-> tree.files[f]] \in looked
    <3>1. f \in Path /\ Real(f) = f /\ Locate(tree.links, f).hops = 0 /\ MaxLinks \in Nat
      BY TypeFacts, TreeFacts, RealOfNode DEF Nodes
    <3>2. IsFile(f)
      BY <3>1 DEF IsFile, Opens
    <3>3. Due(f)
      BY <2>2, <3>1, <3>2, WantedIsWantedBy DEF Due
    <3>4. ~Pending(stack, f)
      BY StackEmpty DEF Pending
    <3>5. Seen(f)
      BY <3>1, <3>3, <3>4 DEF Search, AllFound
    <3> QED BY <3>1, <3>5 DEF Seen
  <2> QED BY <2>1, <2>2
<1> QED BY <1>1, <1>2, <1>3, PTL DEF Spec

-----------------------------------------------------------------------------
(***************************************************************************)
(* The commands on one tree                                                *)
(***************************************************************************)
IgnoredBy(c) == Homes(c.target) # {} /\ tree.configs[Home(c.target)].ignore
Found(c, r)  == ~IgnoredBy(c) /\ (r.content = "finding" \/ (r.content = "broad" /\ Asked(c)))
Keys(c, seen) == {Typed(c, r.path) : r \in {q \in seen : Found(c, q)}}

\* What has been recorded is what the commands choose on the tree as it is now; the
\* saved baseline is that of the latest `baseline`; nothing is recorded of a tree
\* that has changed meanwhile.
Recorded == \A i \in 1..Len(last) : last[i].looked = Chosen(last[i].command)
Latest(i) == last[i].command.kind = "baseline"
             /\ \A k \in (i + 1)..Len(last) : last[k].command.kind # "baseline"
LatestIsSaved == \A i \in 1..Len(last) :
                   Latest(i) => saved /\ accepted = Keys(last[i].command, last[i].looked)
Fresh == touched # {} => last = <<>>

\* What BaselineCoversScan says of the run w of a scan, against the baseline of a.
Comparable(a, c) == Covers(a, c) /\ SameSpelling(a, c)
OnlyAsked(a, w) == /\ \A r \in w.new : r.content = "broad" /\ Asked(w.command) /\ ~Asked(a)
                   /\ w.exit = IF w.new = {} THEN "exit 0" ELSE "exit 1"
NothingNew == \A i, j \in 1..Len(last) :
                Against(i, j) /\ Comparable(last[i].command, last[j].command)
                  => OnlyAsked(last[i].command, last[j])
Records == Recorded /\ LatestIsSaved /\ Fresh /\ NothingNew

LEMMA RunFacts ==
  ASSUME last \in Seq(Run)
  PROVE  Len(last) \in Nat /\ \A i \in 1..Len(last) :
                                 last[i] \in Run /\ last[i].command \in Command
<1>1. Len(last) \in Nat /\ \A i \in 1..Len(last) : last[i] \in Run
  BY LenProperties, ElementOfSeq
<1>2. \A r \in Run : r.command \in Command
  BY SelectionAssumption DEF Run
<1> QED BY <1>1, <1>2

\* A command at its end on a tree that has not changed has looked at what it chooses.
LEMMA LookedIsChosen ==
  ASSUME TypeOK, Search, stage = "report", touched = {}
  PROVE  looked = Chosen(command)
<1>1. looked \subseteq Chosen(command)
  BY TypeFacts DEF Search, NoneElse, Chosen
<1>2. ASSUME NEW r \in Chosen(command) PROVE r \in looked
  <2>1. /\ r \in Record /\ WantedBy(command, r.path) /\ IsFile(r.path)
        /\ r.content = tree.files[Real(r.path)]
    BY DEF Chosen
  <2>2. r.path \in Path /\ r = [path |-> r.path, content |-> r.content]
    BY <2>1 DEF Record, PyPath
  <2>3. Due(r.path)
    BY <2>1 DEF Due
  <2>4. ~Pending(stack, r.path)
    BY StackEmpty DEF Pending
  <2>5. Seen(r.path)
    BY <2>2, <2>3, <2>4 DEF Search, AllFound
  <2> QED BY <2>1, <2>2, <2>5 DEF Seen
<1> QED BY <1>1, <1>2

\* Of what a command finds, what a baseline of a command that covers it lacks is only
\* what that one was not asked for.
LEMMA FindingsWithin ==
  ASSUME NEW a \in Command, NEW c \in Command, Comparable(a, c), NEW s, NEW r \in s,
         Found(c, r), Typed(c, r.path) \notin Keys(a, s)
  PROVE  r.content = "broad" /\ Asked(c) /\ ~Asked(a)
<1>1. IgnoredBy(a) <=> IgnoredBy(c)
  BY DEF Comparable, Covers, IgnoredBy, Home
<1>2. Typed(c, r.path) = Typed(a, r.path)
  BY DEF Comparable, SameSpelling, Typed
<1>3. ~Found(a, r)
  BY <1>2 DEF Keys
<1> QED BY <1>1, <1>3 DEF Found

LEMMA FindingsMeans ==
  /\ Findings = {r \in looked : Found(command, r)}
  /\ {Typed(command, r.path) : r \in Findings} = Keys(command, looked)
<1>1. Ignored <=> IgnoredBy(command)
  BY DEF Ignored, IgnoredBy
<1>2. Findings = {r \in looked : Found(command, r)}
  BY <1>1 DEF Findings, Found
<1> QED BY <1>2 DEF Keys

\* The tree is the same, so the commands choose the same.
LEMMA ChoiceStays ==
  ASSUME tree' = tree
  PROVE  /\ \A c : Chosen(c)' = Chosen(c)
         /\ \A c, s : Keys(c, s)' = Keys(c, s)
         /\ \A a, c : Comparable(a, c)' = Comparable(a, c)
         /\ \A a, w : OnlyAsked(a, w)' = OnlyAsked(a, w)
<1>1. SameShape
  BY DEF SameShape
<1>2. \A p : Real(p)' = Real(p) /\ Opens(p)' = Opens(p)
  BY <1>1, ShapeStays
<1>3. \A p, c : WantedBy(c, p)' = WantedBy(c, p)
  BY <1>1, ShapeStays
<1>4. \A t : Homes(t)' = Homes(t) /\ Home(t)' = Home(t)
  BY <1>1, ShapeStays
<1>5. \A p : IsFile(p)' = IsFile(p)
  BY <1>2 DEF IsFile
<1>6. \A c : Chosen(c)' = Chosen(c)
  BY <1>2, <1>3, <1>5 DEF Chosen
<1>7. \A c : IgnoredBy(c)' = IgnoredBy(c)
  BY <1>4 DEF IgnoredBy
<1>8. \A c : Asked(c)' = Asked(c)
  BY <1>4 DEF Asked
<1>9. \A c, r : Found(c, r)' = Found(c, r)
  BY <1>7, <1>8 DEF Found
<1>10. \A c, s : Keys(c, s)' = Keys(c, s)
  BY <1>9 DEF Keys
<1>11. \A a, c : Comparable(a, c)' = Comparable(a, c)
  BY <1>4 DEF Comparable, Covers, SameSpelling
<1>12. \A a, w : OnlyAsked(a, w)' = OnlyAsked(a, w)
  BY <1>8 DEF OnlyAsked
<1> QED BY <1>6, <1>10, <1>11, <1>12

LEMMA RecordsStay ==
  ASSUME Records, tree' = tree, UNCHANGED <<last, saved, accepted>>,
         touched' # {} => last = <<>>
  PROVE  Records'
<1>1. Recorded'
  BY ChoiceStays DEF Records, Recorded
<1>2. LatestIsSaved'
  <2>1. \A i : Latest(i)' <=> Latest(i)
    BY DEF Latest
  <2> QED BY <2>1, ChoiceStays DEF Records, LatestIsSaved
<1>3. Fresh'
  BY DEF Fresh
<1>4. NothingNew'
  <2>1. \A i, j : Against(i, j)' <=> Against(i, j)
    BY DEF Against
  <2> QED BY <2>1, ChoiceStays DEF Records, NothingNew
<1> QED BY <1>1, <1>2, <1>3, <1>4 DEF Records

LEMMA NothingRecorded ==
  ASSUME last' = <<>>
  PROVE  Records'
BY DEF Records, Recorded, LatestIsSaved, Fresh, NothingNew

\* A command ends on the tree it began on.
LEMMA RecordsReport ==
  ASSUME Types, Search, Records, Quiet, Report
  PROVE  Records'
<1> TypeOK /\ last \in Seq(Run)
  BY DEF Types
<1>1. CASE touched # {}
  BY <1>1, NothingRecorded DEF Records, Fresh, Report
<1>2. CASE touched = {}
  <2> DEFINE r == [command |-> command, looked |-> looked, new |-> New, exit |-> exit']
             k == Len(last)
  <2>1. /\ last' = Append(last, r) /\ tree' = tree /\ touched' = {} /\ stage = "report"
        /\ IF command.kind = "baseline"
             THEN saved' = TRUE /\ accepted' = {Typed(command, q.path) : q \in Findings}
             ELSE UNCHANGED <<saved, accepted>>
        /\ exit' = CASE command.kind # "scan"    -> "exit 0"
                     [] command.filter /\ ~saved -> "exit 2"
                     [] New # {}                 -> "exit 1"
                     [] OTHER                    -> "exit 0"
    BY <1>2 DEF Report, Ends, Quiet, kept
  <2>2. /\ r.command = command /\ r.looked = looked /\ r.new = New /\ r.exit = exit'
        /\ command \in Command
    BY TypeFacts
  <2>3. /\ looked = Chosen(command)
        /\ {Typed(command, q.path) : q \in Findings} = Keys(command, looked)
    BY <1>2, <2>1, LookedIsChosen, FindingsMeans
  <2>4. k \in Nat /\ \A i \in 1..k : last[i] \in Run /\ last[i].command \in Command
    BY RunFacts
  <2> HIDE DEF r
  <2>5. Len(last') = k + 1 /\ last'[k + 1] = r /\ \A i \in 1..k : last'[i] = last[i]
    <3> DEFINE e == exit'
    <3>1. e \in {"exit 0", "exit 1", "exit 2"}
      BY <2>1
    <3> HIDE DEF e
    <3>2. r \in Run
      BY <3>1, TypeFacts, FindingsType DEF Run, r, e
    <3>3. last' = Append(last, r)
      BY <2>1
    <3> QED BY <3>2, <3>3, AppendProperties
  <2> HIDE DEF k
  <2>6. \A i \in 1..(k + 1) : i \in 1..k \/ i = k + 1
    BY <2>4
  <2>7. Recorded'
    <3>1. \A i \in 1..(k + 1) : last'[i].looked = Chosen(last'[i].command)
      BY <2>2, <2>3, <2>5, <2>6 DEF Records, Recorded, k
    <3> QED BY <2>1, <2>5, <3>1, ChoiceStays DEF Recorded
  <2> DEFINE Later(i) == /\ last'[i].command.kind = "baseline"
                         /\ \A j \in (i + 1)..(k + 1) : last'[j].command.kind # "baseline"
  <2>8. ASSUME NEW i \in 1..k, \A j \in (i + 1)..k : last'[j].command.kind # "baseline",
               last'[i].command.kind = "baseline"
        PROVE  saved /\ accepted = Keys(last[i].command, last[i].looked)
    <3>1. \A j \in (i + 1)..k : j \in 1..k
      BY <2>4
    <3>2. Latest(i)
      BY <2>5, <2>8, <3>1 DEF Latest, k
    <3> QED BY <3>2 DEF Records, LatestIsSaved, k
  <2>9. LatestIsSaved'
    <3>1. ASSUME NEW i \in 1..(k + 1), Later(i)
          PROVE  saved' /\ accepted' = Keys(last'[i].command, last'[i].looked)
      <4>1. CASE i = k + 1
        BY <2>1, <2>2, <2>3, <2>5, <3>1, <4>1
      <4>2. CASE i \in 1..k
        <5>1. k + 1 \in (i + 1)..(k + 1)
          BY <2>4, <4>2
        <5>2. command.kind # "baseline"
          BY <2>2, <2>5, <3>1, <5>1
        <5>3. \A j \in (i + 1)..k : j \in (i + 1)..(k + 1)
          BY <2>4, <4>2
        <5>4. saved /\ accepted = Keys(last[i].command, last[i].looked)
          BY <2>8, <3>1, <4>2, <5>3
        <5> QED BY <2>1, <2>5, <4>2, <5>2, <5>4
      <4> QED BY <2>6, <4>1, <4>2
    <3>2. \A i \in 1..(k + 1) : Latest(i)' <=> Later(i)
      BY <2>5 DEF Latest
    <3>3. \A i \in 1..Len(last') :
            Latest(i)' => saved' /\ accepted' = Keys(last[i].command, last[i].looked)'
      <4> SUFFICES ASSUME NEW i \in 1..Len(last'), Latest(i)'
                   PROVE  saved' /\ accepted' = Keys(last[i].command, last[i].looked)'
        OBVIOUS
      <4>1. Keys(last[i].command, last[i].looked)' = Keys(last'[i].command, last'[i].looked)
        BY <2>1, ChoiceStays
      <4> QED BY <2>5, <3>1, <3>2, <4>1
    <3> QED BY <3>3 DEF LatestIsSaved
  <2>10. Fresh'
    BY <2>1 DEF Fresh
  <2>11. NothingNew'
    <3>1. ASSUME NEW i \in 1..(k + 1), NEW j \in 1..(k + 1), i < j,
                 last'[i].command.kind = "baseline",
                 last'[j].command.kind = "scan", last'[j].command.filter,
                 \A m \in (i + 1)..j : last'[m].command.kind # "baseline",
                 Comparable(last'[i].command, last'[j].command)
          PROVE  OnlyAsked(last'[i].command, last'[j])
      <4>1. i \in 1..k /\ \A m \in (i + 1)..j : m \in 1..(k + 1)
        BY <2>4, <3>1
      <4>2. CASE j \in 1..k
        <5>1. last'[i] = last[i] /\ last'[j] = last[j]
          BY <2>5, <4>1, <4>2
        <5>2. \A m \in (i + 1)..j : last'[m] = last[m]
          BY <2>4, <2>5, <4>1, <4>2
        <5>3. OnlyAsked(last[i].command, last[j])
          BY <3>1, <4>1, <4>2, <5>1, <5>2 DEF Records, NothingNew, Against, k
        <5> QED BY <5>1, <5>3
      <4>3. CASE j = k + 1
        <5>1. last'[j] = r /\ last'[i] = last[i] /\ command.kind = "scan" /\ command.filter
          BY <2>2, <2>5, <3>1, <4>1, <4>3
        <5>2. \A m \in (i + 1)..k : m \in (i + 1)..j
          BY <2>4, <4>1, <4>3
        <5>3. saved /\ accepted = Keys(last[i].command, last[i].looked)
          BY <2>8, <3>1, <4>1, <5>2
        <5>4. looked \subseteq last[i].looked
          BY <2>2, <2>3, <2>4, <3>1, <4>1, <5>1, ChosenWithin DEF Records, Recorded, Comparable, k
        <5>5. ASSUME NEW q \in New
              PROVE  q.content = "broad" /\ Asked(command) /\ ~Asked(last[i].command)
          <6>1. /\ q \in looked /\ Found(command, q)
                /\ Typed(command, q.path) \notin Keys(last[i].command, last[i].looked)
            BY <5>1, <5>3, <5>5, FindingsMeans DEF New
          <6>2. q \in last[i].looked /\ Comparable(last[i].command, command)
            BY <2>2, <3>1, <5>1, <5>4, <6>1
          <6> QED BY <2>2, <2>4, <4>1, <6>1, <6>2, FindingsWithin
        <5>6. exit' = IF New = {} THEN "exit 0" ELSE "exit 1"
          BY <2>1, <5>1, <5>3
        <5> QED BY <2>2, <5>1, <5>5, <5>6 DEF OnlyAsked
      <4> QED BY <2>6, <4>2, <4>3
    <3>2. \A i, j \in 1..Len(last') :
            Against(i, j)' /\ Comparable(last[i].command, last[j].command)'
              => OnlyAsked(last[i].command, last[j])'
      <4> SUFFICES ASSUME NEW i \in 1..Len(last'), NEW j \in 1..Len(last'), Against(i, j)',
                          Comparable(last[i].command, last[j].command)'
                   PROVE  OnlyAsked(last[i].command, last[j])'
        OBVIOUS
      <4>1. Comparable(last'[i].command, last'[j].command)
        BY <2>1, ChoiceStays
      <4>2. OnlyAsked(last'[i].command, last'[j])
        BY <2>5, <3>1, <4>1 DEF Against
      <4> QED BY <2>1, <4>2, ChoiceStays
    <3> QED BY <3>2 DEF NothingNew
  <2> QED BY <2>7, <2>9, <2>10, <2>11 DEF Records
<1> QED BY <1>1, <1>2

LEMMA InitRecords == Init => Records
BY DEF Init, Records, Recorded, LatestIsSaved, Fresh, NothingNew

LEMMA NextRecords == Types /\ Search /\ Records /\ [Next]_vars => Records'
<1> SUFFICES ASSUME Types, Search, Records, [Next]_vars PROVE Records'
  OBVIOUS
<1>1. CASE Step
  <2>1. Quiet
    BY <1>1, StepTypes
  <2>2. CASE Report
    BY <2>1, <2>2, RecordsReport
  <2>3. CASE ~Report
    <3>1. UNCHANGED <<last, saved, accepted>>
      BY <1>1, <2>3 DEF Step, LoadConfig, TargetIsFile, TargetIsDirectory, Return,
                        VisitDirectory, VisitFile
    <3>2. tree' = tree /\ touched' = touched
      BY <2>1 DEF Quiet, kept
    <3> QED BY <3>1, <3>2, RecordsStay DEF Records, Fresh
  <2> QED BY <2>2, <2>3
<1>2. ASSUME NEW c \in Commands, Begin(c) PROVE Records'
  BY <1>2, RecordsStay DEF Begin
<1>3. CASE Edit
  BY <1>3, NothingRecorded DEF Edit
<1>4. CASE UNCHANGED vars
  BY <1>4, RecordsStay DEF vars, Records, Fresh
<1> QED BY <1>1, <1>2, <1>3, <1>4 DEF Next

LEMMA AllHold == Spec => [](Types /\ Search /\ Records)
<1>1. Init => Types /\ Search /\ Records
  BY InitTypes, InitSearch, InitRecords
<1>2. Types /\ Search /\ Records /\ [Next]_vars => (Types /\ Search /\ Records)'
  BY NextTypes, NextSearch, NextRecords
<1> QED BY <1>1, <1>2, PTL DEF Spec

\* The three copies of the selection: on one tree, `scan`, `baseline` and `audit` look
\* at the same files, and from a target above at no fewer.
THEOREM CopiesAgree == Spec => []SelectionsAgree
<1>1. Types /\ Records => SelectionsAgree
  <2> SUFFICES ASSUME Types, Records, NEW i \in 1..Len(last), NEW j \in 1..Len(last),
                      Covers(last[i].command, last[j].command)
               PROVE  last[j].looked \subseteq last[i].looked
    BY DEF SelectionsAgree
  <2>1. last[i].command \in Command /\ last[j].command \in Command
    BY RunFacts DEF Types
  <2>2. last[i].looked = Chosen(last[i].command) /\ last[j].looked = Chosen(last[j].command)
    BY DEF Records, Recorded
  <2> QED BY <2>1, <2>2, ChosenWithin
<1> QED BY <1>1, AllHold, PTL

\* _main_baseline, _baseline_keys and the filter of `scan`: on the tree a baseline was
\* created from, a scan of it or of a part of it, named alike, reports nothing but the
\* findings that it was asked for and the baseline was not.
THEOREM ScanAgainstItsBaseline == Spec => []BaselineCoversScan
<1>1. Records => BaselineCoversScan
  BY DEF Records, NothingNew, Comparable, OnlyAsked, BaselineCoversScan
<1> QED BY <1>1, AllHold, PTL
=============================================================================
