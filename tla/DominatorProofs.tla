-------------------------- MODULE DominatorProofs --------------------------
(* What compute_dominators, compute_dominance_frontier and the tree between *)
(* them make of the graph, for every function: proofs about SsaForm.        *)
EXTENDS SsaForm, CfgBuilderProofs

----------------------------------------------------------------------------
(* The finished graph, as far as dominance depends on it.                   *)

Wired ==
  /\ Size \in Nat /\ Ids = 1..Size /\ 1 \in Ids /\ gone \subseteq Ids /\ 1 \notin gone
  /\ \A n \in Ids : Range(sons[n]) \subseteq Ids /\ 1 \notin Range(sons[n])
  /\ \A n \in Ids : Range(fathers[n]) \subseteq Ids /\ fathers[n] \in Seq(Nat)
  /\ \A n, m \in Ids : m \in Range(sons[n]) <=> n \in Range(fathers[m])
  /\ Range(fathers[1]) = {}
  /\ \A n \in gone : Range(fathers[n]) = {}

\* A list holds what it holds at least once.
LEMMA TimesRange ==
  ASSUME NEW s \in Seq(Nat), NEW x
  PROVE  Times(s, x) # 0 <=> x \in Range(s)
<1> DEFINE at == {i \in DOMAIN s : s[i] = x}
<1>1. IsFiniteSet(at)
  <2>1. IsFiniteSet(1..Len(s))
    BY FS_Interval, 0 \in Int, 1 \in Int, Len(s) \in Int
  <2>2. at \in SUBSET (1..Len(s))
    OBVIOUS
  <2> QED BY <2>1, <2>2, FS_Subset
<1>2. Cardinality(at) = 0 <=> at = {}
  BY <1>1, FS_EmptySet
<1>3. at # {} <=> x \in Range(s)
  BY DEF Range
<1> QED BY <1>2, <1>3 DEF Times

\* The graph that is built is one the algorithms can be given.
LEMMA BuiltWired == ASSUME GraphIInv PROVE Wired
<1>1. /\ Size \in Nat /\ Size > 0 /\ Ids = 1..Size
      /\ \A n \in Ids : /\ sons[n] \in Seq(Nat) /\ Range(sons[n]) \subseteq Ids
                        /\ fathers[n] \in Seq(Nat) /\ Range(fathers[n]) \subseteq Ids
  BY NodesOfGraph DEF GraphIInv
<1>2. Graph.type = type /\ Graph.sons = sons /\ Graph.fathers = fathers /\ 1 \in Ids
  BY <1>1 DEF Graph
<1>3. \A n, m \in Ids : Times(sons[n], m) = Times(fathers[m], n)
  BY <1>2 DEF GraphIInv, Sound, Mirrors, Ids
<1>4. ASSUME NEW n \in Ids, NEW m \in Ids PROVE m \in Range(sons[n]) <=> n \in Range(fathers[m])
  BY <1>1, <1>3, TimesRange
<1>5. \A n \in Ids : 1 \notin Range(sons[n]) /\ (type[n] = "ENTRYPOINT" <=> n = 1)
  BY <1>2 DEF GraphIInv, Sound, EntryFirst, Ids
<1>6. Range(fathers[1]) = {}
  BY <1>1, <1>2, <1>4, <1>5
<1>7. \A n \in gone : n \in Ids /\ type[n] = "ENDIF" /\ fathers[n] = <<>>
  BY DEF GraphIInv
<1>8. 1 \notin gone
  BY <1>5, <1>7
<1>9. Range(<<>>) = {}
  BY DEF Range
<1> QED BY <1>1, <1>2, <1>4, <1>5, <1>6, <1>7, <1>8, <1>9 DEF Wired

----------------------------------------------------------------------------
(* Reachability.                                                            *)

\* The edges from C lead back into C or to n.
ClosedBut(C, n) == \A k \in C : Range(sons[k]) \ {n} \subseteq C

\* A is the least set of nodes with S that is closed but for n.
LeastAround(A, n, S) ==
  /\ A \in SUBSET Ids /\ S \subseteq A /\ ClosedBut(A, n)
  /\ \A C \in SUBSET Ids : S \subseteq C /\ ClosedBut(C, n) => A \subseteq C

\* The nodes are finitely many, and a larger set of them has more.
LEMMA IdsFinite ==
  ASSUME Wired
  PROVE  /\ IsFiniteSet(Ids) /\ Cardinality(Ids) = Size
         /\ \A S \in SUBSET Ids : IsFiniteSet(S) /\ Cardinality(S) \in 0..Size
         /\ \A S, T \in SUBSET Ids : S \subseteq T /\ S # T => Cardinality(S) < Cardinality(T)
<1>1. Size \in Nat /\ Ids = 1..Size /\ 1 \in Ids
  BY DEF Wired
<1>2. IsFiniteSet(1..Size) /\ Cardinality(1..Size) = Size
  BY <1>1, FS_Interval, 1 \in Int, Size \in Int, Size >= 1
<1>3. ASSUME NEW S \in SUBSET Ids PROVE IsFiniteSet(S) /\ Cardinality(S) \in 0..Size
  <2>1. IsFiniteSet(S) /\ Cardinality(S) <= Cardinality(Ids)
    BY <1>1, <1>2, FS_Subset
  <2>2. Cardinality(S) \in Nat
    BY <2>1, FS_CardinalityType
  <2> QED BY <1>1, <1>2, <2>1, <2>2
<1>4. ASSUME NEW S \in SUBSET Ids, NEW T \in SUBSET Ids, S \subseteq T, S # T
      PROVE  Cardinality(S) < Cardinality(T)
  <2>1. Cardinality(S) <= Cardinality(T) /\ Cardinality(S) # Cardinality(T)
    BY <1>3, <1>4, FS_Subset
  <2>2. Cardinality(S) \in 0..Size /\ Cardinality(T) \in 0..Size
    BY <1>3
  <2> QED BY <1>1, <2>1, <2>2
<1> QED BY <1>1, <1>2, <1>3, <1>4

\* The recursive function Around is the least set that is closed: it grows until it
\* is, and never takes in more than it must.
LEMMA AroundLeast ==
  ASSUME Wired, NEW n, NEW S \in SUBSET Ids
  PROVE  LeastAround(Around(n, S), n, S)
<1> DEFINE D == SUBSET Ids
           U(T) == T \cup ((UNION {Range(sons[k]) : k \in T}) \ {n})
           Body(f, T) == IF U(T) = T THEN T ELSE f[U(T)]
           Def(f) == f = [T \in D |-> Body(f, T)]
           Grow == CHOOSE f : Def(f)
           rank == [T \in D |-> Size - Cardinality(T)]
           step == [f \in [D -> D] |-> [T \in D |-> Body(f, T)]]
<1>1. ASSUME NEW T \in D
      PROVE  /\ U(T) \in D /\ T \subseteq U(T)
             /\ U(T) = T => ClosedBut(T, n)
             /\ \A C \in D : T \subseteq C /\ ClosedBut(C, n) => U(T) \subseteq C
  <2>1. \A k \in T : Range(sons[k]) \subseteq Ids
    BY DEF Wired
  <2>2. U(T) \in D /\ T \subseteq U(T)
    BY <2>1
  <2>a. \A x : x \in U(T) <=> x \in T \/ (x # n /\ \E k \in T : x \in Range(sons[k]))
    <3>1. ASSUME NEW x PROVE x \in UNION {Range(sons[k]) : k \in T} <=> \E k \in T : x \in Range(sons[k])
      OBVIOUS
    <3> QED BY <3>1
  <2>b. \A C : ClosedBut(C, n) <=> \A k \in C : \A x \in Range(sons[k]) : x # n => x \in C
    BY DEF ClosedBut
  <2>3. U(T) = T => ClosedBut(T, n)
    <3> HIDE DEF U
    <3> QED BY <2>a, <2>b
  <2>4. ASSUME NEW C \in D, T \subseteq C, ClosedBut(C, n) PROVE U(T) \subseteq C
    <3> HIDE DEF U
    <3> QED BY <2>4, <2>a, <2>b
  <2> QED BY <2>2, <2>3, <2>4
<1>2. Size \in Nat /\ rank \in [D -> 0..Size] /\ {} \in D
  <2>1. ASSUME NEW T \in D PROVE Size - Cardinality(T) \in 0..Size
    <3>1. Cardinality(T) \in 0..Size /\ Size \in Nat
      BY IdsFinite DEF Wired
    <3> QED BY <3>1
  <2> QED BY <2>1 DEF Wired
<1>3. ASSUME NEW T \in D, U(T) # T PROVE rank[U(T)] < rank[T]
  <2>1. Cardinality(T) < Cardinality(U(T))
    <3> HIDE DEF U
    <3> QED BY <1>1, <1>3, IdsFinite
  <2>2. Cardinality(T) \in 0..Size /\ Cardinality(U(T)) \in 0..Size
    <3> HIDE DEF U
    <3> QED BY <1>1, IdsFinite
  <2>3. rank[T] = Size - Cardinality(T) /\ rank[U(T)] = Size - Cardinality(U(T))
    <3> HIDE DEF U
    <3> QED BY <1>1
  <2> HIDE DEF rank, U
  <2> QED BY <1>2, <2>1, <2>2, <2>3
<1> HIDE DEF U
<1>4. step \in [[D -> D] -> [D -> D]]
  BY <1>1
<1>5. \A g, h \in [D -> D] : \A T \in D :
         (\A V \in D : rank[V] < rank[T] => g[V] = h[V]) => step[g][T] = step[h][T]
  BY <1>1, <1>3
<1>6. PICK f \in [D -> D] : f = step[f]
  <2>1. FixedPoint(D, D, step)
    <3> HIDE DEF D, rank, step
    <3> QED BY <1>2, <1>4, <1>5, RankRecursion
  <2> QED BY <2>1 DEF FixedPoint
<1>7. Def(f)
  BY <1>6
<1>8. Def(Grow)
  <2> HIDE DEF Def
  <2> QED BY <1>7
<1>9. \A T \in D : Grow[T] = Body(Grow, T)
  <2> HIDE DEF Grow, Body
  <2> QED BY <1>8
<1> HIDE DEF Grow
<1> DEFINE Z == {T \in D : LeastAround(Grow[T], n, T)}
<1>10. ASSUME NEW T \in D, \A V \in D : rank[V] < rank[T] => V \in Z PROVE T \in Z
  <2>1. CASE U(T) = T
    <3>1. Grow[T] = T /\ ClosedBut(T, n)
      BY <1>1, <1>9, <2>1
    <3> QED BY <3>1 DEF LeastAround
  <2>2. CASE U(T) # T
    <3>1. Grow[T] = Grow[U(T)] /\ U(T) \in D /\ U(T) \in Z
      BY <1>1, <1>3, <1>9, <1>10, <2>2
    <3>2. LeastAround(Grow[U(T)], n, U(T)) /\ T \subseteq U(T)
      BY <1>1, <3>1
    <3>3. \A C \in D : T \subseteq C /\ ClosedBut(C, n) => U(T) \subseteq C
      BY <1>1
    <3>4. LeastAround(Grow[T], n, T)
      BY <3>1, <3>2, <3>3 DEF LeastAround
    <3> QED BY <3>4
  <2> QED BY <2>1, <2>2
<1>11. D \subseteq Z
  <2>1. Inherited(D, rank, Z)
    <3> HIDE DEF D, Z, rank
    <3> QED BY <1>10 DEF Inherited
  <2> HIDE DEF D, Z, rank
  <2> QED BY <1>2, <2>1, ByRank
<1>12. Around(n, S) = Grow[S]
  BY DEF Around, Grow, U
<1> QED BY <1>11, <1>12

\* What the sons are taken from, once _update_reachability has passed.
Begun == Wired /\ reach = Closure({1})

\* The nodes that can be reached without passing n.
Past(n) == Around(n, {1} \ {n})

\* What can be reached is the least set with the entry and the sons of its members.
LEMMA Reaches ==
  ASSUME Begun
  PROVE  /\ reach \in SUBSET Ids /\ 1 \in reach
         /\ \A k \in reach : Range(sons[k]) \subseteq reach
         /\ \A C : 1 \in C /\ (\A k \in C \cap reach : Range(sons[k]) \subseteq C) => reach \subseteq C
<1>1. LeastAround(reach, 0, {1}) /\ 0 \notin Ids
  <2>1. {1} \in SUBSET Ids /\ 0 \notin Ids /\ Wired
    <3>1. Wired /\ 1 \in Ids /\ Size \in Nat /\ Ids = 1..Size
      BY DEF Begun, Wired
    <3> QED BY <3>1
  <2>2. LeastAround(Around(0, {1}), 0, {1})
    BY <2>1, AroundLeast
  <2> QED BY <2>1, <2>2 DEF Begun, Closure
<1>2. ASSUME NEW k \in reach PROVE Range(sons[k]) \subseteq reach
  <2>1. k \in Ids /\ Range(sons[k]) \subseteq Ids /\ Range(sons[k]) \ {0} \subseteq reach
    BY <1>1 DEF LeastAround, ClosedBut, Begun, Wired
  <2> QED BY <1>1, <2>1
<1>3. ASSUME NEW C, 1 \in C, \A k \in C \cap reach : Range(sons[k]) \subseteq C
      PROVE  reach \subseteq C
  <2>1. C \cap reach \in SUBSET Ids /\ {1} \subseteq C \cap reach
    BY <1>1, <1>3 DEF LeastAround
  <2>2. ClosedBut(C \cap reach, 0)
    BY <1>2, <1>3 DEF ClosedBut
  <2>3. reach \subseteq C \cap reach
    BY <1>1, <2>1, <2>2 DEF LeastAround
  <2> QED BY <2>3
<1> QED BY <1>1, <1>2, <1>3 DEF LeastAround

\* Past(n) is the least set with the entry and the sons of its members, but n.
LEMMA Pasts ==
  ASSUME Begun, NEW n
  PROVE  /\ Past(n) \in SUBSET reach /\ n \notin Past(n)
         /\ n # 1 => 1 \in Past(n)
         /\ \A k \in Past(n) : \A m \in Range(sons[k]) : m # n => m \in Past(n)
         /\ \A C : /\ n # 1 => 1 \in C
                   /\ \A k \in C \cap Past(n) : \A m \in Range(sons[k]) : m # n => m \in C
                   => Past(n) \subseteq C
<1>1. LeastAround(Past(n), n, {1} \ {n})
  <2>1. {1} \ {n} \in SUBSET Ids /\ Wired
    BY DEF Begun, Wired
  <2> QED BY <2>1, AroundLeast DEF Past
<1>2. \A k \in Past(n) : \A m \in Range(sons[k]) : m # n => m \in Past(n)
  BY <1>1 DEF LeastAround, ClosedBut
<1>3. ASSUME NEW C, n # 1 => 1 \in C,
             \A k \in C \cap Past(n) : \A m \in Range(sons[k]) : m # n => m \in C
      PROVE  Past(n) \subseteq C
  <2>1. C \cap Past(n) \in SUBSET Ids /\ {1} \ {n} \subseteq C \cap Past(n)
    BY <1>1, <1>3 DEF LeastAround
  <2>2. ClosedBut(C \cap Past(n), n)
    BY <1>2, <1>3 DEF ClosedBut
  <2>3. Past(n) \subseteq C \cap Past(n)
    BY <1>1, <2>1, <2>2 DEF LeastAround
  <2> QED BY <2>3
<1>4. Past(n) \subseteq reach
  BY <1>3, Reaches
<1>5. n \notin Past(n)
  <2>1. Past(n) \subseteq Past(n) \ {n}
    <3>1. n # 1 => 1 \in Past(n) \ {n}
      BY <1>1 DEF LeastAround
    <3>2. \A k \in Past(n) \ {n} : \A m \in Range(sons[k]) : m # n => m \in Past(n) \ {n}
      BY <1>2
    <3> QED BY <1>3, <3>1, <3>2
  <2> QED BY <2>1
<1> QED BY <1>1, <1>2, <1>3, <1>4, <1>5 DEF LeastAround

\* A node other than the entry is reached from a father other than itself; a
\* removed ENDIF is not reached.
LEMMA Reached ==
  ASSUME Begun
  PROVE  /\ \A m \in reach : m # 1 => \E f \in LiveFathers(m) : f # m
         /\ \A m \in Ids \ reach : LiveFathers(m) = {}
         /\ LiveFathers(1) = {} /\ reach \cap gone = {}
         /\ \A m \in Ids : \A f : f \in LiveFathers(m) <=> f \in reach /\ m \in Range(sons[f])
<1>1. /\ reach \in SUBSET Ids /\ 1 \in reach
      /\ \A k \in reach : Range(sons[k]) \subseteq reach
      /\ \A C : 1 \in C /\ (\A k \in C \cap reach : Range(sons[k]) \subseteq C) => reach \subseteq C
  BY Reaches
<1>2. \A m \in Ids : \A f : f \in LiveFathers(m) <=> f \in reach /\ m \in Range(sons[f])
  BY <1>1 DEF Begun, Wired, LiveFathers
<1>3. ASSUME NEW m \in reach, m # 1, \A f \in LiveFathers(m) : f = m PROVE FALSE
  <2>1. 1 \in reach \ {m}
    BY <1>1, <1>3
  <2>2. \A k \in reach \ {m} : Range(sons[k]) \subseteq reach \ {m}
    BY <1>1, <1>2, <1>3
  <2>3. reach \subseteq reach \ {m}
    BY <1>1, <2>1, <2>2
  <2> QED BY <2>3
<1>4. LiveFathers(1) = {} /\ \A m \in gone : LiveFathers(m) = {} /\ m # 1
  BY DEF Begun, Wired, LiveFathers
<1>5. \A m \in Ids \ reach : LiveFathers(m) = {}
  BY <1>1, <1>2
<1> QED BY <1>2, <1>3, <1>4, <1>5

----------------------------------------------------------------------------
(* Dominance by its meaning: n dominates m if m can be reached, but not past *)
(* n.                                                                       *)

\* Dominance is transitive,
LEMMA DominanceTransitive ==
  ASSUME Begun, NEW a, NEW b \in reach, NEW m \in reach, b \notin Past(a), m \notin Past(b)
  PROVE  m \notin Past(a)
<1>1. ASSUME a # 1 PROVE 1 \in Past(b)
  BY <1>1, Pasts
<1>2. \A k \in Past(b) \cap Past(a) : \A j \in Range(sons[k]) : j # a => j \in Past(b)
  BY Pasts
<1>3. Past(a) \subseteq Past(b)
  BY <1>1, <1>2, Pasts
<1> QED BY <1>3

\* the dominators of a node are ordered by it,
LEMMA DominanceChain ==
  ASSUME Begun, NEW a \in reach, NEW b \in reach, NEW m \in reach, m \notin Past(a), m \notin Past(b)
  PROVE  b \notin Past(a) \/ a \notin Past(b)
<1> SUFFICES ASSUME b \in Past(a), a \in Past(b) PROVE FALSE
  OBVIOUS
<1>1. a # b
  BY Pasts
<1>2. 1 \in Past(a) \cup Past(b)
  BY <1>1, Pasts
<1>3. \A k \in Past(a) \cup Past(b) : Range(sons[k]) \subseteq Past(a) \cup Past(b)
  BY Pasts
<1>4. reach \subseteq Past(a) \cup Past(b)
  BY <1>2, <1>3, Reaches
<1> QED BY <1>4

\* and no two nodes dominate each other.
LEMMA DominanceAntisymmetric ==
  ASSUME Begun, NEW a \in reach, NEW b \in reach, b \notin Past(a), a \notin Past(b)
  PROVE  a = b
<1> SUFFICES ASSUME a # b PROVE FALSE
  OBVIOUS
<1>1. Past(a) = Past(b)
  <2>1. \A m \in reach : m \notin Past(b) => m \notin Past(a)
    BY DominanceTransitive
  <2>2. \A m \in reach : m \notin Past(a) => m \notin Past(b)
    BY DominanceTransitive
  <2>3. Past(a) \subseteq reach /\ Past(b) \subseteq reach
    BY Pasts
  <2> QED BY <2>1, <2>2, <2>3
<1>2. 1 \in Past(a)
  BY <1>1, Pasts
<1>3. \A k \in Past(a) : Range(sons[k]) \subseteq Past(a)
  BY <1>1, Pasts
<1>4. reach \subseteq Past(a)
  BY <1>2, <1>3, Reaches
<1> QED BY <1>4

\* A node is dominated by what dominates all its fathers that can be reached.
LEMMA DominanceByFathers ==
  ASSUME Begun, NEW m \in reach, m # 1, NEW n, n # m
  PROVE  m \notin Past(n) <=> \A f \in LiveFathers(m) : f \notin Past(n)
<1>1. ASSUME m \notin Past(n), NEW f \in LiveFathers(m) PROVE f \notin Past(n)
  <2>1. m \in Range(sons[f])
    BY Reached, Reaches
  <2> QED BY <1>1, <2>1, Pasts
<1>2. ASSUME \A f \in LiveFathers(m) : f \notin Past(n) PROVE m \notin Past(n)
  <2>1. \A k \in Past(n) : k \in reach /\ m \notin Range(sons[k])
    BY <1>2, Reached, Reaches, Pasts
  <2>2. n # 1 => 1 \in Past(n) \ {m}
    BY Pasts
  <2>3. \A k \in Past(n) \ {m} : \A j \in Range(sons[k]) : j # n => j \in Past(n) \ {m}
    BY <2>1, Pasts
  <2>4. Past(n) \subseteq Past(n) \ {m}
    BY <2>2, <2>3, Pasts
  <2> QED BY <2>4
<1> QED BY <1>1, <1>2

----------------------------------------------------------------------------
(* The sweeps.                                                              *)

\* Dominators d that miss none.
NoneMissed(d) == \A m, n \in reach : m \notin Past(n) => n \in d[m]

Approximations == {d \in [Ids -> SUBSET Nodes] : NoneMissed(d)}

\* The meet is over the fathers that can be reached, and nothing if there are none.
LEMMA MeetIs ==
  ASSUME Begun, NEW d \in [Ids -> SUBSET Nodes], NEW n \in Ids
  PROVE  /\ Meet(d, n) \in SUBSET Nodes
         /\ \A x : x \in Meet(d, n) <=> LiveFathers(n) # {} /\ \A f \in LiveFathers(n) : x \in d[f]
<1>1. LiveFathers(n) \subseteq Range(fathers[n]) /\ Range(fathers[n]) \subseteq Ids
  BY DEF LiveFathers, Begun, Wired
<1>2. ASSUME NEW x PROVE x \in Meet(d, n) <=> LiveFathers(n) # {} /\ \A f \in LiveFathers(n) : x \in d[f]
  <2>1. CASE LiveFathers(n) = {}
    BY <2>1 DEF Meet
  <2>2. CASE LiveFathers(n) # {}
    <3>1. ASSUME \A f \in LiveFathers(n) : x \in d[f] PROVE x \in UNION {d[f] : f \in Range(fathers[n])}
      <4>1. PICK f \in Range(fathers[n]) : x \in d[f]
        BY <1>1, <2>2, <3>1
      <4> QED BY <4>1
    <3> QED BY <2>2, <3>1 DEF Meet
  <2> QED BY <2>1, <2>2
<1>3. \A f \in LiveFathers(n) : d[f] \subseteq Nodes
  BY <1>1
<1> HIDE DEF Approximations
<1> QED BY <1>2, <1>3

\* No turn of a sweep takes a dominator away.
LEMMA SweepNodeKeeps ==
  ASSUME Begun, NEW d \in Approximations, NEW k \in Ids
  PROVE  SweepNode(d, k) \in Approximations
<1>1. d \in [Ids -> SUBSET Nodes] /\ NoneMissed(d)
  BY DEF Approximations
<1>2. CASE k \in gone
  BY <1>2 DEF SweepNode
<1>3. CASE k \notin gone
  <2> DEFINE e == [d EXCEPT ![k] = Meet(d, k) \cup {k}]
  <2>1. Meet(d, k) \in SUBSET Nodes /\ k \in Nodes
    BY <1>1, <1>3, MeetIs DEF Nodes
  <2>2. e \in [Ids -> SUBSET Nodes] /\ e[k] = Meet(d, k) \cup {k} /\ \A m \in Ids \ {k} : e[m] = d[m]
    BY <1>1, <2>1
  <2>3. ASSUME NEW m \in reach, NEW n \in reach, m \notin Past(n) PROVE n \in e[m]
    <3>1. m \in Ids
      BY Reaches
    <3>2. CASE m # k
      BY <1>1, <2>2, <2>3, <3>1, <3>2 DEF NoneMissed
    <3>3. CASE m = k /\ n = k
      BY <2>2, <3>3
    <3>4. CASE m = k /\ n # k
      <4>1. m # 1
        BY <2>3, <3>4, Pasts
      <4>2. \A f \in LiveFathers(m) : f \notin Past(n) /\ f \in reach
        BY <2>3, <3>4, <4>1, DominanceByFathers DEF LiveFathers
      <4>3. \A f \in LiveFathers(m) : n \in d[f]
        BY <1>1, <4>2 DEF NoneMissed
      <4>4. LiveFathers(m) # {}
        BY <4>1, Reached
      <4>5. n \in Meet(d, m)
        BY <1>1, <3>1, <4>3, <4>4, MeetIs
      <4> QED BY <2>2, <3>4, <4>5
    <3> QED BY <3>2, <3>3, <3>4
  <2> HIDE DEF e
  <2>4. e \in Approximations
    BY <2>2, <2>3 DEF Approximations, NoneMissed
  <2> QED BY <1>3, <2>4 DEF SweepNode, e
<1> QED BY <1>2, <1>3

\* What a pass of intersection_predecessor over the nodes leaves, when it
\* changes nothing.
Settled(d) == \A k \in Ids : SweepNode(d, k) = d

\* It changes the dominators of its node only.
LEMMA SweepElsewhere ==
  ASSUME NEW d \in [Ids -> SUBSET Nodes], NEW k, NEW j \in Ids, j # k
  PROVE  SweepNode(d, k)[j] = d[j]
BY DEF SweepNode

\* So no sweep does; and a sweep that changes nothing changed nothing on its way.
LEMMA SweepKeeps ==
  ASSUME Begun, dom \in Approximations, Sweep
  PROVE  dom' \in Approximations /\ (dom' = dom => Settled(dom))
<1> DEFINE step == [p \in (1..Size) \X Approximations |-> SweepNode(p[2], p[1])]
           Value(f, k) == IF k = 0 THEN dom ELSE SweepNode(f[k - 1], k)
           Def(f) == f = [k \in 0..Size |-> Value(f, k)]
           Swept == CHOOSE f : Def(f)
<1>1. Size \in Nat /\ Ids = 1..Size
  BY DEF Begun, Wired
<1>2. step \in [(1..Size) \X Approximations -> Approximations]
  BY <1>1, SweepNodeKeeps
<1>3. PICK f \in [0..Size -> Approximations] : f[0] = dom /\ \A k \in 1..Size : f[k] = step[<<k, f[k - 1]>>]
  <2> HIDE DEF step
  <2>1. Iterated(Size, Approximations, dom, step)
    BY <1>1, <1>2, Recursion
  <2> QED BY <2>1 DEF Iterated
<1>4. ASSUME NEW k \in 0..Size PROVE f[k] = Value(f, k)
  <2>1. CASE k = 0
    BY <1>3, <2>1
  <2>2. CASE k # 0
    <3>1. k \in 1..Size /\ k - 1 \in 0..Size
      BY <1>1, <2>2
    <3>2. f[k - 1] \in Approximations
      BY <3>1
    <3>3. f[k] = step[<<k, f[k - 1]>>]
      BY <1>3, <3>1
    <3> QED BY <2>2, <3>1, <3>2, <3>3
  <2> QED BY <2>1, <2>2
<1>5. Def(f)
  <2> HIDE DEF Value
  <2> QED BY <1>4
<1>6. Def(Swept)
  <2> HIDE DEF Def
  <2> QED BY <1>5
<1>7. \A k \in 0..Size : Swept[k] = Value(Swept, k)
  <2> HIDE DEF Swept, Value
  <2> QED BY <1>6
<1>8. dom' = Swept[Size]
  BY DEF Sweep
<1> HIDE DEF Swept
<1>9. ASSUME NEW k \in 1..Size PROVE k - 1 \in 0..Size /\ Swept[k] = SweepNode(Swept[k - 1], k)
  <2>1. k # 0 /\ k \in 0..Size /\ k - 1 \in 0..Size
    BY <1>1
  <2> QED BY <1>7, <2>1
<1>10. Swept[0] = dom
  BY <1>1, <1>7
<1> DEFINE S == {k \in 0..Size : Swept[k] \in Approximations}
           After == {k \in 0..Size : \A j \in 1..Size : j > k => Swept[k][j] = dom[j]}
           Before == {k \in 0..Size : \A j \in 1..Size : j <= k => Swept[k][j] = Swept[j][j]}
<1>11. 0..Size \subseteq S
  <2>1. 0 \in S
    BY <1>1, <1>10
  <2>2. ASSUME NEW k \in 1..Size, k - 1 \in S PROVE k \in S
    BY <1>1, <1>9, <2>2, SweepNodeKeeps
  <2> HIDE DEF S
  <2> QED BY <1>1, <2>1, <2>2, UpTo
<1>12. \A k \in 0..Size : Swept[k] \in Approximations /\ Swept[k] \in [Ids -> SUBSET Nodes]
  BY <1>11 DEF Approximations
<1>13. ASSUME NEW k \in 1..Size, NEW j \in 1..Size, j # k PROVE Swept[k][j] = Swept[k - 1][j]
  <2>1. k - 1 \in 0..Size /\ Swept[k] = SweepNode(Swept[k - 1], k)
    BY <1>9
  <2>2. Swept[k - 1] \in [Ids -> SUBSET Nodes] /\ j \in Ids
    BY <1>1, <1>12, <2>1
  <2>3. SweepNode(Swept[k - 1], k)[j] = Swept[k - 1][j]
    BY <1>13, <2>2, SweepElsewhere
  <2> QED BY <2>1, <2>3
<1>14. 0..Size \subseteq After
  <2>1. 0 \in After
    BY <1>1, <1>10
  <2>2. ASSUME NEW k \in 1..Size, k - 1 \in After PROVE k \in After
    <3> SUFFICES ASSUME NEW j \in 1..Size, j > k PROVE Swept[k][j] = dom[j]
      BY <1>1
    <3>1. j # k /\ j > k - 1
      BY <1>1
    <3> QED BY <1>13, <2>2, <3>1
  <2> HIDE DEF After
  <2> QED BY <1>1, <2>1, <2>2, UpTo
<1>15. 0..Size \subseteq Before
  <2>1. 0 \in Before
    BY <1>1
  <2>2. ASSUME NEW k \in 1..Size, k - 1 \in Before PROVE k \in Before
    <3> SUFFICES ASSUME NEW j \in 1..Size, j <= k, j # k PROVE Swept[k][j] = Swept[j][j]
      BY <1>1
    <3>1. j <= k - 1
      BY <1>1
    <3> QED BY <1>13, <2>2, <3>1
  <2> HIDE DEF Before
  <2> QED BY <1>1, <2>1, <2>2, UpTo
<1>16. ASSUME dom' = dom, NEW k \in 0..Size PROVE Swept[k] = dom
  <2>1. ASSUME NEW j \in 1..Size PROVE Swept[k][j] = dom[j]
    <3>1. CASE j > k
      BY <1>14, <3>1
    <3>2. CASE ~(j > k)
      <4>1. j <= k /\ j <= Size /\ Size \in 0..Size
        BY <1>1, <3>2
      <4>2. Swept[k][j] = Swept[j][j] /\ Swept[Size][j] = Swept[j][j]
        BY <1>15, <4>1
      <4> QED BY <1>8, <1>16, <4>2
    <3> QED BY <3>1, <3>2
  <2>2. Swept[k] \in [Ids -> SUBSET Nodes] /\ dom \in [Ids -> SUBSET Nodes]
    BY <1>12 DEF Approximations
  <2> QED BY <1>1, <2>1, <2>2
<1>17. ASSUME dom' = dom PROVE Settled(dom)
  <2> SUFFICES ASSUME NEW k \in 1..Size PROVE SweepNode(dom, k) = dom
    BY <1>1 DEF Settled
  <2>1. k \in 0..Size /\ k - 1 \in 0..Size /\ Swept[k] = SweepNode(Swept[k - 1], k)
    BY <1>1, <1>9
  <2> QED BY <1>16, <1>17, <2>1
<1>18. Size \in 0..Size
  BY <1>1
<1> QED BY <1>8, <1>12, <1>17, <1>18

\* The dominators are what the word means; an unreachable node has itself only.
DominatorsRight ==
  /\ dom \in [Ids -> SUBSET Nodes]
  /\ \A m \in Nodes \ reach : dom[m] = {m}
  /\ \A m \in reach : \A n : n \in dom[m] <=> n \in reach /\ m \notin Past(n)

\* A fix point that has all dominators has no other: what it has besides would lead
\* from father to father and never to the entry.
LEMMA SettledIsRight ==
  ASSUME Begun, dom \in Approximations, Settled(dom)
  PROVE  DominatorsRight
<1>1. dom \in [Ids -> SUBSET Nodes] /\ NoneMissed(dom) /\ Nodes \subseteq Ids /\ reach \subseteq Nodes
  BY Reaches, Reached DEF Approximations, Nodes
<1>2. ASSUME NEW m \in Nodes PROVE dom[m] = Meet(dom, m) \cup {m}
  <2>1. m \in Ids /\ m \notin gone
    BY DEF Nodes
  <2>2. [dom EXCEPT ![m] = Meet(dom, m) \cup {m}] = dom
    BY <2>1 DEF Settled, SweepNode
  <2> QED BY <1>1, <2>1, <2>2
<1>3. ASSUME NEW m \in Nodes \ reach PROVE dom[m] = {m}
  <2>1. LiveFathers(m) = {}
    BY <1>1, Reached
  <2> QED BY <1>2, <2>1 DEF Meet
<1>4. ASSUME NEW n, NEW m \in reach, n \in dom[m] PROVE m \notin Past(n)
  <2> DEFINE C == {k \in reach : n \notin dom[k]}
  <2>1. ASSUME n # 1 PROVE 1 \in C
    <3>1. dom[1] = {1} /\ 1 \in reach
      BY <1>1, <1>2, Reached, Reaches DEF Meet
    <3> QED BY <2>1, <3>1
  <2>2. ASSUME NEW k \in C, NEW j \in Range(sons[k]), j # n PROVE j \in C
    <3>1. j \in reach /\ k \in LiveFathers(j) /\ j \in Ids
      BY Reaches, Reached
    <3>2. n \notin Meet(dom, j)
      BY <1>1, <3>1, MeetIs
    <3>3. dom[j] = Meet(dom, j) \cup {j}
      BY <1>1, <1>2, <3>1
    <3> QED BY <2>2, <3>1, <3>2, <3>3
  <2>3. Past(n) \subseteq C
    <3> HIDE DEF C
    <3> QED BY <2>1, <2>2, Pasts
  <2> QED BY <1>4, <2>3
<1>5. ASSUME NEW n, n \notin reach PROVE reach \subseteq Past(n)
  <2>1. n # 1
    BY <1>5, Reaches
  <2>2. 1 \in Past(n)
    BY <2>1, Pasts
  <2>3. \A k \in Past(n) \cap reach : Range(sons[k]) \subseteq Past(n)
    BY <1>5, Pasts, Reaches
  <2> QED BY <2>2, <2>3, Reaches
<1>6. \A m \in reach : \A n : n \in dom[m] <=> n \in reach /\ m \notin Past(n)
  BY <1>1, <1>4, <1>5 DEF NoneMissed
<1> QED BY <1>1, <1>3, <1>6 DEF DominatorsRight

----------------------------------------------------------------------------
(* The tree.                                                                *)

\* What is used of dominance from here on.
Ordered ==
  /\ reach \subseteq Nodes /\ 1 \in reach /\ dom[1] = {1}
  /\ \A m \in reach : dom[m] \subseteq reach /\ m \in dom[m] /\ 1 \in dom[m]
  /\ \A m \in reach : \A b \in dom[m] : dom[b] \subseteq dom[m]
  /\ \A a, b \in reach : a \in dom[b] /\ b \in dom[a] => a = b
  /\ \A m \in reach : \A a, b \in dom[m] : a \in dom[b] \/ b \in dom[a]
  /\ \A m \in reach : m # 1 => \A n \in reach : n # m =>
                        (n \in dom[m] <=> \A f \in LiveFathers(m) : n \in dom[f])

\* The dominators of a node form a chain in which each has those before it.
LEMMA DominatorsOrdered == ASSUME Begun, DominatorsRight PROVE Ordered
<1>1. \A m \in reach : \A n : n \in dom[m] <=> n \in reach /\ m \notin Past(n)
  BY DEF DominatorsRight
<1>2. reach \subseteq Nodes /\ 1 \in reach
  BY Reaches, Reached DEF Nodes
<1>3. Past(1) = {}
  <2> DEFINE none == {}
  <2>1. 1 # 1 => 1 \in none
    OBVIOUS
  <2>2. \A k \in none \cap Past(1) : \A m \in Range(sons[k]) : m # 1 => m \in none
    OBVIOUS
  <2> HIDE DEF none
  <2>3. Past(1) \subseteq none
    BY <2>1, <2>2, Pasts
  <2> QED BY <2>3 DEF none
<1>4. \A m \in reach : dom[m] \subseteq reach /\ m \in dom[m] /\ 1 \in dom[m]
  BY <1>1, <1>2, <1>3, Pasts
<1>5. dom[1] = {1}
  <2>1. \A n : n \in dom[1] => n = 1
    BY <1>1, <1>2, Pasts
  <2> QED BY <1>2, <1>4, <2>1
<1>6. ASSUME NEW m \in reach, NEW b \in dom[m], NEW a \in dom[b] PROVE a \in dom[m]
  BY <1>1, <1>4, DominanceTransitive
<1>7. \A a, b \in reach : a \in dom[b] /\ b \in dom[a] => a = b
  BY <1>1, DominanceAntisymmetric
<1>8. ASSUME NEW m \in reach, NEW a \in dom[m], NEW b \in dom[m] PROVE a \in dom[b] \/ b \in dom[a]
  BY <1>1, <1>4, DominanceChain
<1>9. ASSUME NEW m \in reach, m # 1, NEW n \in reach, n # m
      PROVE  n \in dom[m] <=> \A f \in LiveFathers(m) : n \in dom[f]
  <2>1. \A f \in LiveFathers(m) : f \in reach
    BY DEF LiveFathers
  <2> QED BY <1>1, <1>9, <2>1, DominanceByFathers
<1> QED BY <1>2, <1>4, <1>5, <1>6, <1>7, <1>8, <1>9 DEF Ordered

\* The strict dominators of n are the dominators of its immediate one.
TreeRight ==
  /\ idom \in [Ids -> {0} \cup reach]
  /\ \A n \in Ids : n \notin reach \/ n = 1 => idom[n] = 0
  /\ \A n \in reach : n # 1 => idom[n] \in dom[n] \ {n} /\ dom[idom[n]] = dom[n] \ {n}

\* The one candidate, for a node that has one.
LEMMA OneCandidate ==
  ASSUME Begun, DominatorsRight, NEW n \in reach, n # 1
  PROVE  \E d \in dom[n] \ {n} : Candidates(n) = {d} /\ dom[d] = dom[n] \ {n}
<1> DEFINE strict == dom[n] \ {n}
           above  == UNION {dom[d] \ {d} : d \in strict}
           size   == [d \in strict |-> Cardinality(dom[d])]
           ranks  == {Size - Cardinality(dom[d]) : d \in strict}
<1>1. Ordered
  BY DominatorsOrdered
<1>2. strict \subseteq reach /\ 1 \in strict /\ n \in dom[n] /\ reach \in SUBSET Ids
  BY <1>1, Reaches DEF Ordered
<1>3. ASSUME NEW d \in strict PROVE n \notin dom[d] /\ dom[d] \subseteq strict
  <2>1. n \notin dom[d]
    BY <1>1, <1>2 DEF Ordered
  <2>2. dom[d] \subseteq dom[n]
    BY <1>1 DEF Ordered
  <2> QED BY <2>1, <2>2
<1>4. \A x : x \in above <=> \E d \in strict : x \in dom[d] /\ x # d
  OBVIOUS
<1>5. above \subseteq strict
  BY <1>3, <1>4
<1>6. ASSUME NEW d \in strict PROVE dom[d] \in SUBSET Ids /\ Cardinality(dom[d]) \in 0..Size
  <2>1. dom[d] \in SUBSET Ids
    BY <1>2, <1>3
  <2> QED BY <2>1, IdsFinite DEF Begun
<1>7. PICK d \in strict : \A e \in strict : ~(Size - Cardinality(dom[e]) < Size - Cardinality(dom[d]))
  <2>1. Size \in Nat
    BY DEF Begun, Wired
  <2>2. \A e \in strict : Size - Cardinality(dom[e]) \in Nat
    BY <1>6, <2>1
  <2>3. ranks \in SUBSET Nat /\ ranks # {}
    BY <1>2, <2>2
  <2> HIDE DEF strict
  <2>4. PICK r \in ranks : \A q \in ranks : ~(q < r)
    <3> HIDE DEF ranks
    <3> QED BY <2>3, Least
  <2> QED BY <2>4
<1>8. d \notin above
  <2> SUFFICES ASSUME NEW e \in strict, d \in dom[e], d # e PROVE FALSE
    BY <1>4
  <2>1. dom[d] \subseteq dom[e] /\ e \notin dom[d] /\ e \in dom[e]
    BY <1>1, <1>2 DEF Ordered
  <2>2. Cardinality(dom[d]) < Cardinality(dom[e])
    BY <1>6, <2>1, IdsFinite DEF Begun
  <2>3. Size \in Nat /\ Cardinality(dom[d]) \in 0..Size /\ Cardinality(dom[e]) \in 0..Size
    BY <1>6 DEF Begun, Wired
  <2> QED BY <1>7, <2>2, <2>3
<1>9. \A x \in strict : x \in dom[d]
  BY <1>1, <1>2, <1>4, <1>8 DEF Ordered
<1>10. dom[d] = strict
  BY <1>3, <1>9
<1>11. strict \ above = {d}
  BY <1>4, <1>8, <1>9
<1>12. Candidates(n) = {d}
  <2>1. CASE Cardinality(strict) = 1
    <3>1. IsFiniteSet(strict)
      BY <1>2, IdsFinite DEF Begun
    <3>2. PICK x : strict = {x}
      BY <2>1, <3>1, FS_Singleton
    <3>3. Candidates(n) = strict
      BY <2>1 DEF Candidates
    <3> QED BY <3>2, <3>3
  <2>2. CASE Cardinality(strict) # 1
    <3>1. Candidates(n) = (above \ strict) \cup (strict \ above)
      BY <2>2 DEF Candidates
    <3> QED BY <1>5, <1>11, <3>1
  <2> QED BY <2>1, <2>2
<1> QED BY <1>10, <1>12

\* The entry and dead code have no immediate dominator.
LEMMA NoCandidate ==
  ASSUME Begun, DominatorsRight, NEW n \in Nodes, n \notin reach \/ n = 1
  PROVE  Candidates(n) = {}
<1>1. dom[n] = {n}
  BY DominatorsOrdered DEF DominatorsRight, Ordered
<1>2. dom[n] \ {n} = {} /\ Cardinality({}) = 0
  BY <1>1, FS_EmptySet
<1> QED BY <1>2 DEF Candidates

\* compute_immediate_dominators sets each node's nearest dominator.
LEMMA BuildTreeKeeps ==
  ASSUME Begun, DominatorsRight, BuildTree
  PROVE  /\ stage' = "frontier" /\ idom' \in [Ids -> {0} \cup reach]
         /\ \A n \in Ids : n \notin reach \/ n = 1 => idom'[n] = 0
         /\ \A n \in reach : n # 1 => idom'[n] \in dom[n] \ {n} /\ dom[idom'[n]] = dom[n] \ {n}
<1>1. /\ reach \in SUBSET Ids /\ reach \subseteq Nodes /\ Nodes = Ids \ gone
      /\ \A n \in reach : dom[n] \subseteq reach
  BY DominatorsOrdered, Reaches DEF Ordered, Nodes
<1>2. \A n \in Nodes : n \notin reach \/ n = 1 => Candidates(n) = {}
  BY NoCandidate
<1>3. \A n \in reach : n # 1 =>
         \E d \in dom[n] \ {n} : Candidates(n) = {d} /\ dom[d] = dom[n] \ {n}
  BY OneCandidate
<1>4. ~ \E n \in Nodes : Cardinality(Candidates(n)) > 1
  <2> SUFFICES ASSUME NEW n \in Nodes PROVE ~(Cardinality(Candidates(n)) > 1)
    OBVIOUS
  <2>1. Candidates(n) = {} \/ \E d : Candidates(n) = {d}
    BY <1>2, <1>3
  <2>2. Cardinality({}) = 0 /\ \A d : Cardinality({d}) = 1
    BY FS_EmptySet, FS_Singleton
  <2>3. Cardinality(Candidates(n)) \in {0, 1}
    BY <2>1, <2>2
  <2> HIDE DEF Candidates
  <2> QED BY <2>3
<1>5. /\ stage' = "frontier"
      /\ idom' = [n \in Ids |-> IF n \in gone \/ Candidates(n) = {} THEN 0 ELSE CHOOSE d \in Candidates(n) : TRUE]
  BY <1>4 DEF BuildTree
<1>6. \A n \in Ids : n \notin reach \/ n = 1 => idom'[n] = 0
  BY <1>1, <1>2, <1>5
<1>7. ASSUME NEW n \in reach, n # 1
      PROVE  idom'[n] \in dom[n] \ {n} /\ dom[idom'[n]] = dom[n] \ {n}
  <2>1. PICK d \in dom[n] \ {n} : Candidates(n) = {d} /\ dom[d] = dom[n] \ {n}
    BY <1>3, <1>7
  <2>2. n \in Ids /\ n \notin gone /\ Candidates(n) # {}
    BY <1>1, <2>1
  <2>3. idom'[n] \in Candidates(n)
    BY <1>5, <2>2
  <2> QED BY <2>1, <2>3
<1>8. \A n \in Ids : idom'[n] \in {0} \cup reach
  BY <1>1, <1>6, <1>7
<1> QED BY <1>5, <1>6, <1>7, <1>8

----------------------------------------------------------------------------
(* The frontiers.                                                           *)

Height(k) == IF k = 0 THEN 0 ELSE Cardinality(dom[k]) + 1

\* Along the tree one comes to the entry.
LEMMA Heights ==
  ASSUME Begun, DominatorsRight, TreeRight
  PROVE  /\ \A k \in {0} \cup Ids : Height(k) \in 0..(Size + 1)
         /\ \A k \in Ids : idom[k] \in {0} \cup Ids /\ Height(idom[k]) < Height(k)
<1>1. Size \in Nat /\ Ids = 1..Size /\ 0 \notin Ids /\ reach \subseteq Ids
  <2>1. Size \in Nat /\ Ids = 1..Size
    BY DEF Begun, Wired
  <2>2. reach \subseteq Ids
    BY Reaches
  <2> QED BY <2>1, <2>2
<1>2. ASSUME NEW k \in Ids PROVE dom[k] \in SUBSET Ids /\ Cardinality(dom[k]) \in 0..Size
  <2>1. dom[k] \in SUBSET Ids
    BY DEF DominatorsRight, Nodes
  <2> QED BY <2>1, IdsFinite DEF Begun
<1>3. ASSUME NEW k \in Ids PROVE Height(k) = Cardinality(dom[k]) + 1 /\ Height(k) \in 1..(Size + 1)
  <2>1. k # 0
    BY <1>1
  <2> QED BY <1>1, <1>2, <2>1 DEF Height
<1>4. Height(0) = 0
  BY DEF Height
<1>5. ASSUME NEW k \in Ids PROVE idom[k] \in {0} \cup Ids /\ Height(idom[k]) < Height(k)
  <2>1. idom[k] \in {0} \cup Ids
    BY <1>1 DEF TreeRight
  <2>2. CASE idom[k] = 0
    BY <1>1, <1>3, <1>4, <2>2
  <2>3. CASE idom[k] # 0
    <3>1. k \in reach /\ k # 1 /\ dom[idom[k]] = dom[k] \ {k} /\ idom[k] \in Ids
      BY <2>1, <2>3 DEF TreeRight
    <3>2. k \in dom[k]
      BY <3>1, DominatorsOrdered DEF Ordered
    <3>3. Cardinality(dom[idom[k]]) < Cardinality(dom[k])
      BY <1>2, <3>1, <3>2, IdsFinite DEF Begun
    <3>4. Cardinality(dom[idom[k]]) \in 0..Size /\ Cardinality(dom[k]) \in 0..Size
      BY <1>2, <3>1
    <3>5. Height(k) = Cardinality(dom[k]) + 1 /\ Height(idom[k]) = Cardinality(dom[idom[k]]) + 1
      BY <1>3, <3>1
    <3> QED BY <1>1, <2>1, <3>3, <3>4, <3>5
  <2> QED BY <2>1, <2>2, <2>3
<1>6. \A k \in {0} \cup Ids : Height(k) \in 0..(Size + 1)
  BY <1>1, <1>3, <1>4
<1> QED BY <1>5, <1>6

\* The runner does climb the tree.
LEMMA ClimbIs ==
  ASSUME Begun, DominatorsRight, TreeRight, NEW stop, NEW k \in Ids
  PROVE  Climb(k, stop) = IF k = stop THEN {} ELSE {k} \cup Climb(idom[k], stop)
<1> DEFINE D == {0} \cup Ids
           T == SUBSET D
           Body(f, x) == IF x = stop THEN {} ELSE {x} \cup (IF x = 0 THEN {} ELSE f[idom[x]])
           Def(f) == f = [x \in D |-> Body(f, x)]
           Up == CHOOSE f : Def(f)
           rank == [x \in D |-> Height(x)]
           step == [f \in [D -> T] |-> [x \in D |-> Body(f, x)]]
           N == Size + 1
<1>1. \A x \in D : x # 0 => idom[x] \in D /\ rank[idom[x]] < rank[x]
  BY Heights
<1>2. N \in Nat /\ rank \in [D -> 0..N] /\ {} \in T
  <2>1. Size \in Nat
    BY DEF Begun, Wired
  <2>2. \A x \in D : Height(x) \in 0..N
    BY Heights
  <2>3. rank \in [D -> 0..N]
    BY <2>2
  <2>4. {} \in T
    OBVIOUS
  <2> QED BY <2>1, <2>3, <2>4
<1>3. step \in [[D -> T] -> [D -> T]]
  BY <1>1
<1>4. \A g, h \in [D -> T] : \A x \in D :
         (\A y \in D : rank[y] < rank[x] => g[y] = h[y]) => step[g][x] = step[h][x]
  <2> HIDE DEF rank
  <2> QED BY <1>1
<1>5. PICK f \in [D -> T] : f = step[f]
  <2>1. FixedPoint(D, T, step)
    <3> HIDE DEF D, T, rank, step, N
    <3> QED BY <1>2, <1>3, <1>4, RankRecursion
  <2> QED BY <2>1 DEF FixedPoint
<1>6. Def(f)
  BY <1>5
<1>7. Def(Up)
  <2> HIDE DEF Def
  <2> QED BY <1>6
<1>8. \A x \in D : Up[x] = Body(Up, x)
  <2> HIDE DEF Up, Body
  <2> QED BY <1>7
<1>9. \A x : Climb(x, stop) = Up[x]
  BY DEF Climb
<1> HIDE DEF Up
<1>10. k \in D /\ k # 0
  BY DEF Begun, Wired
<1> QED BY <1>8, <1>9, <1>10

\* From k up to a dominator s of k: the dominators of k that s does not have.
LEMMA ClimbsTo ==
  ASSUME Begun, DominatorsRight, TreeRight, NEW s \in reach, NEW k \in reach, s \in dom[k]
  PROVE  Climb(k, s) = dom[k] \ dom[s]
<1> DEFINE D == reach
           rank == [x \in D |-> Height(x)]
           Z == {x \in D : s \in dom[x] => Climb(x, s) = dom[x] \ dom[s]}
           N == Size + 1
<1>1. N \in Nat /\ reach \subseteq Ids /\ rank \in [D -> 0..N]
  <2>1. Size \in Nat /\ reach \subseteq Ids
    BY Reaches DEF Begun, Wired
  <2>2. \A x \in D : Height(x) \in 0..N
    BY <2>1, Heights
  <2> QED BY <2>1, <2>2
<1>2. Ordered
  BY DominatorsOrdered
<1>3. ASSUME NEW x \in D, \A y \in D : rank[y] < rank[x] => y \in Z PROVE x \in Z
  <2> SUFFICES ASSUME s \in dom[x] PROVE Climb(x, s) = dom[x] \ dom[s]
    OBVIOUS
  <2>1. CASE x = s
    <3>1. Climb(x, s) = {}
      BY <1>1, <2>1, ClimbIs
    <3> QED BY <2>1, <3>1
  <2>2. CASE x # s
    <3>1. x # 1
      BY <1>2, <2>2 DEF Ordered
    <3>2. idom[x] \in dom[x] \ {x} /\ dom[idom[x]] = dom[x] \ {x}
      BY <3>1 DEF TreeRight
    <3>3. idom[x] \in D /\ rank[idom[x]] < rank[x]
      BY <1>1, <1>2, <3>2, Heights DEF Ordered
    <3>4. Climb(idom[x], s) = dom[idom[x]] \ dom[s]
      BY <1>3, <2>2, <3>2, <3>3
    <3>5. Climb(x, s) = {x} \cup Climb(idom[x], s)
      BY <1>1, <2>2, ClimbIs
    <3>6. x \notin dom[s] /\ x \in dom[x]
      BY <1>2, <2>2 DEF Ordered
    <3> QED BY <3>2, <3>4, <3>5, <3>6
  <2> QED BY <2>1, <2>2
<1>4. D \subseteq Z
  <2>1. Inherited(D, rank, Z)
    <3> HIDE DEF D, Z, rank
    <3> QED BY <1>3 DEF Inherited
  <2> HIDE DEF D, Z, rank, N
  <2> QED BY <1>1, <2>1, ByRank
<1> QED BY <1>4

\* n dominates a father of m, and not strictly m itself.
EndsAt(n, m) == \E f \in LiveFathers(m) : n \in dom[f] /\ ~(n # m /\ n \in dom[m])

EmptyBranch(n, m) == n \in LiveFathers(m) /\ n = idom[m] /\ type[n] = "IF" /\ type[m] = "ENDIF"

\* Who gets a join into its frontier: who dominates a father of it but not it.
LEMMA RunnersAre ==
  ASSUME Begun, DominatorsRight, TreeRight, NEW m \in Ids
  PROVE  \A x : x \in Runners(m) <=> EndsAt(x, m) \/ EmptyBranch(x, m)
<1>1. \A x : x \in Runners(m) <=> (\E f \in LiveFathers(m) : x \in Climb(f, idom[m])) \/ EmptyBranch(x, m)
  BY DEF Runners, EmptyBranch
<1>2. Ordered
  BY DominatorsOrdered
<1>3. ASSUME NEW f \in LiveFathers(m) PROVE Climb(f, idom[m]) = dom[f] \ (dom[m] \ {m})
  <2>1. m \in reach /\ m # 1 /\ f \in reach
    BY Reached DEF LiveFathers
  <2>2. idom[m] \in dom[m] \ {m} /\ dom[idom[m]] = dom[m] \ {m}
    BY <2>1 DEF TreeRight
  <2>3. idom[m] \in reach
    BY <1>2, <2>1, <2>2 DEF Ordered
  <2>4. idom[m] \in dom[f]
    BY <1>2, <2>1, <2>2, <2>3 DEF Ordered
  <2> QED BY <2>1, <2>2, <2>3, <2>4, ClimbsTo
<1> QED BY <1>1, <1>3 DEF EndsAt

\* Such an m is a join.
LEMMA FrontiersJoin ==
  ASSUME Begun, DominatorsRight, NEW m \in Ids, NEW n, EndsAt(n, m)
  PROVE  Len(fathers[m]) >= 2
<1> SUFFICES ASSUME ~(Len(fathers[m]) >= 2) PROVE FALSE
  OBVIOUS
<1>1. Ordered
  BY DominatorsOrdered
<1>2. PICK f \in LiveFathers(m) : n \in dom[f] /\ ~(n # m /\ n \in dom[m])
  BY DEF EndsAt
<1>3. m \in reach /\ m # 1 /\ f \in reach
  BY Reached DEF LiveFathers
<1>4. PICK g \in LiveFathers(m) : g # m
  BY <1>3, Reached
<1>5. \A x, y \in LiveFathers(m) : x = y
  <2>1. fathers[m] \in Seq(Nat)
    BY DEF Begun, Wired
  <2>2. \A i, j \in DOMAIN fathers[m] : i = j
    BY <2>1
  <2> QED BY <2>2 DEF LiveFathers, Range
<1>6. f = g /\ f # m
  BY <1>4, <1>5
<1>7. n \in reach
  BY <1>1, <1>2, <1>3 DEF Ordered
<1>8. \A x \in reach : x # m => (x \in dom[m] <=> x \in dom[f])
  BY <1>1, <1>3, <1>5 DEF Ordered
<1>9. n = m
  BY <1>2, <1>7, <1>8
<1>10. f \in dom[m]
  BY <1>1, <1>3, <1>6, <1>8 DEF Ordered
<1> QED BY <1>1, <1>2, <1>3, <1>6, <1>9, <1>10 DEF Ordered

FrontiersRight ==
  \A n, m \in reach : m \in front[n] <=> EndsAt(n, m) \/ IfWithoutElse(n, m)

\* compute_dominance_frontier gives everyone its joins.
LEMMA BuildFrontierKeeps ==
  ASSUME Begun, DominatorsRight, TreeRight, BuildFrontier
  PROVE  /\ stage' = "phis"
         /\ \A n, m \in reach : m \in front'[n] <=> EndsAt(n, m) \/ IfWithoutElse(n, m)
<1> DEFINE joins == {m \in Nodes : Len(fathers[m]) >= 2}
<1>1. Ordered /\ reach \subseteq Ids /\ Nodes \subseteq Ids /\ 0 \notin Ids
  <2>1. Size \in Nat /\ Ids = 1..Size
    BY DEF Begun, Wired
  <2> QED BY <2>1, DominatorsOrdered, Reaches DEF Nodes
<1>2. ASSUME NEW m \in joins PROVE 0 \notin Runners(m)
  <2>1. m \in Ids
    BY <1>1
  <2>2. ~EmptyBranch(0, m)
    BY <1>1 DEF EmptyBranch, LiveFathers
  <2>3. ~EndsAt(0, m)
    BY <1>1 DEF EndsAt, LiveFathers, Ordered
  <2> QED BY <2>1, <2>2, <2>3, RunnersAre
<1>3. stage' = "phis" /\ front' = [n \in Ids |-> {m \in joins : n \in Runners(m)}]
  BY <1>2 DEF BuildFrontier
<1>4. ASSUME NEW n \in reach, NEW m \in reach
      PROVE  m \in front'[n] <=> EndsAt(n, m) \/ IfWithoutElse(n, m)
  <2>1. m \in front'[n] <=> Len(fathers[m]) >= 2 /\ n \in Runners(m)
    BY <1>1, <1>3 DEF Ordered
  <2>2. m \in Ids /\ (n \in Runners(m) <=> EndsAt(n, m) \/ EmptyBranch(n, m))
    BY <1>1, RunnersAre
  <2>3. IfWithoutElse(n, m) <=> EmptyBranch(n, m) /\ Len(fathers[m]) >= 2
    BY DEF IfWithoutElse, EmptyBranch, LiveFathers
  <2>4. EndsAt(n, m) => Len(fathers[m]) >= 2
    BY <2>2, FrontiersJoin
  <2> QED BY <2>1, <2>2, <2>3, <2>4
<1> QED BY <1>3, <1>4

----------------------------------------------------------------------------
(* Steps that leave the graph alone.                                        *)

\* AroundLeast before and after a step.
LEMMA AroundsLeast == Wired => \A n : \A S \in SUBSET Ids : LeastAround(Around(n, S), n, S)
BY AroundLeast

LEMMA AroundsNext == (Wired => \A n : \A S \in SUBSET Ids : LeastAround(Around(n, S), n, S))'
BY AroundsLeast, PTL

\* Nodes that can be reached are never removed ENDIFs, before and after a step.
LEMMA ReachedNodes == Begun => reach \in SUBSET Ids /\ reach \cap gone = {}
BY Reaches, Reached

LEMMA ReachesNext == (Begun => reach \in SUBSET Ids /\ reach \cap gone = {})'
BY ReachedNodes, PTL

SameGraph == UNCHANGED <<type, sons, fathers, gone>>

\* A step that leaves the graph leaves what is around a set.
LEMMA SameAround ==
  ASSUME Wired, SameGraph
  PROVE  /\ Wired' /\ Ids' = Ids /\ Size' = Size /\ Nodes' = Nodes
         /\ \A n : \A S \in SUBSET Ids : Around(n, S)' = Around(n, S)
<1>1. Ids' = Ids /\ Size' = Size /\ Nodes' = Nodes
  BY DEF SameGraph, Ids, Size, Nodes
<1>2. Wired'
  BY <1>1 DEF SameGraph, Wired
<1>3. ASSUME NEW n, NEW S \in SUBSET Ids PROVE Around(n, S)' = Around(n, S)
  <2>1. LeastAround(Around(n, S), n, S)
    BY AroundLeast
  <2>2. LeastAround(Around(n, S), n, S)'
    BY <1>1, <1>2, AroundsNext
  <2>3. \A C : ClosedBut(C, n)' <=> ClosedBut(C, n)
    BY DEF ClosedBut, SameGraph
  <2>4. /\ Around(n, S)' \in SUBSET Ids /\ S \subseteq Around(n, S)' /\ ClosedBut(Around(n, S)', n)
        /\ \A C \in SUBSET Ids : S \subseteq C /\ ClosedBut(C, n) => Around(n, S)' \subseteq C
    BY <1>1, <2>2, <2>3 DEF LeastAround, ClosedBut, SameGraph
  <2> QED BY <2>1, <2>4 DEF LeastAround
<1> QED BY <1>1, <1>2, <1>3

\* And what can be reached, with and without passing a node.
LEMMA SameReach ==
  ASSUME Begun, SameGraph, reach' = reach
  PROVE  Begun' /\ (\A n : Past(n)' = Past(n)) /\ \A m : LiveFathers(m)' = LiveFathers(m)
<1>1. 1 \in Ids
  BY DEF Begun, Wired
<1>2. Around(0, {1})' = Around(0, {1}) /\ Wired'
  BY <1>1, SameAround DEF Begun
<1>3. Begun'
  BY <1>2 DEF Begun, Closure
<1>4. ASSUME NEW n PROVE Past(n)' = Past(n)
  <2>1. {1} \ {n} \in SUBSET Ids
    BY <1>1
  <2> QED BY <2>1, SameAround DEF Begun, Past
<1> QED BY <1>3, <1>4 DEF LiveFathers, SameGraph

\* What has been computed stays right.
LEMMA StaysRight ==
  ASSUME Begun, SameGraph, reach' = reach, dom' = dom
  PROVE  /\ (dom \in Approximations) = (dom \in Approximations)'
         /\ DominatorsRight' = DominatorsRight
         /\ idom' = idom => TreeRight' = TreeRight
         /\ idom' = idom /\ front' = front => FrontiersRight' = FrontiersRight
<1>1. /\ Ids' = Ids /\ Nodes' = Nodes
      /\ \A n : Past(n)' = Past(n)
      /\ \A m : LiveFathers(m)' = LiveFathers(m)
  BY SameAround, SameReach DEF Begun
<1>2. (dom \in Approximations) = (dom \in Approximations)'
  BY <1>1 DEF Approximations, NoneMissed
<1>3. DominatorsRight' = DominatorsRight
  BY <1>1 DEF DominatorsRight
<1>4. idom' = idom => TreeRight' = TreeRight
  BY <1>1 DEF TreeRight
<1>5. \A n, m : EndsAt(n, m)' = EndsAt(n, m) /\ (idom' = idom => IfWithoutElse(n, m)' = IfWithoutElse(n, m))
  BY <1>1 DEF EndsAt, IfWithoutElse, SameGraph
<1>6. idom' = idom /\ front' = front => FrontiersRight' = FrontiersRight
  BY <1>5 DEF FrontiersRight
<1> QED BY <1>2, <1>3, <1>4, <1>6

----------------------------------------------------------------------------
(* The inductive invariant.                                                 *)

DomIInv ==
  /\ GraphIInv
  /\ stage \in {"graph", "dominators", "tree", "frontier", "phis", "rename", "ssa"}
  /\ stage # "graph" => phase = "done" /\ Begun
  /\ stage = "dominators" => dom \in Approximations
  /\ stage \notin {"graph", "dominators"} => DominatorsRight
  /\ stage \notin {"graph", "dominators", "tree"} => TreeRight
  /\ stage \notin {"graph", "dominators", "tree", "frontier"} => FrontiersRight

\* Slither's passes over the graph.
LEMMA GraphStays == ASSUME GraphIInv, UNCHANGED vars PROVE GraphIInv' /\ SameGraph /\ phase' = phase
BY GraphNext DEF vars, SameGraph

\* The parser is done when the passes begin.
LEMMA NoMoreStatements == ASSUME phase = "done", Next PROVE FALSE
BY DEF Next, Parse, Simple, Room, OpenIf, Else, CloseIf, OpenLoop, CloseLoop, OpenFor, CloseFor,
       EndBody, FixNode, Prune, RemoveAloneEndif

\* A step that computes nothing of this.
LEMMA LaterKeeps ==
  ASSUME DomIInv, UNCHANGED <<vars, reach, dom, idom, front>>,
         stage' = stage \/ (stage \in {"phis", "rename"} /\ stage' \in {"rename", "ssa"})
  PROVE  DomIInv'
<1>1. GraphIInv' /\ SameGraph /\ phase' = phase
  BY GraphStays DEF DomIInv
<1>2. CASE stage = "graph"
  BY <1>1, <1>2 DEF DomIInv
<1>3. CASE stage # "graph"
  <2>1. Begun /\ Begun'
    BY <1>1, <1>3, SameReach DEF DomIInv
  <2>2. /\ (dom \in Approximations) = (dom \in Approximations)'
        /\ DominatorsRight' = DominatorsRight /\ TreeRight' = TreeRight
        /\ FrontiersRight' = FrontiersRight
    BY <1>1, <2>1, StaysRight
  <2>3. stage' = stage \/ (stage \in {"phis", "rename"} /\ stage' \in {"rename", "ssa"})
    OBVIOUS
  <2> QED BY <1>1, <1>3, <2>1, <2>2, <2>3 DEF DomIInv
<1> QED BY <1>2, <1>3

\* compute_dominators begins: every node has all.
LEMMA BeginDominatorsKeeps == ASSUME DomIInv, BeginDominators PROVE DomIInv'
<1>1. /\ stage' = "dominators" /\ reach' = Closure({1}) /\ phase = "done"
      /\ dom' = [n \in Ids |-> Nodes] /\ UNCHANGED vars
  BY DEF BeginDominators
<1>2. GraphIInv' /\ SameGraph /\ phase' = phase /\ Wired
  BY <1>1, GraphStays, BuiltWired DEF DomIInv
<1>3. Wired' /\ Ids' = Ids /\ Nodes' = Nodes /\ Around(0, {1})' = Around(0, {1})
  <2>1. {1} \in SUBSET Ids
    BY <1>2 DEF Wired
  <2> QED BY <1>2, <2>1, SameAround
<1>4. Begun'
  BY <1>1, <1>3 DEF Begun, Closure
<1>5. reach' \subseteq Nodes
  <2>1. reach' \in SUBSET Ids' /\ reach' \cap gone' = {}
    BY <1>4, ReachesNext
  <2> QED BY <1>2, <1>3, <2>1 DEF Nodes, SameGraph
<1>6. (dom \in Approximations)'
  BY <1>1, <1>3, <1>5 DEF Approximations, NoneMissed, Nodes
<1> QED BY <1>1, <1>2, <1>4, <1>6 DEF DomIInv

\* One sweep.
LEMMA SweepStep == ASSUME DomIInv, Sweep PROVE DomIInv'
<1>1. /\ stage = "dominators" /\ stage' = (IF dom' = dom THEN "tree" ELSE stage)
      /\ UNCHANGED vars /\ UNCHANGED <<reach, idom, front>>
  BY DEF Sweep
<1>2. GraphIInv' /\ SameGraph /\ phase' = phase /\ Begun /\ phase = "done" /\ dom \in Approximations
  BY <1>1, GraphStays DEF DomIInv
<1>3. Begun' /\ (\A n : Past(n)' = Past(n)) /\ Ids' = Ids /\ Nodes' = Nodes
  BY <1>1, <1>2, SameReach, SameAround DEF Begun
<1>4. dom' \in Approximations /\ (dom' = dom => Settled(dom))
  BY <1>2, SweepKeeps
<1>5. (dom \in Approximations)'
  BY <1>1, <1>3, <1>4 DEF Approximations, NoneMissed
<1>6. dom' = dom => DominatorsRight'
  BY <1>1, <1>2, <1>4, SettledIsRight, StaysRight
<1> QED BY <1>1, <1>2, <1>3, <1>5, <1>6 DEF DomIInv

\* The tree.
LEMMA BuildTreeStep == ASSUME DomIInv, BuildTree PROVE DomIInv'
<1>1. stage = "tree" /\ UNCHANGED vars /\ UNCHANGED <<reach, dom, front>>
  BY DEF BuildTree
<1>2. GraphIInv' /\ SameGraph /\ phase' = phase /\ Begun /\ phase = "done" /\ DominatorsRight
  BY <1>1, GraphStays DEF DomIInv
<1>3. Begun' /\ Ids' = Ids /\ DominatorsRight'
  BY <1>1, <1>2, SameReach, SameAround, StaysRight DEF Begun
<1>4. /\ stage' = "frontier" /\ idom' \in [Ids -> {0} \cup reach]
      /\ \A n \in Ids : n \notin reach \/ n = 1 => idom'[n] = 0
      /\ \A n \in reach : n # 1 => idom'[n] \in dom[n] \ {n} /\ dom[idom'[n]] = dom[n] \ {n}
  BY <1>2, BuildTreeKeeps
<1>5. TreeRight'
  BY <1>1, <1>3, <1>4 DEF TreeRight
<1> QED BY <1>1, <1>2, <1>3, <1>4, <1>5 DEF DomIInv

\* The frontiers.
LEMMA BuildFrontierStep == ASSUME DomIInv, BuildFrontier PROVE DomIInv'
<1>1. stage = "frontier" /\ UNCHANGED vars /\ UNCHANGED <<reach, dom, idom>>
  BY DEF BuildFrontier
<1>2. GraphIInv' /\ SameGraph /\ phase' = phase /\ Begun /\ phase = "done" /\ DominatorsRight /\ TreeRight
  BY <1>1, GraphStays DEF DomIInv
<1>3. Begun' /\ DominatorsRight' /\ TreeRight' /\ \A m : LiveFathers(m)' = LiveFathers(m)
  BY <1>1, <1>2, SameReach, StaysRight
<1>4. stage' = "phis" /\ \A n, m \in reach : m \in front'[n] <=> EndsAt(n, m) \/ IfWithoutElse(n, m)
  BY <1>2, BuildFrontierKeeps
<1>5. \A n, m : EndsAt(n, m)' = EndsAt(n, m) /\ IfWithoutElse(n, m)' = IfWithoutElse(n, m)
  BY <1>1, <1>2, <1>3 DEF EndsAt, IfWithoutElse, SameGraph
<1>6. FrontiersRight'
  BY <1>1, <1>4, <1>5 DEF FrontiersRight
<1> QED BY <1>1, <1>2, <1>3, <1>4, <1>6 DEF DomIInv

\* Every step.
LEMMA DomNext == ASSUME DomIInv, [SsaNext]_formVars PROVE DomIInv'
<1>1. CASE Next /\ UNCHANGED ssaVars
  <2>1. stage = "graph" /\ stage' = "graph"
    BY <1>1, NoMoreStatements DEF DomIInv, ssaVars
  <2>2. GraphIInv'
    BY <1>1, GraphNext DEF DomIInv
  <2> QED BY <2>1, <2>2 DEF DomIInv
<1>2. CASE BeginDominators
  BY <1>2, BeginDominatorsKeeps
<1>3. CASE Sweep
  BY <1>3, SweepStep
<1>4. CASE BuildTree
  BY <1>4, BuildTreeStep
<1>5. CASE BuildFrontier
  BY <1>5, BuildFrontierStep
<1>6. CASE PlacePhis
  BY <1>6, LaterKeeps DEF PlacePhis
<1>7. CASE RenameChild
  BY <1>7, LaterKeeps DEF RenameChild
<1>8. CASE RenameFrontier
  BY <1>8, LaterKeeps DEF RenameFrontier
<1>9. CASE RenameReturn
  BY <1>9, LaterKeeps DEF RenameReturn
<1>10. CASE RenameDone
  BY <1>10, LaterKeeps DEF RenameDone
<1>11. CASE UNCHANGED formVars
  BY <1>11, LaterKeeps DEF formVars, vars
<1> QED BY <1>1, <1>2, <1>3, <1>4, <1>5, <1>6, <1>7, <1>8, <1>9, <1>10, <1>11 DEF SsaNext

\* Nothing is computed yet.
LEMMA DomInit == ASSUME SsaInit PROVE DomIInv
BY GraphInit DEF SsaInit, DomIInv

----------------------------------------------------------------------------
(* The theorems.                                                            *)

\* At every step: the sweeps of compute_dominators never lose a dominator, and
\* what they, the tree and the frontiers leave when they stop is right.
THEOREM DominanceInductive == SsaSpec => []DomIInv
<1>1. SsaInit => DomIInv
  BY DomInit
<1>2. DomIInv /\ [SsaNext]_formVars => DomIInv'
  BY DomNext
<1> QED BY <1>1, <1>2, PTL DEF SsaSpec

\* What the property says of it.
LEMMA DomExact == ASSUME DomIInv PROVE DominanceExact
<1>1. stage # "assert"
  BY DEF DomIInv
<1>2. ASSUME stage = "phis", NEW n \in reach, NEW m \in reach
      PROVE  /\ (n \in dom[m]) = Dominates(n, m)
             /\ idom[m] = n => n # m /\ \A d \in dom[m] \ {m} : d \in dom[n]
             /\ idom[m] = 0 => m = 1
             /\ (m \in front[n]) = \/ /\ \E f \in LiveFathers(m) : Dominates(n, f)
                                      /\ ~(n # m /\ Dominates(n, m))
                                   \/ IfWithoutElse(n, m)
  <2>1. Begun /\ DominatorsRight /\ TreeRight /\ FrontiersRight
    BY <1>2 DEF DomIInv
  <2>2. Ordered /\ 0 \notin reach
    <3>1. Size \in Nat /\ Ids = 1..Size
      BY <2>1 DEF Begun, Wired
    <3> QED BY <2>1, <3>1, DominatorsOrdered, Reaches
  <2>3. ASSUME NEW a \in reach, NEW b \in reach PROVE (a \in dom[b]) = Dominates(a, b)
    <3>1. a \in dom[b] <=> b \notin Past(a)
      BY <2>1 DEF DominatorsRight
    <3>2. a \notin Past(a)
      BY <2>1, Pasts
    <3>3. Dominates(a, b) <=> a = b \/ b \notin Past(a)
      BY DEF Dominates, Past
    <3> QED BY <3>1, <3>2, <3>3 DEF Dominates
  <2>4. idom[m] = n => n # m /\ \A d \in dom[m] \ {m} : d \in dom[n]
    <3>1. m = 1 => idom[m] = 0
      BY <2>1, Reaches DEF TreeRight
    <3> QED BY <2>1, <2>2, <3>1 DEF TreeRight
  <2>5. idom[m] = 0 => m = 1
    BY <2>1, <2>2 DEF TreeRight, Ordered
  <2>6. (m \in front[n]) = (EndsAt(n, m) \/ IfWithoutElse(n, m))
    BY <2>1 DEF FrontiersRight, EndsAt, IfWithoutElse
  <2>7. EndsAt(n, m) <=> (\E f \in LiveFathers(m) : Dominates(n, f)) /\ ~(n # m /\ Dominates(n, m))
    <3>1. \A f \in LiveFathers(m) : f \in reach
      BY DEF LiveFathers
    <3> QED BY <2>3, <3>1 DEF EndsAt
  <2> QED BY <2>3, <2>4, <2>5, <2>6, <2>7
<1> QED BY <1>1, <1>2 DEF DominanceExact

\* In every function, however its loops, jumps and dead code are nested, the
\* dominators, the dominator tree and the dominance frontiers that Slither
\* computes are those of the definitions, and the assertion in
\* compute_immediate_dominators and the climb of the runner never fail.
THEOREM DominanceIsExact == SsaSpec => []DominanceExact
BY DominanceInductive, DomExact, PTL

\* The graph stays sound while Slither works on it.
THEOREM GraphSoundLater == SsaSpec => [](TypeOK /\ FathersMirrorSons /\ NoAloneEndif)
<1>1. DomIInv => TypeOK /\ FathersMirrorSons /\ NoAloneEndif
  BY GraphTyped, GraphMirrors, GraphEndifs DEF DomIInv
<1> QED BY <1>1, DominanceInductive, PTL

=============================================================================
