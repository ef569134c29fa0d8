-------------------------- MODULE CfgBuilderProofs --------------------------
(* Proofs about the control-flow graph that CfgBuilder builds.              *)
EXTENDS CfgBuilder, FiniteSetTheorems, SequenceTheorems, WellFoundedInduction, TLAPS

----------------------------------------------------------------------------
(* Induction and recursion, told with sets and functions.                   *)

\* A set of numbers that is not empty has a least one.
LEMMA Least ==
  ASSUME NEW S \in SUBSET Nat, S # {}
  PROVE  \E m \in S : \A k \in S : ~(k < m)
<1>1. IsWellFoundedOn(OpToRel(<, Nat), Nat)
  BY NatLessThanWellFounded
<1>2. \E m \in S : \A k \in S : <<k, m>> \notin OpToRel(<, Nat)
  BY <1>1, WFMin
<1>3. ASSUME NEW m \in Nat, NEW k \in Nat, k < m PROVE <<k, m>> \in OpToRel(<, Nat)
  BY <1>3 DEF OpToRel
<1> QED BY <1>2, <1>3

\* Induction up to n: what holds of 0 and goes on by one holds of all.
LEMMA UpTo ==
  ASSUME NEW n \in Nat, NEW S, 0 \in S, \A k \in 1..n : k - 1 \in S => k \in S
  PROVE  0..n \subseteq S
<1> DEFINE B == (0..n) \ S
<1> SUFFICES ASSUME B # {} PROVE FALSE
  OBVIOUS
<1>1. PICK m \in B : \A k \in B : ~(k < m)
  <2>1. B \in SUBSET Nat
    OBVIOUS
  <2> HIDE DEF B
  <2> QED BY <2>1, Least
<1>2. m \in 1..n
  BY <1>1
<1>3. m - 1 \in 0..n /\ m - 1 < m
  BY <1>2
<1>4. m - 1 \in S
  BY <1>1, <1>3
<1> QED BY <1>1, <1>2, <1>4

\* What holds where it holds at every smaller rank holds everywhere.
Inherited(D, rank, S) == \A x \in D : (\A y \in D : rank[y] < rank[x] => y \in S) => x \in S

\* Induction along a rank, in any order of the members.
LEMMA ByRank ==
  ASSUME NEW n \in Nat, NEW D, NEW rank \in [D -> 0..n], NEW S, Inherited(D, rank, S)
  PROVE  D \subseteq S
<1> USE DEF Inherited
<1> DEFINE K == {k \in 0..n : \A x \in D : rank[x] <= k => x \in S}
<1>1. 0 \in K
  <2> SUFFICES ASSUME NEW x \in D, rank[x] <= 0 PROVE x \in S
    OBVIOUS
  <2>1. \A y \in D : ~(rank[y] < rank[x])
    OBVIOUS
  <2> QED BY <2>1
<1>2. ASSUME NEW k \in 1..n, k - 1 \in K PROVE k \in K
  <2> SUFFICES ASSUME NEW x \in D, rank[x] <= k PROVE x \in S
    OBVIOUS
  <2>1. \A y \in D : rank[y] < rank[x] => rank[y] <= k - 1
    OBVIOUS
  <2>2. \A y \in D : rank[y] <= k - 1 => y \in S
    BY <1>2
  <2> QED BY <2>1, <2>2
<1>3. 0..n \subseteq K
  <2> HIDE DEF K
  <2> QED BY <1>1, <1>2, UpTo
<1>4. n \in K
  BY <1>3
<1> QED BY <1>4

\* A function told by its first value and by each from the one before.
Iterated(n, T, x, step) ==
  \E f \in [0..n -> T] : f[0] = x /\ \A k \in 1..n : f[k] = step[<<k, f[k-1]>>]

\* Such a function exists: a recursive definition up to n means what it says.
LEMMA Recursion ==
  ASSUME NEW n \in Nat, NEW T, NEW x \in T, NEW step \in [(1..n) \X T -> T]
  PROVE  Iterated(n, T, x, step)
<1> DEFINE Good(m) == \E f \in [0..m -> T] : f[0] = x /\ \A k \in 1..m : f[k] = step[<<k, f[k-1]>>]
           S == {m \in 0..n : Good(m)}
<1>1. 0 \in S
  <2>1. [k \in 0..0 |-> x] \in [0..0 -> T] /\ [k \in 0..0 |-> x][0] = x /\ 1..0 = {}
    OBVIOUS
  <2>2. Good(0)
    BY <2>1
  <2> HIDE DEF Good
  <2> QED BY <2>2
<1>2. ASSUME NEW m \in 1..n, m - 1 \in S PROVE m \in S
  <2>1. PICK f \in [0..(m-1) -> T] : f[0] = x /\ \A k \in 1..(m-1) : f[k] = step[<<k, f[k-1]>>]
    BY <1>2
  <2> DEFINE g == [k \in 0..m |-> IF k = m THEN step[<<m, f[m-1]>>] ELSE f[k]]
  <2>2. \A k \in 0..m : k # m => k \in 0..(m-1) /\ g[k] = f[k]
    OBVIOUS
  <2>3. g[m] = step[<<m, f[m-1]>>] /\ m - 1 \in 0..(m-1) /\ f[m-1] \in T
    OBVIOUS
  <2>4. g \in [0..m -> T]
    BY <2>2, <2>3
  <2>5. g[0] = x
    BY <2>1, <2>2
  <2>6. ASSUME NEW k \in 1..m PROVE g[k] = step[<<k, g[k-1]>>]
    <3>1. k - 1 \in 0..m /\ k - 1 # m
      OBVIOUS
    <3>2. g[k-1] = f[k-1]
      BY <2>2, <3>1
    <3>3. CASE k = m
      BY <2>3, <3>2, <3>3
    <3>4. CASE k # m
      <4>1. k \in 1..(m-1)
        BY <3>4
      <4>2. g[k] = f[k]
        BY <2>2, <3>4
      <4> QED BY <2>1, <3>2, <4>1, <4>2
    <3> QED BY <3>3, <3>4
  <2> HIDE DEF g
  <2>7. Good(m)
    BY <2>4, <2>5, <2>6
  <2> QED BY <2>7
<1>3. n \in S
  <2> HIDE DEF S
  <2>1. \A k \in 1..n : k - 1 \in S => k \in S
    BY <1>2
  <2>2. 0..n \subseteq S
    BY <1>1, <2>1, UpTo
  <2> QED BY <2>2
<1> QED BY <1>3 DEF Iterated

FixedPoint(D, T, step) == \E f \in [D -> T] : f = step[f]

\* A function whose value at x depends on those at smaller ranks.
LEMMA RankRecursion ==
  ASSUME NEW n \in Nat, NEW D, NEW T, NEW t \in T, NEW rank \in [D -> 0..n],
         NEW step \in [[D -> T] -> [D -> T]],
         \A g, h \in [D -> T] : \A x \in D :
            (\A y \in D : rank[y] < rank[x] => g[y] = h[y]) => step[g][x] = step[h][x]
  PROVE  FixedPoint(D, T, step)
<1> DEFINE F == [D -> T]
           N == n + 1
           first == [x \in D |-> t]
           turn == [p \in (1..N) \X F |-> step[p[2]]]
<1>1. PICK it \in [0..N -> F] : \A k \in 1..N : it[k] = step[it[k-1]]
  <2>1. first \in F
    OBVIOUS
  <2>2. turn \in [(1..N) \X F -> F]
    OBVIOUS
  <2>3. N \in Nat
    OBVIOUS
  <2>4. PICK it \in [0..N -> F] : \A k \in 1..N : it[k] = turn[<<k, it[k-1]>>]
    <3> HIDE DEF turn, F, N, first
    <3>1. Iterated(N, F, first, turn)
      BY <2>1, <2>2, <2>3, Recursion
    <3> QED BY <3>1 DEF Iterated
  <2>5. ASSUME NEW k \in 1..N PROVE it[k] = step[it[k-1]]
    <3>1. k - 1 \in 0..N
      OBVIOUS
    <3>2. it[k-1] \in F
      BY <3>1
    <3> HIDE DEF F, N
    <3>3. <<k, it[k-1]>> \in (1..N) \X F
      BY <3>2
    <3>4. turn[<<k, it[k-1]>>] = step[it[k-1]]
      BY <3>3
    <3> QED BY <2>4, <3>4
  <2> QED BY <2>5
<1> DEFINE K == {k \in 0..n : \A x \in D : rank[x] <= k => it[k+1][x] = it[k][x]}
           J == {k \in 0..n : \A x \in D : rank[x] < k => it[k+1][x] = it[k][x]}
<1>2. \A k \in 1..N : it[k] \in F /\ it[k-1] \in F
  OBVIOUS
<1>3. 0..n \subseteq J
  <2>1. 0 \in J
    OBVIOUS
  <2>2. ASSUME NEW k \in 1..n, k - 1 \in J PROVE k \in J
    <3> SUFFICES ASSUME NEW x \in D, rank[x] < k PROVE it[k+1][x] = it[k][x]
      OBVIOUS
    <3>1. \A y \in D : rank[y] < k - 1 => it[k][y] = it[k-1][y]
      BY <2>2
    <3>2. \A y \in D : rank[y] < rank[x] => it[k][y] = it[k-1][y]
      BY <3>1
    <3>3. it[k+1] = step[it[k]] /\ it[k] = step[it[k-1]]
      <4>1. k + 1 \in 1..N /\ k \in 1..N /\ (k + 1) - 1 = k
        OBVIOUS
      <4> QED BY <1>1, <4>1
    <3>4. it[k] \in F /\ it[k-1] \in F
      BY <1>2
    <3>5. step[it[k]][x] = step[it[k-1]][x]
      BY <3>2, <3>4
    <3> QED BY <3>3, <3>5
  <2> HIDE DEF J
  <2> QED BY <2>1, <2>2, UpTo
<1>4. ASSUME NEW x \in D PROVE step[it[N]][x] = it[N][x]
  <2>1. \A y \in D : rank[y] < n => it[n+1][y] = it[n][y]
    BY <1>3
  <2>2. \A y \in D : rank[y] < rank[x] => it[N][y] = it[n][y]
    BY <2>1
  <2>3. it[N] \in F /\ it[n] \in F
    OBVIOUS
  <2>4. step[it[N]][x] = step[it[n]][x]
    BY <2>2, <2>3
  <2>5. it[N] = step[it[n]]
    <3>1. N \in 1..N /\ N - 1 = n
      OBVIOUS
    <3> QED BY <1>1, <3>1
  <2> QED BY <2>4, <2>5
<1>5. it[N] \in F
  OBVIOUS
<1>6. step[it[N]] \in F
  BY <1>5
<1>7. step[it[N]] = it[N]
  BY <1>4, <1>5, <1>6
<1> QED BY <1>5, <1>7 DEF FixedPoint

----------------------------------------------------------------------------
(* Sequences: how often a member is in one.                                 *)

\* A sequence holds what it holds at least once.
LEMMA TimesType ==
  ASSUME NEW s \in Seq(Nat), NEW x
  PROVE  Times(s, x) \in Nat /\ (Times(s, x) = 0 <=> x \notin Range(s)) /\ Range(s) \subseteq Nat
<1> DEFINE I == {i \in DOMAIN s : s[i] = x}
<1>1. IsFiniteSet(1..Len(s)) /\ DOMAIN s = 1..Len(s) /\ Len(s) \in Nat
  BY FS_Interval
<1>2. IsFiniteSet(I)
  BY <1>1, FS_Subset
<1>3. Cardinality(I) \in Nat /\ (Cardinality(I) = 0 <=> I = {})
  <2> HIDE DEF I
  <2> QED BY <1>2, FS_CardinalityType, FS_EmptySet
<1> QED BY <1>1, <1>3 DEF Times, Range

\* Nothing is in the empty list.
LEMMA TimesEmpty == ASSUME NEW x PROVE Times(<<>>, x) = 0
<1>1. {i \in DOMAIN <<>> : <<>>[i] = x} = {}
  OBVIOUS
<1> QED BY <1>1, FS_EmptySet DEF Times

\* One more at the end.
LEMMA TimesAppend ==
  ASSUME NEW s \in Seq(Nat), NEW y \in Nat, NEW x
  PROVE  Times(Append(s, y), x) = IF x = y THEN Times(s, x) + 1 ELSE Times(s, x)
<1> DEFINE n == Len(s)
           r == Append(s, y)
           I == {i \in 1..n : s[i] = x}
           J == {i \in 1..(n + 1) : r[i] = x}
<1>1. n \in Nat /\ DOMAIN s = 1..n /\ DOMAIN r = 1..(n + 1) /\ r[n + 1] = y /\ \A i \in 1..n : r[i] = s[i]
  OBVIOUS
<1>2. IsFiniteSet(I) /\ n + 1 \notin I
  <2>1. IsFiniteSet(1..n)
    BY <1>1, FS_Interval
  <2>2. I \in SUBSET (1..n)
    OBVIOUS
  <2>3. IsFiniteSet(I)
    BY <2>1, <2>2, FS_Subset, Zenon
  <2>4. n + 1 \notin 1..n
    BY <1>1
  <2> QED BY <2>2, <2>3, <2>4
<1>3. J = IF x = y THEN I \cup {n + 1} ELSE I
  <2> HIDE DEF r
  <2> QED BY <1>1
<1>4. Cardinality(J) = IF x = y THEN Cardinality(I) + 1 ELSE Cardinality(I)
  <2> HIDE DEF I, J
  <2> QED BY <1>2, <1>3, FS_AddElement
<1>5. Times(s, x) = Cardinality(I) /\ Times(r, x) = Cardinality(J)
  <2> HIDE DEF r
  <2> QED BY <1>1 DEF Times
<1> QED BY <1>4, <1>5

\* Only the empty list holds nothing.
LEMMA EmptyRange ==
  ASSUME NEW s \in Seq(Nat)
  PROVE  Range(s) = {} <=> s = <<>>
<1>1. s # <<>> => 1 \in DOMAIN s
  OBVIOUS
<1>2. Range(<<>>) = {}
  BY DEF Range
<1>3. s # <<>> => s[1] \in Range(s)
  BY <1>1 DEF Range
<1> QED BY <1>2, <1>3

\* Appending adds one member.
LEMMA RangeAppend ==
  ASSUME NEW s \in Seq(Nat), NEW y \in Nat
  PROVE  Range(Append(s, y)) = Range(s) \cup {y}
<1>1. /\ DOMAIN s = 1..Len(s) /\ DOMAIN Append(s, y) = 1..(Len(s) + 1) /\ Len(s) \in Nat
      /\ Append(s, y)[Len(s) + 1] = y /\ \A i \in 1..Len(s) : Append(s, y)[i] = s[i]
  OBVIOUS
<1> QED BY <1>1 DEF Range

\* What Only keeps it keeps as often, and nothing else.
LEMMA OnlyTimes ==
  ASSUME NEW s \in Seq(Nat), NEW S
  PROVE  /\ Only(s, S) \in Seq(Nat)
         /\ \A x : Times(Only(s, S), x) = IF x \in S THEN Times(s, x) ELSE 0
<1> DEFINE n == Len(s)
           step == [p \in (1..n) \X Seq(Nat) |-> IF s[p[1]] \in S THEN Append(p[2], s[p[1]]) ELSE p[2]]
           Then(f, i) == IF i = 0 THEN <<>>
                         ELSE IF s[i] \in S THEN Append(f[i - 1], s[i]) ELSE f[i - 1]
           Def(f) == f = [i \in 0..n |-> Then(f, i)]
           Kept == CHOOSE f : Def(f)
<1>1. n \in Nat /\ \A i \in 1..n : s[i] \in Nat
  OBVIOUS
<1>2. <<>> \in Seq(Nat) /\ step \in [(1..n) \X Seq(Nat) -> Seq(Nat)]
  BY <1>1
<1>3. PICK f \in [0..n -> Seq(Nat)] : f[0] = <<>> /\ \A i \in 1..n : f[i] = step[<<i, f[i - 1]>>]
  <2>1. Iterated(n, Seq(Nat), <<>>, step)
    <3> HIDE DEF step, n
    <3> QED BY <1>1, <1>2, Recursion
  <2> QED BY <2>1 DEF Iterated
<1>4. ASSUME NEW i \in 0..n PROVE f[i] = Then(f, i)
  <2>1. CASE i = 0
    BY <1>3, <2>1
  <2>2. CASE i # 0
    <3>1. i \in 1..n /\ i - 1 \in 0..n
      BY <1>1, <2>2
    <3>a. f[i - 1] \in Seq(Nat)
      BY <3>1
    <3>2. f[i] = step[<<i, f[i - 1]>>]
      BY <1>3, <3>1
    <3> QED BY <2>2, <3>1, <3>a, <3>2
  <2> QED BY <2>1, <2>2
<1>5. Def(f)
  <2> HIDE DEF Then
  <2> QED BY <1>4
<1>6. Def(Kept)
  <2> HIDE DEF Def
  <2> QED BY <1>5
<1>7. \A i \in 0..n : Kept[i] = Then(Kept, i)
  <2> HIDE DEF Kept, Then
  <2> QED BY <1>6
<1>8. Only(s, S) = Kept[n]
  BY DEF Only
<1> DEFINE P(i) == SubSeq(s, 1, i)
           Good == {i \in 0..n : Kept[i] \in Seq(Nat)
                                 /\ \A x : Times(Kept[i], x) = IF x \in S THEN Times(P(i), x) ELSE 0}
<1>9. /\ P(0) = <<>> /\ P(n) = s
      /\ \A i \in 1..n : P(i - 1) \in Seq(Nat) /\ P(i) = Append(P(i - 1), s[i])
  OBVIOUS
<1> HIDE DEF Kept, P
<1>10. 0 \in Good
  <2>1. Kept[0] = <<>>
    BY <1>7
  <2>2. \A x : Times(<<>>, x) = 0
    BY TimesEmpty
  <2>3. <<>> \in Seq(Nat)
    OBVIOUS
  <2> QED BY <2>1, <2>2, <2>3, <1>1, <1>9
<1>11. ASSUME NEW i \in 1..n, i - 1 \in Good PROVE i \in Good
  <2>1. Kept[i] = IF s[i] \in S THEN Append(Kept[i - 1], s[i]) ELSE Kept[i - 1]
    BY <1>7
  <2>2. s[i] \in Nat /\ Kept[i - 1] \in Seq(Nat)
    BY <1>1, <1>11
  <2>3. ASSUME NEW x PROVE Times(Kept[i], x) = IF x \in S THEN Times(P(i), x) ELSE 0
    <3>1. Times(Kept[i - 1], x) = IF x \in S THEN Times(P(i - 1), x) ELSE 0
      BY <1>11
    <3>2. Times(P(i), x) = IF x = s[i] THEN Times(P(i - 1), x) + 1 ELSE Times(P(i - 1), x)
      <4>1. P(i - 1) \in Seq(Nat) /\ P(i) = Append(P(i - 1), s[i])
        BY <1>9
      <4> HIDE DEF Good
      <4> QED BY <4>1, <2>2, TimesAppend
    <3>3. s[i] \in S => Times(Kept[i], x) = IF x = s[i] THEN Times(Kept[i - 1], x) + 1 ELSE Times(Kept[i - 1], x)
      BY <2>1, <2>2, TimesAppend
    <3> QED BY <2>1, <3>1, <3>2, <3>3
  <2>4. Kept[i] \in Seq(Nat)
    BY <2>1, <2>2
  <2> QED BY <2>3, <2>4
<1>12. 0..n \subseteq Good
  <2> HIDE DEF Good, n
  <2> QED BY <1>1, <1>10, <1>11, UpTo
<1>13. n \in Good
  BY <1>12
<1> QED BY <1>8, <1>9, <1>13

----------------------------------------------------------------------------
(* Graphs that the calls keep well formed.                                  *)

Graphs == [type : Seq(Types), sons : Seq(Seq(Nat)), fathers : Seq(Seq(Nat)), home : Seq(Nat)]

SameNodes(g) == /\ DOMAIN g.sons = DOMAIN g.type /\ DOMAIN g.fathers = DOMAIN g.type
                /\ DOMAIN g.home = DOMAIN g.type

\* The edges stay among the nodes.
Closed(g) == \A n \in DOMAIN g.type : /\ Range(g.sons[n]) \subseteq DOMAIN g.type
                                       /\ Range(g.fathers[n]) \subseteq DOMAIN g.type

Mirrors(g) == \A n, m \in DOMAIN g.type : Times(g.sons[n], m) = Times(g.fathers[m], n)

\* The entry is the first node, and no edge leads to it.
EntryFirst(g) == /\ g.type # <<>>
                 /\ \A n \in DOMAIN g.type : g.type[n] = "ENTRYPOINT" <=> n = 1
                 /\ \A n \in DOMAIN g.type : 1 \notin Range(g.sons[n])

\* From an ENDIF, edges lead only to later ENDIFs.
EndifsOnward(g) == \A n \in DOMAIN g.type : g.type[n] = "ENDIF" =>
                     \A m \in Range(g.sons[n]) : g.type[m] = "ENDIF" => n < m

Sound(g) == /\ g \in Graphs /\ SameNodes(g) /\ Closed(g) /\ Mirrors(g)
            /\ EntryFirst(g) /\ EndifsOnward(g)

\* _new_node keeps the graph sound: the node comes without edges.
LEMMA NewKeeps ==
  ASSUME NEW g, Sound(g), NEW t \in Types \ {"ENTRYPOINT"}, InnerLoop \in Nat
  PROVE  Sound(New(g, t)) /\ New(g, t).type = Append(g.type, t)
<1> DEFINE h == New(g, t)
           N == Len(g.type)
<1>1. N \in Nat /\ N > 0 /\ DOMAIN g.type = 1..N /\ Len(g.sons) = N /\ Len(g.fathers) = N /\ Len(g.home) = N
  BY DEF Sound, Graphs, SameNodes, EntryFirst
<1>2. h \in Graphs /\ h.type = Append(g.type, t)
  BY DEF Sound, Graphs, New
<1>3. /\ DOMAIN h.type = 1..(N + 1) /\ DOMAIN h.sons = 1..(N + 1)
      /\ DOMAIN h.fathers = 1..(N + 1) /\ DOMAIN h.home = 1..(N + 1)
  BY <1>1 DEF Sound, Graphs, New
<1>4. /\ h.type[N + 1] = t /\ h.sons[N + 1] = <<>> /\ h.fathers[N + 1] = <<>>
      /\ \A n \in 1..N : h.type[n] = g.type[n] /\ h.sons[n] = g.sons[n] /\ h.fathers[n] = g.fathers[n]
  BY <1>1 DEF Sound, Graphs, New
<1>5. Closed(h)
  <2>1. \A n \in 1..N : Range(h.sons[n]) \subseteq 1..N /\ Range(h.fathers[n]) \subseteq 1..N
    BY <1>1, <1>4 DEF Sound, Closed
  <2>2. Range(<<>>) = {}
    BY DEF Range
  <2> HIDE DEF h, N
  <2>3. ASSUME NEW n \in 1..(N + 1)
        PROVE  Range(h.sons[n]) \subseteq 1..(N + 1) /\ Range(h.fathers[n]) \subseteq 1..(N + 1)
    <3>1. n \in 1..N \/ n = N + 1
      BY <1>1
    <3>2. 1..N \subseteq 1..(N + 1)
      BY <1>1
    <3> QED BY <1>4, <2>1, <2>2, <3>1, <3>2
  <2> QED BY <1>3, <2>3 DEF Closed
<1>6. Mirrors(h)
  <2> SUFFICES ASSUME NEW n \in 1..(N + 1), NEW m \in 1..(N + 1)
               PROVE  Times(h.sons[n], m) = Times(h.fathers[m], n)
    BY <1>3 DEF Mirrors
  <2>1. ASSUME NEW k \in 1..N PROVE Times(h.sons[k], N + 1) = 0 /\ Times(h.fathers[k], N + 1) = 0
    <3>1. h.sons[k] \in Seq(Nat) /\ h.fathers[k] \in Seq(Nat)
      <4> HIDE DEF h, N
      <4>1. h.sons \in Seq(Seq(Nat)) /\ h.fathers \in Seq(Seq(Nat))
        BY <1>2 DEF Graphs
      <4>2. k \in DOMAIN h.sons /\ k \in DOMAIN h.fathers
        BY <1>1, <1>3
      <4> QED BY <4>1, <4>2
    <3>2. N + 1 \notin Range(h.sons[k]) /\ N + 1 \notin Range(h.fathers[k])
      BY <1>1, <1>4 DEF Sound, Closed
    <3> QED BY <3>1, <3>2, TimesType
  <2>2. \A x : Times(<<>>, x) = 0
    BY TimesEmpty
  <2>3. CASE n \in 1..N /\ m \in 1..N
    BY <1>1, <1>4, <2>3 DEF Sound, Mirrors
  <2>4. CASE n = N + 1 \/ m = N + 1
    BY <1>1, <1>4, <2>1, <2>2, <2>4
  <2> QED BY <1>1, <2>3, <2>4
<1>7. EntryFirst(h)
  <2>1. Range(<<>>) = {}
    BY DEF Range
  <2> QED BY <1>1, <1>2, <1>3, <1>4, <2>1 DEF Sound, EntryFirst
<1>8. EndifsOnward(h)
  <2>1. Range(<<>>) = {}
    BY DEF Range
  <2>2. \A n \in 1..N : Range(g.sons[n]) \subseteq 1..N
    BY <1>1 DEF Sound, Closed
  <2> HIDE DEF h, N
  <2>3. ASSUME NEW n \in 1..(N + 1), h.type[n] = "ENDIF", NEW m \in Range(h.sons[n]), h.type[m] = "ENDIF"
        PROVE  n < m
    <3>1. n \in 1..N
      BY <1>1, <1>4, <2>1
    <3>2. m \in Range(g.sons[n]) /\ m \in 1..N
      BY <1>4, <2>2, <3>1
    <3> QED BY <1>1, <1>4, <2>3, <3>1, <3>2 DEF Sound, EndifsOnward
  <2> QED BY <1>3, <2>3 DEF EndifsOnward
<1> QED BY <1>2, <1>3, <1>5, <1>6, <1>7, <1>8 DEF Sound, SameNodes

\* link_nodes keeps it sound, unless the edge enters the entry or goes back from
\* an ENDIF to an earlier one.
LEMMA LinkKeeps ==
  ASSUME NEW g, Sound(g), NEW n \in DOMAIN g.type, NEW m \in DOMAIN g.type, m # 1,
         g.type[n] = "ENDIF" /\ g.type[m] = "ENDIF" => n < m
  PROVE  Sound(Link(g, n, m)) /\ Link(g, n, m).type = g.type
<1> DEFINE h == Link(g, n, m)
           N == Len(g.type)
<1>1. N \in Nat /\ N > 0 /\ DOMAIN g.type = 1..N /\ Len(g.sons) = N /\ Len(g.fathers) = N /\ Len(g.home) = N
  BY DEF Sound, Graphs, SameNodes, EntryFirst
<1>2. \A k \in 1..N : g.sons[k] \in Seq(Nat) /\ g.fathers[k] \in Seq(Nat)
  BY <1>1 DEF Sound, Graphs
<1>3. /\ h.type = g.type /\ h.home = g.home
      /\ h.sons = [g.sons EXCEPT ![n] = Append(g.sons[n], m)]
      /\ h.fathers = [g.fathers EXCEPT ![m] = Append(g.fathers[m], n)]
  BY DEF Sound, Graphs, Link
<1>4. Append(g.sons[n], m) \in Seq(Nat) /\ Append(g.fathers[m], n) \in Seq(Nat)
  BY <1>1, <1>2
<1>5. h \in Graphs /\ SameNodes(h)
  <2>1. g.sons \in Seq(Seq(Nat)) /\ g.fathers \in Seq(Seq(Nat))
    BY DEF Sound, Graphs
  <2>2. [g.sons EXCEPT ![n] = Append(g.sons[n], m)] \in Seq(Seq(Nat))
    BY <1>1, <1>4, <2>1, ExceptSeq
  <2>3. [g.fathers EXCEPT ![m] = Append(g.fathers[m], n)] \in Seq(Seq(Nat))
    BY <1>1, <1>4, <2>1, ExceptSeq
  <2>4. h \in Graphs
    BY <2>2, <2>3 DEF Sound, Graphs, Link
  <2> QED BY <1>1, <1>3, <2>4 DEF Sound, Graphs, SameNodes
<1>6. /\ \A k \in 1..N : h.sons[k] = IF k = n THEN Append(g.sons[n], m) ELSE g.sons[k]
      /\ \A k \in 1..N : h.fathers[k] = IF k = m THEN Append(g.fathers[m], n) ELSE g.fathers[k]
  <2>1. DOMAIN g.sons = 1..N /\ DOMAIN g.fathers = 1..N
    BY <1>1 DEF Sound, Graphs
  <2> HIDE DEF h, N
  <2> QED BY <1>1, <1>3, <2>1
<1>a. n \in 1..N /\ m \in 1..N /\ n \in Nat /\ m \in Nat /\ g.sons[n] \in Seq(Nat) /\ g.fathers[m] \in Seq(Nat)
  BY <1>1, <1>2
<1> HIDE DEF h, N
<1>7. Range(Append(g.sons[n], m)) = Range(g.sons[n]) \cup {m} /\ Range(Append(g.fathers[m], n)) = Range(g.fathers[m]) \cup {n}
  BY <1>a, RangeAppend
<1>8. Closed(h)
  <2> SUFFICES ASSUME NEW k \in 1..N
               PROVE  Range(h.sons[k]) \subseteq 1..N /\ Range(h.fathers[k]) \subseteq 1..N
    BY <1>1, <1>3 DEF Closed
  <2>1. Range(g.sons[k]) \subseteq 1..N /\ Range(g.fathers[k]) \subseteq 1..N
    BY <1>1 DEF Sound, Closed
  <2>2. Range(h.sons[k]) \subseteq 1..N
    BY <1>a, <1>6, <1>7, <2>1
  <2>3. Range(h.fathers[k]) \subseteq 1..N
    BY <1>a, <1>6, <1>7, <2>1
  <2> QED BY <2>2, <2>3
<1>9. Mirrors(h)
  <2> SUFFICES ASSUME NEW k \in 1..N, NEW l \in 1..N
               PROVE  Times(h.sons[k], l) = Times(h.fathers[l], k)
    BY <1>1, <1>3 DEF Mirrors
  <2>1. Times(Append(g.sons[n], m), l) = IF l = m THEN Times(g.sons[n], l) + 1 ELSE Times(g.sons[n], l)
    BY <1>a, TimesAppend
  <2>2. Times(Append(g.fathers[m], n), k) = IF k = n THEN Times(g.fathers[m], k) + 1 ELSE Times(g.fathers[m], k)
    BY <1>a, TimesAppend
  <2>3. Times(g.sons[k], l) = Times(g.fathers[l], k)
    BY <1>1 DEF Sound, Mirrors
  <2> QED BY <1>6, <2>1, <2>2, <2>3
<1>10. EntryFirst(h)
  BY <1>1, <1>3, <1>6, <1>7 DEF Sound, EntryFirst
<1>11. EndifsOnward(h)
  BY <1>1, <1>3, <1>6, <1>7 DEF Sound, EndifsOnward
<1> QED BY <1>3, <1>5, <1>8, <1>9, <1>10, <1>11 DEF Sound, h

\* h is g where n has lost sons.
Rewired(g, h, n) ==
  /\ Sound(h) /\ h.type = g.type
  /\ \A k \in DOMAIN g.type : /\ Range(h.fathers[k]) \subseteq Range(g.fathers[k])
                              /\ k \notin Range(g.sons[n]) => h.fathers[k] = g.fathers[k]

\* A node may lose sons, all its edges to a son at once.
LEMMA SetSonsKeeps ==
  ASSUME NEW g, Sound(g), NEW n \in DOMAIN g.type, NEW s \in Seq(Nat),
         \A x : Times(s, x) # 0 => Times(s, x) = Times(g.sons[n], x)
  PROVE  Rewired(g, SetSons(g, n, s), n)
<1> DEFINE h == SetSons(g, n, s)
           N == Len(g.type)
           lost == Range(g.sons[n]) \ Range(s)
<1>1. N \in Nat /\ N > 0 /\ DOMAIN g.type = 1..N /\ Len(g.sons) = N /\ Len(g.fathers) = N /\ Len(g.home) = N
  BY DEF Sound, Graphs, SameNodes, EntryFirst
<1>2. \A k \in 1..N : g.sons[k] \in Seq(Nat) /\ g.fathers[k] \in Seq(Nat)
  BY <1>1 DEF Sound, Graphs
<1>3. Range(s) \subseteq Range(g.sons[n])
  <2> SUFFICES ASSUME NEW x \in Range(s) PROVE x \in Range(g.sons[n])
    OBVIOUS
  <2>1. Times(s, x) # 0
    BY TimesType
  <2> QED BY <1>1, <1>2, <2>1, TimesType
<1>4. /\ h.type = g.type /\ h.home = g.home
      /\ h.sons = [g.sons EXCEPT ![n] = s]
      /\ h.fathers = [m \in DOMAIN g.fathers |-> IF m \in lost THEN Without(g.fathers[m], n) ELSE g.fathers[m]]
  BY DEF Sound, Graphs, SetSons
<1>5. ASSUME NEW m \in 1..N
      PROVE  /\ Without(g.fathers[m], n) \in Seq(Nat)
             /\ \A x : Times(Without(g.fathers[m], n), x) = IF x = n THEN 0 ELSE Times(g.fathers[m], x)
  <2>1. g.fathers[m] \in Seq(Nat)
    BY <1>2
  <2>2. \A x : x \notin Range(g.fathers[m]) => Times(g.fathers[m], x) = 0
    BY <2>1, TimesType
  <2> QED BY <2>1, <2>2, OnlyTimes DEF Without
<1>6. /\ \A k \in 1..N : h.sons[k] = IF k = n THEN s ELSE g.sons[k]
      /\ \A k \in 1..N : h.fathers[k] = IF k \in lost THEN Without(g.fathers[k], n) ELSE g.fathers[k]
  BY <1>1, <1>4 DEF Sound, Graphs
<1>7. h \in Graphs /\ SameNodes(h)
  <2>1. h.fathers \in Seq(Seq(Nat)) /\ DOMAIN h.fathers = 1..N
    <3> DEFINE e(k) == IF k \in lost THEN Without(g.fathers[k], n) ELSE g.fathers[k]
    <3>1. DOMAIN g.fathers = 1..N
      BY <1>1 DEF Sound, Graphs
    <3>2. \A k \in 1..N : e(k) \in Seq(Nat)
      BY <1>2, <1>5
    <3>3. h.fathers = [k \in 1..N |-> e(k)]
      BY <1>4, <3>1
    <3> HIDE DEF e, h, N
    <3>4. [k \in 1..N |-> e(k)] \in Seq(Seq(Nat))
      BY <1>1, <3>2, IsASeq
    <3> QED BY <3>3, <3>4
  <2>2. [g.sons EXCEPT ![n] = s] \in Seq(Seq(Nat)) /\ DOMAIN [g.sons EXCEPT ![n] = s] = 1..N
    BY <1>1, ExceptSeq DEF Sound, Graphs
  <2>3. h = [g EXCEPT !.sons = h.sons, !.fathers = h.fathers]
    BY DEF SetSons, Sound, Graphs
  <2>4. h \in Graphs
    BY <1>4, <2>1, <2>2, <2>3 DEF Sound, Graphs
  <2> QED BY <1>1, <1>4, <2>1, <2>2, <2>4 DEF Sound, Graphs, SameNodes
<1>8. \A k \in 1..N : Range(h.sons[k]) \subseteq Range(g.sons[k])
  BY <1>3, <1>6
<1>9. ASSUME NEW k \in 1..N PROVE Range(h.fathers[k]) \subseteq Range(g.fathers[k])
  <2> SUFFICES ASSUME NEW x \in Range(h.fathers[k]) PROVE x \in Range(g.fathers[k])
    OBVIOUS
  <2>1. h.fathers[k] \in Seq(Nat) /\ g.fathers[k] \in Seq(Nat)
    BY <1>2, <1>5, <1>6
  <2>2. Times(h.fathers[k], x) # 0
    BY <2>1, TimesType
  <2>3. Times(g.fathers[k], x) # 0
    BY <1>5, <1>6, <2>2
  <2> QED BY <2>1, <2>3, TimesType
<1>10. Closed(h)
  BY <1>1, <1>4, <1>8, <1>9 DEF Sound, Closed
<1>11. Mirrors(h)
  <2> SUFFICES ASSUME NEW k \in 1..N, NEW l \in 1..N
               PROVE  Times(h.sons[k], l) = Times(h.fathers[l], k)
    BY <1>1, <1>4 DEF Mirrors
  <2>1. Times(g.sons[k], l) = Times(g.fathers[l], k)
    BY <1>1 DEF Sound, Mirrors
  <2>2. CASE k # n
    BY <1>5, <1>6, <2>1, <2>2
  <2>3. CASE k = n /\ l \in lost
    <3>1. Times(s, l) = 0
      BY <2>3, TimesType
    <3> QED BY <1>5, <1>6, <2>3, <3>1
  <2>4. CASE k = n /\ l \notin lost
    <3>1. Times(s, l) = Times(g.sons[n], l)
      <4>1. CASE l \in Range(s)
        BY <4>1, TimesType
      <4>2. CASE l \notin Range(s)
        <5>1. l \notin Range(g.sons[n])
          BY <2>4, <4>2
        <5> QED BY <1>1, <1>2, <4>2, <5>1, TimesType
      <4> QED BY <4>1, <4>2
    <3> QED BY <1>6, <2>1, <2>4, <3>1
  <2> QED BY <2>2, <2>3, <2>4
<1>12. EntryFirst(h)
  BY <1>1, <1>4, <1>8 DEF Sound, EntryFirst
<1>13. EndifsOnward(h)
  BY <1>1, <1>4, <1>8 DEF Sound, EndifsOnward
<1>14. Sound(h)
  BY <1>7, <1>10, <1>11, <1>12, <1>13 DEF Sound
<1>15. \A k \in 1..N : k \notin Range(g.sons[n]) => h.fathers[k] = g.fathers[k]
  BY <1>6
<1> HIDE DEF h
<1> QED BY <1>1, <1>4, <1>9, <1>14, <1>15 DEF h, Rewired

\* So does taking all of its sons from a node.
LEMMA CutKeeps ==
  ASSUME NEW g, Sound(g), NEW n \in DOMAIN g.type
  PROVE  Rewired(g, SetSons(g, n, <<>>), n)
<1>1. <<>> \in Seq(Nat) /\ \A x : Times(<<>>, x) # 0 => Times(<<>>, x) = Times(g.sons[n], x)
  BY TimesEmpty
<1> QED BY <1>1, SetSonsKeeps

----------------------------------------------------------------------------
(* The searches for the loop of a jump end, and answer with a node.         *)

\* Min of a set that is not empty is in it.
LEMMA MinIn ==
  ASSUME NEW S \in SUBSET Nat, S # {}
  PROVE  Min(S) \in S
<1>1. PICK m \in S : \A k \in S : ~(k < m)
  BY Least
<1>2. \A k \in S : m =< k
  BY <1>1
<1> QED BY <1>2 DEF Min

\* The first answer that is not 0 is one of the answers, and 0 if there is none.
LEMMA FirstFoundIn ==
  ASSUME NEW T, 0 \in T, NEW k \in Nat, NEW found, DOMAIN found = 1..k,
         \A i \in 1..k : found[i] \in T
  PROVE  FirstFound(found) \in T
<1> DEFINE hits == {i \in DOMAIN found : found[i] # 0}
<1>1. hits \in SUBSET Nat /\ hits \subseteq 1..k
  OBVIOUS
<1>2. hits # {} => Min(hits) \in hits
  <2> HIDE DEF hits
  <2> QED BY <1>1, MinIn
<1> QED BY <1>1, <1>2 DEF FirstFound

\* f is the search along next that answers the calls in stops and goes on from
\* the others.
IsSearch(f, next, level, stops, answer) ==
  f = [s \in Searches |-> IF s \in stops THEN answer[s]
                          ELSE LET calls == Deeper(s, next[s.node], level[s])
                               IN  FirstFound([i \in DOMAIN calls |-> f[calls[i]]])]

\* A search that stops at the nodes it has visited is well defined.
LEMMA SearchAnswers ==
  ASSUME NEW T, 0 \in T, NEW next, NEW level \in [Searches -> Int], Size \in Nat, Ids = 1..Size,
         \A n \in Ids : next[n] \in Seq(Nat) /\ Range(next[n]) \subseteq Ids,
         NEW stops \in SUBSET Searches, NEW answer \in [stops -> T],
         \A s \in Searches \ stops : s.node \notin s.visited
  PROVE  /\ \E f : IsSearch(f, next, level, stops, answer)
         /\ \A f : IsSearch(f, next, level, stops, answer) => \A s \in Searches : f[s] \in T
<1> DEFINE Calls(s) == Deeper(s, next[s.node], level[s])
           Found(f, s) == [i \in DOMAIN Calls(s) |-> f[Calls(s)[i]]]
           Value(f, s) == IF s \in stops THEN answer[s] ELSE FirstFound(Found(f, s))
           step == [f \in [Searches -> T] |-> [s \in Searches |-> Value(f, s)]]
           rank == [s \in Searches |-> Size - Cardinality(s.visited)]
<1>1. ASSUME NEW V \in SUBSET Ids
      PROVE  Cardinality(V) \in 0..Size /\ IsFiniteSet(V)
  <2>1. IsFiniteSet(Ids) /\ Cardinality(Ids) = Size
    BY FS_Interval
  <2>2. IsFiniteSet(V) /\ Cardinality(V) <= Size
    BY <2>1, FS_Subset
  <2>3. Cardinality(V) \in Nat
    BY <2>2, FS_CardinalityType
  <2> QED BY <2>2, <2>3
<1>2. \A s \in Searches : s.node \in Ids /\ s.visited \in SUBSET Ids
  BY DEF Searches
<1>3. rank \in [Searches -> 0..Size]
  <2> SUFFICES ASSUME NEW s \in Searches PROVE Size - Cardinality(s.visited) \in 0..Size
    OBVIOUS
  <2>1. Cardinality(s.visited) \in 0..Size
    BY <1>1, <1>2
  <2> QED BY <2>1
<1>4. ASSUME NEW s \in Searches \ stops
      PROVE  /\ DOMAIN Calls(s) = 1..Len(next[s.node]) /\ Len(next[s.node]) \in Nat
             /\ \A i \in DOMAIN Calls(s) : Calls(s)[i] \in Searches /\ rank[Calls(s)[i]] < rank[s]
  <2>1. next[s.node] \in Seq(Nat) /\ Range(next[s.node]) \subseteq Ids
    BY <1>2
  <2>2. DOMAIN Calls(s) = 1..Len(next[s.node]) /\ Len(next[s.node]) \in Nat
    BY <2>1 DEF Deeper
  <2>3. ASSUME NEW i \in 1..Len(next[s.node])
        PROVE  Calls(s)[i] \in Searches /\ Calls(s)[i].visited = s.visited \cup {s.node}
    <3>1. next[s.node][i] \in Ids
      BY <2>1 DEF Range
    <3>2. level[s] \in Int /\ s.visited \cup {s.node} \in SUBSET Ids
      BY <1>2
    <3>3. Calls(s)[i] = [node |-> next[s.node][i], visited |-> s.visited \cup {s.node}, level |-> level[s]]
      BY <2>1 DEF Deeper
    <3> QED BY <3>1, <3>2, <3>3 DEF Searches
  <2>4. Cardinality(s.visited \cup {s.node}) = Cardinality(s.visited) + 1
    BY <1>1, <1>2, FS_AddElement
  <2>5. Cardinality(s.visited) \in Nat
    BY <1>1, <1>2
  <2>6. ASSUME NEW i \in 1..Len(next[s.node]) PROVE rank[Calls(s)[i]] < rank[s]
    <3>1. Calls(s)[i] \in Searches /\ Calls(s)[i].visited = s.visited \cup {s.node}
      BY <2>3
    <3> HIDE DEF Calls
    <3>2. rank[Calls(s)[i]] = Size - Cardinality(Calls(s)[i].visited) /\ rank[s] = Size - Cardinality(s.visited)
      BY <3>1
    <3> QED BY <2>4, <2>5, <3>1, <3>2
  <2> QED BY <2>2, <2>3, <2>6
<1>5. ASSUME NEW f, NEW s \in Searches \ stops, \A c \in Searches : rank[c] < rank[s] => f[c] \in T
      PROVE  FirstFound(Found(f, s)) \in T
  <2> HIDE DEF Calls, rank
  <2>1. \A i \in DOMAIN Calls(s) : Found(f, s)[i] \in T
    BY <1>4, <1>5
  <2>2. DOMAIN Found(f, s) = 1..Len(next[s.node]) /\ Len(next[s.node]) \in Nat
    BY <1>4
  <2> HIDE DEF Found
  <2> QED BY <1>4, <2>1, <2>2, FirstFoundIn
<1>6. step \in [[Searches -> T] -> [Searches -> T]]
  <2> SUFFICES ASSUME NEW f \in [Searches -> T], NEW s \in Searches PROVE Value(f, s) \in T
    OBVIOUS
  <2> HIDE DEF Found, rank
  <2> QED BY <1>5
<1>7. ASSUME NEW g \in [Searches -> T], NEW h \in [Searches -> T], NEW s \in Searches,
             \A c \in Searches : rank[c] < rank[s] => g[c] = h[c]
      PROVE  step[g][s] = step[h][s]
  <2>1. step[g][s] = Value(g, s) /\ step[h][s] = Value(h, s)
    BY Zenon
  <2> HIDE DEF step, rank, Calls
  <2>2. CASE s \in stops
    BY <2>1, <2>2
  <2>3. CASE s \notin stops
    <3>1. Found(g, s) = Found(h, s)
      BY <1>4, <1>7, <2>3
    <3> HIDE DEF Found
    <3> QED BY <2>1, <3>1
  <2> QED BY <2>2, <2>3
<1>8. FixedPoint(Searches, T, step)
  <2> HIDE DEF step, rank
  <2> QED BY <1>3, <1>6, <1>7, RankRecursion
<1>9. \E f : IsSearch(f, next, level, stops, answer)
  <2>1. PICK f \in [Searches -> T] : f = step[f]
    BY <1>8 DEF FixedPoint
  <2>2. step[f] = [s \in Searches |-> Value(f, s)]
    BY Zenon
  <2>3. f = [s \in Searches |-> Value(f, s)]
    BY <2>1, <2>2
  <2> QED BY <2>3 DEF IsSearch
<1>10. ASSUME NEW f, IsSearch(f, next, level, stops, answer)
       PROVE  \A s \in Searches : f[s] \in T
  <2> DEFINE S == {s \in Searches : f[s] \in T}
  <2>1. f = [s \in Searches |-> Value(f, s)]
    BY <1>10 DEF IsSearch
  <2>2. ASSUME NEW s \in Searches, \A c \in Searches : rank[c] < rank[s] => c \in S
        PROVE  s \in S
    <3>1. f[s] = Value(f, s)
      <4> HIDE DEF Value
      <4> QED BY <2>1
    <3> HIDE DEF Found, rank
    <3>2. CASE s \in stops
      BY <3>1, <3>2
    <3>3. CASE s \notin stops
      BY <1>5, <2>2, <3>1, <3>3
    <3> QED BY <3>2, <3>3
  <2>3. Searches \subseteq S
    <3> HIDE DEF S, rank
    <3>1. Inherited(Searches, rank, S)
      BY <2>2 DEF Inherited
    <3> QED BY <1>3, <3>1, ByRank
  <2> QED BY <2>3
<1> QED BY <1>9, <1>10

\* A jump is led to a node behind the entry, or to none.
Targets == {0} \cup (Ids \ {1})

\* The variables of a sound graph, spelled out.
LEMMA NodesOfGraph ==
  ASSUME Sound(Graph)
  PROVE  /\ Size \in Nat /\ Size > 0 /\ Ids = 1..Size
         /\ type \in Seq(Types) /\ sons \in Seq(Seq(Nat)) /\ fathers \in Seq(Seq(Nat)) /\ home \in Seq(Nat)
         /\ DOMAIN sons = Ids /\ DOMAIN fathers = Ids /\ DOMAIN home = Ids
         /\ \A n \in Ids : /\ sons[n] \in Seq(Nat) /\ Range(sons[n]) \subseteq Ids
                           /\ fathers[n] \in Seq(Nat) /\ Range(fathers[n]) \subseteq Ids
                           /\ type[n] \in Types
<1>1. /\ type \in Seq(Types) /\ sons \in Seq(Seq(Nat)) /\ fathers \in Seq(Seq(Nat)) /\ home \in Seq(Nat)
      /\ type # <<>>
  BY DEF Sound, Graphs, Graph, EntryFirst
<1>2. DOMAIN sons = DOMAIN type /\ DOMAIN fathers = DOMAIN type /\ DOMAIN home = DOMAIN type
  BY DEF Sound, SameNodes, Graph
<1>3. \A n \in DOMAIN type : Range(sons[n]) \subseteq DOMAIN type /\ Range(fathers[n]) \subseteq DOMAIN type
  BY DEF Sound, Closed, Graph
<1>4. Size \in Nat /\ Size > 0 /\ Ids = 1..Size
  BY <1>1 DEF Size, Ids
<1>5. \A n \in Ids : sons[n] \in Seq(Nat) /\ fathers[n] \in Seq(Nat) /\ type[n] \in Types
  BY <1>1, <1>2 DEF Ids
<1> QED BY <1>1, <1>2, <1>3, <1>4, <1>5 DEF Ids

\* _find_end_loop comes to an end in every graph.
LEMMA EndLoopFound ==
  ASSUME Sound(Graph), NEW s \in Searches
  PROVE  FindEndLoop[s] \in Targets
<1> DEFINE Into(c) == CASE type[c.node] = "ENDLOOP"   -> c.level - 1
                        [] type[c.node] = "STARTLOOP" -> c.level + 1
                        [] OTHER                      -> c.level
           level == [c \in Searches |-> Into(c)]
           stops == {c \in Searches : c.node \in c.visited \/ (type[c.node] = "ENDLOOP" /\ c.level = 0)}
           answer == [c \in stops |-> IF c.node \in c.visited THEN 0 ELSE c.node]
           Rest(f, c, l) == LET calls == Deeper(c, sons[c.node], l)
                            IN  FirstFound([i \in DOMAIN calls |-> f[calls[i]]])
           Body(f, c) == IF c.node \in c.visited THEN 0
                         ELSE IF type[c.node] = "ENDLOOP" /\ c.level = 0 THEN c.node
                         ELSE Rest(f, c, Into(c))
           Def(f) == f = [c \in Searches |-> Body(f, c)]
<1>1. level \in [Searches -> Int] /\ stops \in SUBSET Searches
      /\ \A c \in Searches \ stops : c.node \notin c.visited
  <2>1. ASSUME NEW c \in Searches PROVE Into(c) \in Int
    <3>1. c.level \in Int
      BY DEF Searches
    <3> QED BY <3>1
  <2>2. level \in [Searches -> Int]
    <3> HIDE DEF Into
    <3> QED BY <2>1
  <2> HIDE DEF level
  <2> QED BY <2>2
<1>2. answer \in [stops -> Targets]
  <2> SUFFICES ASSUME NEW c \in stops, c.node \notin c.visited PROVE c.node \in Targets
    BY DEF Targets
  <2>1. c.node \in Ids /\ type[c.node] = "ENDLOOP"
    BY DEF Searches
  <2>2. type[c.node] = "ENTRYPOINT" <=> c.node = 1
    BY <2>1 DEF Sound, EntryFirst, Graph, Ids
  <2> QED BY <2>1, <2>2 DEF Targets
<1>3. ASSUME NEW f PROVE IsSearch(f, sons, level, stops, answer) <=> Def(f)
  <2>1. ASSUME NEW c \in Searches
        PROVE  Body(f, c) = IF c \in stops THEN answer[c] ELSE Rest(f, c, level[c])
    <3> HIDE DEF Into, Rest
    <3>1. level[c] = Into(c)
      OBVIOUS
    <3> HIDE DEF level
    <3>2. CASE c \in stops
      BY <3>2
    <3>3. CASE c \notin stops
      BY <3>1, <3>3
    <3> QED BY <3>2, <3>3
  <2> HIDE DEF Body, level, stops, answer
  <2> QED BY <2>1 DEF IsSearch
<1>4. /\ \E f : IsSearch(f, sons, level, stops, answer)
      /\ \A f : IsSearch(f, sons, level, stops, answer) => \A c \in Searches : f[c] \in Targets
  <2>1. 0 \in Targets
    BY DEF Targets
  <2> HIDE DEF level, stops, answer
  <2> QED BY <1>1, <1>2, <2>1, NodesOfGraph, SearchAnswers
<1>5. FindEndLoop = CHOOSE f : Def(f)
  BY DEF FindEndLoop
<1>6. Def(FindEndLoop)
  <2> HIDE DEF Def, level, stops, answer
  <2>1. \E f : Def(f)
    BY <1>3, <1>4
  <2> QED BY <1>5, <2>1
<1> HIDE DEF Def, level, stops, answer
<1> QED BY <1>3, <1>4, <1>6

\* And so does _find_if_loop, whose search runs along the fathers.
LEMMA IfLoopFound ==
  ASSUME Sound(Graph), NEW s \in Searches
  PROVE  FindIfLoop[s] \in Targets
<1> DEFINE Into(c) == CASE type[c.node] = "STARTLOOP" -> c.level - 1
                        [] type[c.node] = "ENDLOOP"   -> c.level + 1
                        [] OTHER                      -> c.level
           level == [c \in Searches |-> Into(c)]
           steps(c) == {i \in DOMAIN fathers[c.node] : type[fathers[c.node][i]] = "EXPRESSION"}
           Start(c) == IF steps(c) = {} THEN c.node ELSE fathers[c.node][Min(steps(c))]
           stops == {c \in Searches : c.node \in c.visited \/ (type[c.node] \in {"IFLOOP", "STARTLOOP"} /\ c.level = 0)}
           answer == [c \in stops |-> IF c.node \in c.visited THEN 0
                                      ELSE IF type[c.node] = "IFLOOP" THEN Start(c) ELSE c.node]
           Rest(f, c, l) == LET calls == Deeper(c, fathers[c.node], l)
                            IN  FirstFound([i \in DOMAIN calls |-> f[calls[i]]])
           Body(f, c) == IF c.node \in c.visited THEN 0
                         ELSE IF type[c.node] = "IFLOOP" /\ c.level = 0 THEN Start(c)
                         ELSE IF type[c.node] = "STARTLOOP" /\ c.level = 0 THEN c.node
                         ELSE Rest(f, c, Into(c))
           Def(f) == f = [c \in Searches |-> Body(f, c)]
<1>1. level \in [Searches -> Int] /\ stops \in SUBSET Searches
      /\ \A c \in Searches \ stops : c.node \notin c.visited
  <2>1. ASSUME NEW c \in Searches PROVE Into(c) \in Int
    <3>1. c.level \in Int
      BY DEF Searches
    <3> QED BY <3>1
  <2>2. level \in [Searches -> Int]
    <3> HIDE DEF Into
    <3> QED BY <2>1
  <2> HIDE DEF level
  <2> QED BY <2>2
<1>2. answer \in [stops -> Targets]
  <2> SUFFICES ASSUME NEW c \in stops, c.node \notin c.visited
               PROVE  c.node \in Targets /\ (type[c.node] = "IFLOOP" => Start(c) \in Targets)
    <3> HIDE DEF Start
    <3> QED BY DEF Targets
  <2>1. c.node \in Ids /\ type[c.node] \in {"IFLOOP", "STARTLOOP"}
    BY DEF Searches
  <2>2. \A n \in Ids : type[n] = "ENTRYPOINT" <=> n = 1
    BY DEF Sound, EntryFirst, Graph, Ids
  <2>3. c.node \in Targets
    BY <2>1, <2>2 DEF Targets
  <2>4. ASSUME steps(c) # {} PROVE fathers[c.node][Min(steps(c))] \in Targets
    <3>1. steps(c) \in SUBSET Nat /\ \A i \in steps(c) : fathers[c.node][i] \in Ids /\ type[fathers[c.node][i]] = "EXPRESSION"
      <4>1. fathers[c.node] \in Seq(Nat) /\ Range(fathers[c.node]) \subseteq Ids
        BY <2>1, NodesOfGraph
      <4> QED BY <4>1 DEF Range
    <3>2. Min(steps(c)) \in steps(c)
      <4> HIDE DEF steps
      <4> QED BY <2>4, <3>1, MinIn
    <3> HIDE DEF steps
    <3> QED BY <2>2, <3>1, <3>2 DEF Targets
  <2> QED BY <2>3, <2>4
<1>3. ASSUME NEW f PROVE IsSearch(f, fathers, level, stops, answer) <=> Def(f)
  <2>1. ASSUME NEW c \in Searches
        PROVE  Body(f, c) = IF c \in stops THEN answer[c] ELSE Rest(f, c, level[c])
    <3> HIDE DEF Into, Rest, Start
    <3>1. level[c] = Into(c)
      OBVIOUS
    <3> HIDE DEF level
    <3>2. CASE c \in stops
      BY <3>2
    <3>3. CASE c \notin stops
      BY <3>1, <3>3
    <3> QED BY <3>2, <3>3
  <2> HIDE DEF Body, level, stops, answer
  <2> QED BY <2>1 DEF IsSearch
<1>4. /\ \E f : IsSearch(f, fathers, level, stops, answer)
      /\ \A f : IsSearch(f, fathers, level, stops, answer) => \A c \in Searches : f[c] \in Targets
  <2>1. 0 \in Targets
    BY DEF Targets
  <2> HIDE DEF level, stops, answer
  <2> QED BY <1>1, <1>2, <2>1, NodesOfGraph, SearchAnswers
<1>5. FindIfLoop = CHOOSE f : Def(f)
  BY DEF FindIfLoop
<1>6. Def(FindIfLoop)
  <2> HIDE DEF Def, level, stops, answer
  <2>1. \E f : Def(f)
    BY <1>3, <1>4
  <2> QED BY <1>5, <2>1
<1> HIDE DEF Def, level, stops, answer
<1> QED BY <1>3, <1>4, <1>6

\* No jump is led to the entry or out of the function.
LEMMA JumpTargets ==
  ASSUME Sound(Graph), NEW n \in Ids
  PROVE  BreakTarget(n) \in Targets /\ ContinueTarget(n) \in Targets
<1>1. \A l \in Int : Search(n, l) \in Searches
  BY DEF Search, Searches
<1>2. FindEndLoop[Search(n, 0)] \in Targets /\ FindEndLoop[Search(n, -1)] \in Targets
  BY <1>1, EndLoopFound
<1>3. ContinueTarget(n) \in Targets
  BY <1>1, IfLoopFound DEF ContinueTarget
<1>4. BreakTarget(n) \in Targets
  <2> DEFINE found == <<FindEndLoop[Search(n, 0)], FindEndLoop[Search(n, -1)]>>
  <2>1. DOMAIN found = 1..2 /\ \A i \in 1..2 : found[i] \in Targets
    BY <1>2
  <2>2. 0 \in Targets
    BY DEF Targets
  <2> HIDE DEF found
  <2>3. FirstFound(found) \in Targets
    BY <2>1, <2>2, FirstFoundIn
  <2> QED BY <2>3 DEF BreakTarget, found
<1> QED BY <1>3, <1>4

----------------------------------------------------------------------------
(* The passes over all nodes.                                               *)

\* Graphs with the nodes of the present one.
Reworked == {g \in Graphs : Sound(g) /\ g.type = type}

\* Taking the ENDLOOPs away after a STARTLOOP keeps the graph sound.
LEMMA PruneStartKeeps ==
  ASSUME Sound(Graph), NEW g \in Reworked, NEW n \in Ids
  PROVE  PruneStart(g, n) \in Reworked
<1> DEFINE kept == Only(g.sons[n], {m \in Ids : type[m] # "ENDLOOP"})
<1>1. Sound(g) /\ g.type = type /\ n \in DOMAIN g.type
  BY DEF Reworked, Ids
<1>2. g.sons[n] \in Seq(Nat)
  BY <1>1 DEF Sound, Graphs, SameNodes
<1>3. kept \in Seq(Nat) /\ \A x : Times(kept, x) # 0 => Times(kept, x) = Times(g.sons[n], x)
  BY <1>2, OnlyTimes
<1> HIDE DEF kept
<1>4. Sound(SetSons(g, n, kept)) /\ SetSons(g, n, kept).type = type
  BY <1>1, <1>3, SetSonsKeeps DEF Rewired
<1>5. SetSons(g, n, kept) \in Reworked
  BY <1>4 DEF Reworked, Sound
<1> QED BY <1>5 DEF PruneStart, kept

\* And so does the loop over all nodes, by induction on how many it has passed.
LEMMA PruneKeeps ==
  ASSUME Sound(Graph), Prune
  PROVE  Sound(Graph') /\ type' = type
<1> DEFINE step == [p \in (1..Size) \X Reworked |-> PruneStart(p[2], p[1])]
           Value(f, k) == IF k = 0 THEN Graph ELSE PruneStart(f[k - 1], k)
           Def(f) == f = [k \in 0..Size |-> Value(f, k)]
           Pruned == CHOOSE f : Def(f)
<1>1. Size \in Nat /\ Ids = 1..Size
  BY NodesOfGraph
<1>2. Graph \in Reworked
  BY DEF Reworked, Sound, Graph
<1>3. step \in [(1..Size) \X Reworked -> Reworked]
  BY <1>1, PruneStartKeeps
<1>4. PICK f \in [0..Size -> Reworked] : f[0] = Graph /\ \A k \in 1..Size : f[k] = step[<<k, f[k - 1]>>]
  <2> HIDE DEF step
  <2>1. Iterated(Size, Reworked, Graph, step)
    BY <1>1, <1>2, <1>3, Recursion
  <2> QED BY <2>1 DEF Iterated
<1>5. ASSUME NEW k \in 0..Size PROVE f[k] = Value(f, k)
  <2>1. CASE k = 0
    BY <1>4, <2>1
  <2>2. CASE k # 0
    <3>1. k \in 1..Size /\ k - 1 \in 0..Size
      BY <1>1, <2>2
    <3>2. f[k - 1] \in Reworked
      BY <3>1
    <3>3. f[k] = step[<<k, f[k - 1]>>]
      BY <1>4, <3>1
    <3> QED BY <2>2, <3>1, <3>2, <3>3
  <2> QED BY <2>1, <2>2
<1>6. Def(f)
  <2> HIDE DEF Value
  <2> QED BY <1>5
<1>7. Def(Pruned)
  <2> HIDE DEF Def
  <2> QED BY <1>6
<1>8. \A k \in 0..Size : Pruned[k] = Value(Pruned, k)
  <2> HIDE DEF Pruned, Value
  <2> QED BY <1>7
<1>9. Becomes(Pruned[Size])
  BY DEF Prune
<1> DEFINE S == {k \in 0..Size : Pruned[k] \in Reworked}
<1>10. 0..Size \subseteq S
  <2> HIDE DEF Pruned
  <2>1. 0 \in S
    BY <1>1, <1>2, <1>8
  <2>2. ASSUME NEW k \in 1..Size, k - 1 \in S PROVE k \in S
    <3>1. k # 0 /\ k \in 0..Size
      BY <1>1
    <3>2. Pruned[k] = PruneStart(Pruned[k - 1], k)
      BY <1>8, <3>1
    <3> QED BY <1>1, <2>2, <3>1, <3>2, PruneStartKeeps
  <2> HIDE DEF S
  <2> QED BY <1>1, <2>1, <2>2, UpTo
<1>11. Pruned[Size] \in Reworked
  BY <1>1, <1>10
<1> HIDE DEF Pruned
<1>12. Graph' = Pruned[Size]
  BY <1>9, <1>11 DEF Becomes, Graph, Reworked, Graphs
<1> QED BY <1>9, <1>11, <1>12 DEF Reworked, Becomes

\* What _remove_alone_endif carries through its pass.
Emptied(a) == \A n \in a.gone : type[n] = "ENDIF" /\ a.g.fathers[n] = <<>>

Drops == {a \in [g : Reworked, gone : SUBSET Ids] : Emptied(a)}

\* After k nodes, those ENDIFs among them that stay have a father.
PassedUpTo(a, k) == \A n \in 1..k : type[n] = "ENDIF" /\ n \notin a.gone => a.g.fathers[n] # <<>>

\* One turn of _remove_alone_endif keeps what stands, and leaves its own node right
\* for good: what it removes are fathers of later nodes only.
LEMMA DropAloneKeeps ==
  ASSUME Sound(Graph), NEW a \in Drops, NEW n \in Ids
  PROVE  DropAlone(a, n) \in Drops /\ (PassedUpTo(a, n - 1) => PassedUpTo(DropAlone(a, n), n))
<1> DEFINE h == SetSons(a.g, n, <<>>)
           b == [g |-> h, gone |-> a.gone \cup {n}]
<1>1. Sound(a.g) /\ a.g.type = type /\ a.g \in Graphs /\ a.gone \in SUBSET Ids /\ Emptied(a)
  BY DEF Drops, Reworked
<1>2. Size \in Nat /\ Ids = 1..Size /\ n \in Nat
  BY NodesOfGraph
<1>4. /\ Sound(h) /\ h.type = type
      /\ \A k \in Ids : /\ Range(h.fathers[k]) \subseteq Range(a.g.fathers[k])
                        /\ k \notin Range(a.g.sons[n]) => h.fathers[k] = a.g.fathers[k]
  <2>1. n \in DOMAIN a.g.type /\ DOMAIN a.g.type = Ids
    BY <1>1 DEF Ids
  <2> QED BY <1>1, <2>1, CutKeeps DEF Rewired
<1>5. ASSUME type[n] = "ENDIF", a.g.fathers[n] = <<>> PROVE Emptied(b)
  <2> SUFFICES ASSUME NEW k \in a.gone \cup {n} PROVE type[k] = "ENDIF" /\ h.fathers[k] = <<>>
    BY DEF Emptied
  <2>1. k \in Ids /\ type[k] = "ENDIF" /\ a.g.fathers[k] = <<>>
    BY <1>1, <1>5 DEF Emptied
  <2>2. Range(h.fathers[k]) = {}
    <3>1. Range(<<>>) = {}
      BY DEF Range
    <3> QED BY <1>4, <2>1, <3>1
  <2>3. h.fathers[k] \in Seq(Nat)
    BY <1>4, <2>1 DEF Sound, Graphs, SameNodes, Ids
  <2> QED BY <2>1, <2>2, <2>3, EmptyRange
<1>6. CASE type[n] = "ENDIF" /\ a.g.fathers[n] = <<>>
  <2>1. DropAlone(a, n) = b
    BY <1>6 DEF DropAlone
  <2>2. b \in Drops
    BY <1>1, <1>4, <1>5, <1>6 DEF Drops, Reworked, Sound
  <2>3. ASSUME PassedUpTo(a, n - 1), NEW k \in 1..n, type[k] = "ENDIF", k \notin b.gone
        PROVE  h.fathers[k] # <<>>
    <3>1. k \in 1..(n - 1) /\ k \notin a.gone /\ k \in Ids
      BY <1>2, <2>3
    <3>2. a.g.fathers[k] # <<>>
      BY <2>3, <3>1 DEF PassedUpTo
    <3>3. k \notin Range(a.g.sons[n])
      BY <1>1, <1>2, <1>6, <2>3, <3>1 DEF Sound, EndifsOnward, Ids
    <3> QED BY <1>4, <3>1, <3>2, <3>3
  <2>4. PassedUpTo(a, n - 1) => PassedUpTo(b, n)
    BY <2>3 DEF PassedUpTo
  <2> HIDE DEF b
  <2> QED BY <2>1, <2>2, <2>4
<1>7. CASE ~(type[n] = "ENDIF" /\ a.g.fathers[n] = <<>>)
  <2>1. DropAlone(a, n) = a
    BY <1>7 DEF DropAlone
  <2>2. \A k \in 1..n : k \in 1..(n - 1) \/ k = n
    BY <1>2
  <2> QED BY <1>7, <2>1, <2>2 DEF PassedUpTo
<1> QED BY <1>6, <1>7

\* So one pass over the nodes in order leaves no ENDIF without fathers.
LEMMA DropKeeps ==
  ASSUME Sound(Graph), DropPass([n \in Ids |-> n])
  PROVE  /\ Sound(Graph') /\ type' = type /\ gone' \subseteq Ids
         /\ \A n \in gone' : type[n] = "ENDIF" /\ fathers'[n] = <<>>
         /\ \A n \in Ids \ gone' : type[n] = "ENDIF" => fathers'[n] # <<>>
<1> DEFINE order == [n \in Ids |-> n]
           first == [g |-> Graph, gone |-> {}]
           step == [p \in (1..Size) \X Drops |-> DropAlone(p[2], p[1])]
           Value(f, k) == IF k = 0 THEN first ELSE DropAlone(f[k - 1], order[k])
           Def(f) == f = [k \in 0..Size |-> Value(f, k)]
           Dropped == CHOOSE f : Def(f)
<1>1. Size \in Nat /\ Ids = 1..Size
  BY NodesOfGraph
<1>2. first \in Drops
  BY DEF Drops, Reworked, Sound, Graph, Emptied
<1>3. step \in [(1..Size) \X Drops -> Drops]
  BY <1>1, DropAloneKeeps
<1>4. PICK f \in [0..Size -> Drops] : f[0] = first /\ \A k \in 1..Size : f[k] = step[<<k, f[k - 1]>>]
  <2> HIDE DEF step, first
  <2>1. Iterated(Size, Drops, first, step)
    BY <1>1, <1>2, <1>3, Recursion
  <2> QED BY <2>1 DEF Iterated
<1>a. \A k \in 1..Size : order[k] = k
  BY <1>1
<1> HIDE DEF first, order
<1>5. ASSUME NEW k \in 0..Size PROVE f[k] = Value(f, k)
  <2>1. CASE k = 0
    BY <1>4, <2>1
  <2>2. CASE k # 0
    <3>1. k \in 1..Size /\ k - 1 \in 0..Size
      BY <1>1, <2>2
    <3>2. f[k - 1] \in Drops
      BY <3>1
    <3>3. f[k] = step[<<k, f[k - 1]>>]
      BY <1>4, <3>1
    <3> QED BY <1>a, <2>2, <3>1, <3>2, <3>3
  <2> QED BY <2>1, <2>2
<1>6. Def(f)
  <2> HIDE DEF Value
  <2> QED BY <1>5
<1>7. Def(Dropped)
  <2> HIDE DEF Def
  <2> QED BY <1>6
<1>8. \A k \in 0..Size : Dropped[k] = Value(Dropped, k)
  <2> HIDE DEF Dropped, Value
  <2> QED BY <1>7
<1>9. Becomes(Dropped[Size].g) /\ gone' = Dropped[Size].gone
  BY DEF DropPass, first, order
<1> DEFINE S == {k \in 0..Size : Dropped[k] \in Drops /\ PassedUpTo(Dropped[k], k)}
<1>10. 0..Size \subseteq S
  <2> HIDE DEF Dropped
  <2>1. 0 \in S
    <3>1. Dropped[0] = first
      BY <1>1, <1>8
    <3>2. 1..0 = {}
      OBVIOUS
    <3> QED BY <1>1, <1>2, <3>1, <3>2 DEF PassedUpTo
  <2>2. ASSUME NEW k \in 1..Size, k - 1 \in S PROVE k \in S
    <3>1. k # 0 /\ k \in 0..Size
      BY <1>1
    <3>2. Dropped[k] = DropAlone(Dropped[k - 1], k)
      BY <1>8, <1>a, <3>1
    <3> QED BY <1>1, <2>2, <3>1, <3>2, DropAloneKeeps
  <2> HIDE DEF S
  <2> QED BY <1>1, <2>1, <2>2, UpTo
<1> DEFINE a == Dropped[Size]
<1>11. a \in Drops /\ PassedUpTo(a, Size)
  BY <1>1, <1>10
<1> HIDE DEF a
<1>12. Becomes(a.g) /\ gone' = a.gone
  BY <1>9 DEF a
<1>13. Graph' = a.g /\ Sound(a.g) /\ a.g.type = type /\ Emptied(a) /\ a.gone \subseteq Ids
  BY <1>11, <1>12 DEF Becomes, Graph, Drops, Reworked, Graphs
<1>14. fathers' = a.g.fathers /\ type' = a.g.type
  BY <1>12 DEF Becomes
<1> QED BY <1>1, <1>11, <1>12, <1>13, <1>14 DEF Emptied, PassedUpTo

----------------------------------------------------------------------------
(* The calls under way know their nodes.                                    *)

Frames == [kind : {"if", "while", "do", "for"}, from : Nat, start : Nat, cond : Nat, end : Nat,
           post : BOOLEAN, true : Nat]

Is(ty, n, t) == n \in DOMAIN ty /\ ty[n] = t

\* A frame f of a function with the node types ty.
FrameOK(f, ty) ==
  /\ f \in Frames /\ f.from \in DOMAIN ty
  /\ f.kind = "if" => Is(ty, f.cond, "IF") /\ f.true \in {0} \cup DOMAIN ty
  /\ f.kind \in {"while", "do"} => Is(ty, f.start, "STARTLOOP") /\ Is(ty, f.cond, "IFLOOP")
  /\ f.kind = "for" => /\ Is(ty, f.start, "STARTLOOP") /\ Is(ty, f.end, "ENDLOOP")
                       /\ f.cond # 0 => Is(ty, f.cond, "IFLOOP")

OpenOK(o, ty) == o \in Seq(Frames) /\ \A i \in 1..Len(o) : FrameOK(o[i], ty)

Extends(ty, more) == \A n \in DOMAIN ty : n \in DOMAIN more /\ more[n] = ty[n]

\* Open frames stay right in a longer text.
LEMMA OpenExtends ==
  ASSUME NEW o, NEW ty, NEW more, OpenOK(o, ty), Extends(ty, more)
  PROVE  OpenOK(o, more)
<1>1. ASSUME NEW f, FrameOK(f, ty) PROVE FrameOK(f, more)
  <2>1. \A n, t : Is(ty, n, t) => Is(more, n, t)
    BY DEF Extends, Is
  <2>2. DOMAIN ty \subseteq DOMAIN more
    BY DEF Extends
  <2> QED BY <1>1, <2>1, <2>2 DEF FrameOK
<1> QED BY <1>1 DEF OpenOK

\* A frame is opened.
LEMMA OpenPush ==
  ASSUME NEW o, NEW ty, OpenOK(o, ty), NEW f, FrameOK(f, ty)
  PROVE  OpenOK(Append(o, f), ty)
<1>1. f \in Frames /\ o \in Seq(Frames) /\ Len(o) \in Nat
  BY DEF OpenOK, FrameOK
<1>2. /\ Append(o, f) \in Seq(Frames) /\ Len(Append(o, f)) = Len(o) + 1
      /\ Append(o, f)[Len(o) + 1] = f /\ \A i \in 1..Len(o) : Append(o, f)[i] = o[i]
  BY <1>1
<1>3. \A i \in 1..(Len(o) + 1) : i \in 1..Len(o) \/ i = Len(o) + 1
  BY <1>1
<1> QED BY <1>1, <1>2, <1>3 DEF OpenOK

\* The innermost frame is closed.
LEMMA OpenPop ==
  ASSUME NEW o, NEW ty, OpenOK(o, ty), o # <<>>
  PROVE  OpenOK(Front(o), ty) /\ FrameOK(Last(o), ty) /\ Last(o) \in Frames
<1>1. o \in Seq(Frames) /\ Len(o) \in Nat \ {0}
  BY DEF OpenOK
<1>2. /\ Front(o) \in Seq(Frames) /\ Len(Front(o)) = Len(o) - 1
      /\ \A i \in 1..(Len(o) - 1) : Front(o)[i] = o[i]
  <2> DEFINE n == Len(o) - 1
  <2>1. n \in 0..Len(o) /\ 1 \in 1..(n + 1) /\ n - 1 + 1 = n /\ \A i \in 1..n : 1 + i - 1 = i
    BY <1>1
  <2>2. Front(o) = SubSeq(o, 1, n)
    BY DEF Front
  <2>3. /\ SubSeq(o, 1, n) \in Seq(Frames) /\ Len(SubSeq(o, 1, n)) = IF 1 <= n THEN n - 1 + 1 ELSE 0
        /\ \A i \in 1..(n - 1 + 1) : SubSeq(o, 1, n)[i] = o[1 + i - 1]
    <3> HIDE DEF n
    <3> QED BY <1>1, <2>1, SubSeqProperties
  <2> QED BY <1>1, <2>1, <2>2, <2>3
<1>3. Last(o) = o[Len(o)] /\ Len(o) \in 1..Len(o)
  BY <1>1 DEF Last
<1>4. \A i \in 1..(Len(o) - 1) : i \in 1..Len(o)
  BY <1>1
<1> QED BY <1>1, <1>2, <1>3, <1>4 DEF OpenOK, FrameOK

\* Max of a set of small numbers is in it, and above the others.
LEMMA MaxIn ==
  ASSUME NEW n \in Nat, NEW S \in SUBSET (1..n), S # {}
  PROVE  Max(S) \in S /\ \A k \in S : k <= Max(S)
<1> DEFINE D == {d \in 0..n : n - d \in S}
<1>1. D \in SUBSET Nat /\ D # {}
  <2>1. PICK k \in S : TRUE
    OBVIOUS
  <2>2. n - k \in 0..n /\ n - (n - k) = k
    OBVIOUS
  <2>3. n - k \in D
    BY <2>2
  <2>4. D \in SUBSET Nat
    OBVIOUS
  <2> HIDE DEF D
  <2> QED BY <2>3, <2>4
<1>2. PICK d \in D : \A e \in D : ~(e < d)
  <2> HIDE DEF D
  <2> QED BY <1>1, Least
<1>3. ASSUME NEW k \in S PROVE n - d >= k
  <2>1. n - k \in 0..n /\ n - (n - k) = k
    OBVIOUS
  <2>2. n - k \in D
    BY <2>1
  <2>3. ~(n - k < d) /\ d \in 0..n
    BY <1>2, <2>2
  <2> QED BY <2>3
<1>4. n - d \in S
  BY <1>2
<1>5. \E x \in S : \A y \in S : x >= y
  BY <1>3, <1>4
<1>6. Max(S) \in S /\ \A y \in S : Max(S) >= y
  BY <1>5 DEF Max
<1>7. \A x \in 1..n, y \in 1..n : x >= y => y <= x
  OBVIOUS
<1> QED BY <1>6, <1>7

\* The loop a statement is written in is a node, or 0.
LEMMA InnerLoopType ==
  ASSUME OpenOK(open, type)
  PROVE  InnerLoop \in Nat
<1> DEFINE at == {i \in DOMAIN open : open[i].kind # "if"}
<1>1. open \in Seq(Frames) /\ Len(open) \in Nat /\ at \in SUBSET (1..Len(open))
  BY DEF OpenOK
<1>2. at # {} => Max(at) \in 1..Len(open)
  <2> HIDE DEF at
  <2> QED BY <1>1, MaxIn
<1>3. \A i \in 1..Len(open) : open[i].start \in Nat
  <2> SUFFICES ASSUME NEW i \in 1..Len(open) PROVE open[i].start \in Nat
    OBVIOUS
  <2>1. open[i] \in Frames
    BY <1>1
  <2> QED BY <2>1 DEF Frames
<1> QED BY <1>2, <1>3 DEF InnerLoop

----------------------------------------------------------------------------
(* The inductive invariant.                                                 *)

GraphIInv ==
  /\ Sound(Graph) /\ Size <= MaxNodes /\ cur \in Ids /\ fixed \in 0..Size
  /\ phase \in {"parse", "edges", "prune", "done", "raised"}
  /\ OpenOK(open, type)
  /\ gone \subseteq Ids /\ (phase # "done" => gone = {})
  /\ \A n \in gone : type[n] = "ENDIF" /\ fathers[n] = <<>>
  /\ NoAloneEndif

\* The entry alone.
LEMMA GraphInit == ASSUME Init PROVE GraphIInv
<1>1. type = <<"ENTRYPOINT">> /\ sons = << <<>> >> /\ fathers = << <<>> >> /\ home = <<0>>
  BY DEF Init
<1>2. /\ type \in Seq(Types) /\ sons \in Seq(Seq(Nat)) /\ fathers \in Seq(Seq(Nat)) /\ home \in Seq(Nat)
      /\ DOMAIN type = {1} /\ DOMAIN sons = {1} /\ DOMAIN fathers = {1} /\ DOMAIN home = {1}
      /\ Len(type) = 1 /\ type[1] = "ENTRYPOINT" /\ sons[1] = <<>> /\ fathers[1] = <<>>
  BY <1>1 DEF Types
<1>3. Range(<<>>) = {} /\ Times(<<>>, 1) = 0
  BY TimesEmpty DEF Range
<1>4. Graph.type = type /\ Graph.sons = sons /\ Graph.fathers = fathers /\ Graph.home = home /\ Graph \in Graphs
  BY <1>2 DEF Graph, Graphs
<1>5. SameNodes(Graph) /\ Closed(Graph) /\ Mirrors(Graph)
  BY <1>2, <1>3, <1>4 DEF SameNodes, Closed, Mirrors
<1>6. EntryFirst(Graph) /\ EndifsOnward(Graph)
  <2>1. type # <<>>
    BY <1>1
  <2> QED BY <1>2, <1>3, <1>4, <2>1 DEF EntryFirst, EndifsOnward
<1>7. OpenOK(open, type)
  BY DEF Init, OpenOK
<1>8. Size = 1 /\ Ids = {1} /\ MaxNodes >= 1 /\ MaxNodes \in Nat
  BY <1>2, CfgBuilderAssumption DEF Size, Ids
<1> QED BY <1>4, <1>5, <1>6, <1>7, <1>8 DEF Init, GraphIInv, Sound, NoAloneEndif

\* h is the graph of a longer part of the text.
Grown(h) == Sound(h) /\ Extends(type, h.type) /\ Len(h.type) <= MaxNodes

\* A parse method that leaves a grown graph and right frames keeps everything.
LEMMA ParseKeeps ==
  ASSUME GraphIInv, phase = "parse", NEW h, Grown(h), Becomes(h), cur' \in DOMAIN h.type,
         OpenOK(open', h.type), UNCHANGED <<phase, fixed, gone>>
  PROVE  GraphIInv'
<1>1. Graph' = h /\ type' = h.type
  BY DEF Becomes, Graph, Grown, Sound, Graphs
<1>2. Size \in Nat /\ Ids = 1..Size
  BY NodesOfGraph DEF GraphIInv
<1>3. Size' = Len(h.type) /\ Ids' = DOMAIN h.type /\ Ids' = 1..Size' /\ Size' \in Nat
  BY <1>1 DEF Size, Ids, Grown, Sound, Graphs
<1>4. Size <= Size'
  BY <1>2, <1>3 DEF Grown, Extends, Ids
<1>5. fixed' \in 0..Size' /\ gone' = {}
  BY <1>2, <1>3, <1>4 DEF GraphIInv
<1> QED BY <1>1, <1>3, <1>5 DEF GraphIInv, NoAloneEndif, Grown

----------------------------------------------------------------------------
(* The statements, one after the other.                                     *)

\* h has one more node than g, of type t.
Longer(g, h, t) ==
  /\ Sound(h) /\ Len(h.type) = Len(g.type) + 1
  /\ Extends(g.type, h.type) /\ Is(h.type, Len(g.type) + 1, t)

\* A new node makes the text longer.
LEMMA NewGrows ==
  ASSUME NEW g, Sound(g), NEW t \in Types \ {"ENTRYPOINT"}, InnerLoop \in Nat
  PROVE  Longer(g, New(g, t), t)
<1>1. Sound(New(g, t)) /\ New(g, t).type = Append(g.type, t)
  BY NewKeeps
<1>2. g.type \in Seq(Types) /\ Len(g.type) \in Nat
  BY DEF Sound, Graphs
<1>3. /\ Len(Append(g.type, t)) = Len(g.type) + 1 /\ DOMAIN Append(g.type, t) = 1..(Len(g.type) + 1)
      /\ DOMAIN g.type = 1..Len(g.type) /\ Append(g.type, t)[Len(g.type) + 1] = t
      /\ \A n \in 1..Len(g.type) : Append(g.type, t)[n] = g.type[n]
  BY <1>2
<1>4. Len(g.type) + 1 \in 1..(Len(g.type) + 1) /\ 1..Len(g.type) \subseteq 1..(Len(g.type) + 1)
  BY <1>2
<1> QED BY <1>1, <1>3, <1>4 DEF Longer, Extends, Is

\* And so does one that is linked to the current node.
LEMMA NewAfterGrows ==
  ASSUME NEW g, Sound(g), NEW t \in Types \ {"ENTRYPOINT"}, InnerLoop \in Nat, NEW n \in DOMAIN g.type
  PROVE  Longer(g, NewAfter(g, t, n), t)
<1> DEFINE h == New(g, t)
           m == Len(g.type) + 1
<1>1. Longer(g, h, t)
  BY NewGrows
<1>2. n \in 1..Len(g.type) /\ Len(g.type) \in Nat
  BY DEF Sound, Graphs
<1>3. n \in DOMAIN h.type /\ m \in DOMAIN h.type /\ m # 1 /\ n < m
  BY <1>1, <1>2 DEF Longer, Extends, Is
<1>4. Sound(Link(h, n, m)) /\ Link(h, n, m).type = h.type
  <2> HIDE DEF h, m
  <2> QED BY <1>1, <1>3, LinkKeeps DEF Longer
<1> QED BY <1>1, <1>4 DEF NewAfter, Longer

\* What extends a text extends what that one extended.
LEMMA ExtendsFurther ==
  ASSUME NEW a, NEW b, NEW c, Extends(a, b), Extends(b, c)
  PROVE  Extends(a, c)
BY DEF Extends

\* An edge from a node to one that is no ENDIF and not the entry.
LEMMA LinkTo ==
  ASSUME NEW g, Sound(g), NEW n \in DOMAIN g.type, NEW m, NEW t \in Types \ {"ENTRYPOINT", "ENDIF"}, Is(g.type, m, t)
  PROVE  Sound(Link(g, n, m)) /\ Link(g, n, m).type = g.type
<1>1. m \in DOMAIN g.type /\ g.type[m] # "ENDIF" /\ g.type[m] # "ENTRYPOINT"
  BY DEF Is
<1>2. m # 1
  BY <1>1 DEF Sound, EntryFirst
<1> QED BY <1>1, <1>2, LinkKeeps

\* The parse methods, one by one: an expression, a return, a jump.
LEMMA SimpleKeeps ==
  ASSUME GraphIInv, NEW t \in {"EXPRESSION", "RETURN", "BREAK", "CONTINUE"}, Simple(t)
  PROVE  GraphIInv'
<1> DEFINE h == NewAfter(Graph, t, cur)
<1>1. Size \in Nat /\ Size + 1 <= MaxNodes /\ phase = "parse" /\ Graph.type = type /\ DOMAIN type = 1..Size
  BY NodesOfGraph DEF GraphIInv, Simple, Room, Graph, Ids
<1>2. InnerLoop \in Nat
  BY InnerLoopType DEF GraphIInv
<1>3. Longer(Graph, h, t)
  BY <1>1, <1>2, NewAfterGrows DEF GraphIInv, Ids, Types
<1>4. Grown(h) /\ Size + 1 \in DOMAIN h.type
  BY <1>1, <1>3 DEF Longer, Grown, Is, Size
<1>5. OpenOK(open, h.type)
  BY <1>1, <1>3, OpenExtends DEF GraphIInv, Longer
<1>6. Becomes(h) /\ cur' = Size + 1 /\ UNCHANGED <<open, phase, fixed, gone>>
  BY DEF Simple
<1> HIDE DEF h
<1>7. cur' \in DOMAIN h.type /\ OpenOK(open', h.type)
  BY <1>4, <1>5, <1>6
<1> QED BY <1>1, <1>4, <1>6, <1>7, ParseKeeps

\* if.
LEMMA OpenIfKeeps == ASSUME GraphIInv, OpenIf PROVE GraphIInv'
<1> DEFINE h == NewAfter(Graph, "IF", cur)
           f == Frame("if", 0, Size + 1, 0, FALSE)
<1>1. Size \in Nat /\ Size + 2 <= MaxNodes /\ phase = "parse" /\ Graph.type = type /\ DOMAIN type = 1..Size
      /\ MaxNodes \in Nat
  BY NodesOfGraph, CfgBuilderAssumption DEF GraphIInv, OpenIf, Room, Graph, Ids
<1>2. InnerLoop \in Nat
  BY InnerLoopType DEF GraphIInv
<1>3. Longer(Graph, h, "IF")
  BY <1>1, <1>2, NewAfterGrows DEF GraphIInv, Ids, Types
<1>4. Grown(h) /\ Is(h.type, Size + 1, "IF")
  BY <1>1, <1>3 DEF Longer, Grown, Size
<1>5. FrameOK(f, h.type)
  <2>1. cur \in Nat /\ cur \in DOMAIN h.type
    BY <1>1, <1>4 DEF GraphIInv, Ids, Grown, Extends
  <2> HIDE DEF h
  <2> QED BY <1>1, <1>4, <2>1 DEF FrameOK, Frames, Frame
<1>6. OpenOK(Append(open, f), h.type)
  <2> HIDE DEF f
  <2> QED BY <1>1, <1>3, <1>5, OpenExtends, OpenPush DEF GraphIInv, Longer
<1>7. Becomes(h) /\ cur' = Size + 1 /\ open' = Append(open, f) /\ UNCHANGED <<phase, fixed, gone>>
  BY DEF OpenIf
<1> HIDE DEF h, f
<1>8. cur' \in DOMAIN h.type /\ OpenOK(open', h.type)
  BY <1>4, <1>6, <1>7 DEF Is
<1> QED BY <1>1, <1>4, <1>7, <1>8, ParseKeeps

\* The innermost frame and those around it are right.
LEMMA TopFrame ==
  ASSUME GraphIInv, open # <<>>
  PROVE  OpenOK(Front(open), type) /\ FrameOK(Top, type) /\ Top \in Frames
BY OpenPop DEF GraphIInv, Top

\* else.
LEMMA ElseKeeps == ASSUME GraphIInv, Else PROVE GraphIInv'
<1> DEFINE f == [Top EXCEPT !.true = cur]
           n == Len(open)
<1>1. Becomes(Graph) /\ Graph.type = type
  BY DEF Else, Becomes, Graph
<1>2. Grown(Graph) /\ DOMAIN type = 1..Size /\ Size \in Nat
  BY <1>1, NodesOfGraph DEF Grown, GraphIInv, Extends, Size, Ids
<1>3. FrameOK(Top, type) /\ Top \in Frames /\ Top.kind = "if"
  BY TopFrame DEF Else
<1>4. f \in Frames /\ FrameOK(f, type)
  <2>1. cur \in DOMAIN type /\ cur \in Nat
    BY <1>2 DEF GraphIInv, Ids
  <2> QED BY <1>3, <2>1 DEF FrameOK, Frames
<1>5. open \in Seq(Frames) /\ n \in 1..Len(open) /\ open # <<>>
  BY DEF GraphIInv, OpenOK, Else
<1>6. open' = [open EXCEPT ![n] = f]
  BY <1>5 DEF Else, Top, Last
<1>7. OpenOK(open', type)
  <2> HIDE DEF f, n
  <2>1. open' \in Seq(Frames) /\ Len(open') = Len(open) /\ \A i \in 1..Len(open) : open'[i] = IF i = n THEN f ELSE open[i]
    BY <1>4, <1>5, <1>6, ExceptSeq
  <2> QED BY <1>4, <2>1 DEF OpenOK, GraphIInv
<1>8. cur' \in DOMAIN type
  BY <1>3 DEF Else, FrameOK, Is
<1> QED BY <1>1, <1>2, <1>7, <1>8, ParseKeeps DEF Else

\* An edge to the last node.
LEMMA LinkToLast ==
  ASSUME NEW g, Sound(g), NEW n \in DOMAIN g.type, n # Len(g.type)
  PROVE  Sound(Link(g, n, Len(g.type))) /\ Link(g, n, Len(g.type)).type = g.type
<1> DEFINE L == Len(g.type)
<1>1. n \in 1..L /\ L \in Nat /\ DOMAIN g.type = 1..L /\ n # L
  BY DEF Sound, Graphs
<1> HIDE DEF L
<1>2. L \in DOMAIN g.type /\ L # 1 /\ n < L
  BY <1>1
<1>3. Sound(Link(g, n, L)) /\ Link(g, n, L).type = g.type
  BY <1>2, LinkKeeps
<1> QED BY <1>3 DEF L

\* The ENDIF.
LEMMA CloseIfKeeps == ASSUME GraphIInv, CloseIf PROVE GraphIInv'
<1> DEFINE g == New(Graph, "ENDIF")
           end == Size + 1
           pair(a, b) == Link(Link(g, a, end), b, end)
<1>1. Size \in Nat /\ Size < MaxNodes /\ phase = "parse" /\ Graph.type = type /\ DOMAIN type = 1..Size
      /\ MaxNodes \in Nat
  BY NodesOfGraph, CfgBuilderAssumption DEF GraphIInv, CloseIf, Graph, Ids
<1>2. InnerLoop \in Nat
  BY InnerLoopType DEF GraphIInv
<1>3. Longer(Graph, g, "ENDIF")
  BY <1>1, <1>2, NewGrows DEF GraphIInv, Types
<1>4. Len(g.type) = end /\ end \in DOMAIN g.type /\ Sound(g) /\ Extends(type, g.type)
  BY <1>1, <1>3 DEF Longer, Is, Size
<1>5. ASSUME NEW a \in DOMAIN type, NEW b \in DOMAIN type
      PROVE  Sound(pair(a, b)) /\ pair(a, b).type = g.type
  <2>1. a \in DOMAIN g.type /\ b \in DOMAIN g.type /\ a # end /\ b # end
    BY <1>1, <1>4 DEF Extends
  <2> HIDE DEF g, end
  <2>2. Sound(Link(g, a, end)) /\ Link(g, a, end).type = g.type
    BY <1>4, <2>1, LinkToLast
  <2> QED BY <1>4, <2>1, <2>2, LinkToLast
<1>6. OpenOK(Front(open), type) /\ FrameOK(Top, type) /\ Top.kind = "if"
  BY TopFrame DEF CloseIf
<1>7. PICK a \in DOMAIN type, b \in DOMAIN type : Becomes(pair(a, b))
  <2>1. cur \in DOMAIN type /\ Top.cond \in DOMAIN type /\ (Top.true # 0 => Top.true \in DOMAIN type)
    BY <1>6 DEF FrameOK, Is, GraphIInv, Ids
  <2>2. Becomes(IF Top.true = 0 THEN pair(cur, Top.cond) ELSE pair(Top.true, cur))
    BY DEF CloseIf
  <2> HIDE DEF pair
  <2> QED BY <2>1, <2>2
<1> DEFINE h == pair(a, b)
<1>8. Sound(h) /\ h.type = g.type
  BY <1>5
<1> HIDE DEF h, g
<1>9. Grown(h) /\ end \in DOMAIN h.type
  BY <1>1, <1>4, <1>8 DEF Grown
<1>10. OpenOK(Front(open), h.type)
  BY <1>6, <1>9, OpenExtends DEF Grown
<1>11. cur' = end /\ open' = Front(open) /\ UNCHANGED <<phase, fixed, gone>>
  BY DEF CloseIf
<1> QED BY <1>1, <1>7, <1>9, <1>10, <1>11, ParseKeeps DEF h

\* while and do.
LEMMA OpenLoopKeeps == ASSUME GraphIInv, NEW k \in Kinds, OpenLoop(k) PROVE GraphIInv'
<1> DEFINE g == New(Graph, "STARTLOOP")
           h == New(g, "IFLOOP")
           f == Frame(k, Size + 1, Size + 2, 0, FALSE)
<1>1. Size \in Nat /\ Size + 3 <= MaxNodes /\ phase = "parse" /\ Graph.type = type /\ DOMAIN type = 1..Size
      /\ MaxNodes \in Nat /\ k \in {"while", "do"}
  BY NodesOfGraph, CfgBuilderAssumption DEF GraphIInv, OpenLoop, Room, Graph, Ids
<1>2. InnerLoop \in Nat
  BY InnerLoopType DEF GraphIInv
<1>3. Longer(Graph, g, "STARTLOOP")
  BY <1>1, <1>2, NewGrows DEF GraphIInv, Types
<1>4. Longer(g, h, "IFLOOP")
  <2> HIDE DEF g
  <2> QED BY <1>2, <1>3, NewGrows DEF Longer, Types
<1> HIDE DEF g, h
<1>5. Len(g.type) = Size + 1 /\ Len(h.type) = Size + 2 /\ Sound(h)
  BY <1>1, <1>3, <1>4 DEF Longer, Size
<1>6. Extends(type, h.type) /\ Is(h.type, Size + 1, "STARTLOOP") /\ Is(h.type, Size + 2, "IFLOOP")
  BY <1>1, <1>3, <1>4, <1>5 DEF Longer, Extends, Is, Size
<1>7. Grown(h) /\ Size + 2 \in DOMAIN h.type
  BY <1>1, <1>5, <1>6 DEF Grown, Is
<1>8. FrameOK(f, h.type)
  <2>1. cur \in Nat /\ cur \in DOMAIN h.type
    BY <1>1, <1>6 DEF GraphIInv, Ids, Extends
  <2> QED BY <1>1, <1>6, <2>1 DEF FrameOK, Frames, Frame
<1>9. OpenOK(Append(open, f), h.type)
  <2> HIDE DEF f
  <2> QED BY <1>6, <1>8, OpenExtends, OpenPush DEF GraphIInv
<1>10. Becomes(h) /\ cur' = Size + 2 /\ open' = Append(open, f) /\ UNCHANGED <<phase, fixed, gone>>
  BY DEF OpenLoop, h, g
<1> HIDE DEF f
<1> QED BY <1>1, <1>7, <1>9, <1>10, ParseKeeps

\* Their ENDLOOP, and the edges back.
LEMMA CloseLoopKeeps == ASSUME GraphIInv, CloseLoop PROVE GraphIInv'
<1> DEFINE end  == Size + 1
           g0   == New(Graph, "ENDLOOP")
           g1   == Link(g0, Top.from, Top.start)
           into == IF Top.kind = "do" /\ sons[Top.cond] # <<>> THEN sons[Top.cond][1] ELSE Top.cond
           g2   == Link(g1, Top.start, into)
           g3   == Link(g2, cur, Top.cond)
           h    == Link(g3, Top.cond, end)
<1>1. Size \in Nat /\ Size < MaxNodes /\ phase = "parse" /\ Graph.type = type /\ DOMAIN type = 1..Size
      /\ MaxNodes \in Nat /\ Ids = DOMAIN type /\ cur \in DOMAIN type
  BY NodesOfGraph, CfgBuilderAssumption DEF GraphIInv, CloseLoop, Graph, Ids
<1>2. InnerLoop \in Nat
  BY InnerLoopType DEF GraphIInv
<1>3. Longer(Graph, g0, "ENDLOOP")
  BY <1>1, <1>2, NewGrows DEF GraphIInv, Types
<1>4. /\ OpenOK(Front(open), type) /\ Top.from \in DOMAIN type
      /\ Is(type, Top.start, "STARTLOOP") /\ Is(type, Top.cond, "IFLOOP")
  BY TopFrame DEF CloseLoop, FrameOK
<1>5. into \in DOMAIN type /\ into # 1
  <2>1. Top.cond \in Ids /\ type[Top.cond] # "ENTRYPOINT"
    BY <1>1, <1>4 DEF Is
  <2>2. Top.cond # 1 /\ 1 \notin Range(sons[Top.cond])
    BY <1>1, <2>1 DEF GraphIInv, Sound, EntryFirst, Graph
  <2>3. sons[Top.cond] \in Seq(Nat) /\ Range(sons[Top.cond]) \subseteq Ids
    BY <2>1, NodesOfGraph DEF GraphIInv
  <2>4. sons[Top.cond] # <<>> => sons[Top.cond][1] \in Range(sons[Top.cond])
    BY <2>3 DEF Range
  <2> QED BY <1>1, <2>1, <2>2, <2>3, <2>4
<1> HIDE DEF into, end, g0
<1>6. /\ Sound(g0) /\ Extends(type, g0.type) /\ Len(g0.type) = end /\ Is(g0.type, end, "ENDLOOP")
      /\ Is(g0.type, Top.start, "STARTLOOP") /\ Is(g0.type, Top.cond, "IFLOOP")
      /\ Top.from \in DOMAIN g0.type /\ cur \in DOMAIN g0.type /\ into \in DOMAIN g0.type
  BY <1>1, <1>3, <1>4, <1>5 DEF Longer, Extends, Is, end, Size
<1>7. Sound(g1) /\ g1.type = g0.type
  BY <1>6, LinkTo DEF Types
<1> HIDE DEF g1
<1>8. Sound(g2) /\ g2.type = g0.type
  <2>1. Top.start \in DOMAIN g1.type /\ into \in DOMAIN g1.type /\ g1.type[Top.start] # "ENDIF"
    BY <1>6, <1>7 DEF Is
  <2> QED BY <1>5, <1>7, <2>1, LinkKeeps
<1> HIDE DEF g2
<1>9. Sound(g3) /\ g3.type = g0.type
  BY <1>6, <1>8, LinkTo DEF Types
<1> HIDE DEF g3
<1>10. Sound(h) /\ h.type = g0.type
  <2>1. Top.cond \in DOMAIN g3.type
    BY <1>6, <1>9 DEF Is
  <2> QED BY <1>6, <1>9, <2>1, LinkTo DEF Types
<1> HIDE DEF h
<1>11. Grown(h) /\ end \in DOMAIN h.type
  BY <1>1, <1>6, <1>10 DEF Grown, Is, end
<1>12. OpenOK(Front(open), h.type)
  BY <1>4, <1>6, <1>10, OpenExtends
<1>13. Becomes(h) /\ cur' = end /\ open' = Front(open) /\ UNCHANGED <<phase, fixed, gone>>
  BY DEF CloseLoop, h, g3, g2, g1, g0, into, end
<1> QED BY <1>1, <1>11, <1>12, <1>13, ParseKeeps

\* How many nodes the parts of a for loop need.
LEMMA ForParts ==
  ASSUME NEW pre \in BOOLEAN, NEW cond \in BOOLEAN, NEW post \in BOOLEAN,
         NEW parts, parts = {x \in {1, 2, 3} : <<pre, cond, post>>[x]}
  PROVE  /\ Cardinality(parts) \in Nat
         /\ pre \/ cond => Cardinality(parts) >= 1
         /\ pre /\ cond => Cardinality(parts) >= 2
<1>1. parts \subseteq 1..3 /\ (pre => 1 \in parts) /\ (cond => 2 \in parts)
  OBVIOUS
<1>2. IsFiniteSet(parts) /\ Cardinality(parts) \in Nat
  <2>1. IsFiniteSet(1..3)
    <3>1. 1 \in Int /\ 3 \in Int
      OBVIOUS
    <3> QED BY <3>1, FS_Interval, Zenon
  <2>2. parts \in SUBSET (1..3)
    BY <1>1
  <2>3. IsFiniteSet(parts)
    BY <2>1, <2>2, FS_Subset
  <2> QED BY <2>3, FS_CardinalityType
<1>3. Cardinality({1}) = 1 /\ Cardinality({2}) = 1 /\ IsFiniteSet({1})
  BY FS_Singleton
<1>4. Cardinality({1} \cup {2}) = 2
  BY <1>3, FS_AddElement
<1>5. \A S : S \subseteq parts => Cardinality(S) <= Cardinality(parts)
  BY <1>2, FS_Subset
<1>6. /\ pre => {1} \subseteq parts
      /\ cond => {2} \subseteq parts
      /\ pre /\ cond => ({1} \cup {2}) \subseteq parts
  BY <1>1
<1>7. /\ pre => 1 <= Cardinality(parts)
      /\ cond => 1 <= Cardinality(parts)
      /\ pre /\ cond => 2 <= Cardinality(parts)
  BY <1>3, <1>4, <1>5, <1>6
<1> QED BY <1>2, <1>7

\* for, with or without its three parts.
LEMMA OpenForKeeps ==
  ASSUME GraphIInv, NEW pre \in BOOLEAN, NEW cond \in BOOLEAN, NEW post \in BOOLEAN, OpenFor(pre, cond, post)
  PROVE  GraphIInv'
<1> DEFINE parts == {x \in {1, 2, 3} : <<pre, cond, post>>[x]}
           start == Size + 1
           g1 == New(Graph, "STARTLOOP")
           g2 == New(g1, "ENDLOOP")
           p  == NewAfter(g2, "EXPRESSION", cur)
           g3 == IF pre THEN Link(p, Size + 3, start) ELSE Link(g2, cur, start)
           c  == Len(g3.type) + 1
           h  == IF cond THEN NewAfter(g3, "IFLOOP", start) ELSE g3
           f  == Frame("for", start, IF cond THEN c ELSE 0, start + 1, post)
<1>0. /\ Becomes(h) /\ open' = Append(open, f) /\ cur' = (IF cond THEN c ELSE start)
      /\ UNCHANGED <<phase, fixed, gone>>
  BY DEF OpenFor
<1>1. Size \in Nat /\ phase = "parse" /\ Graph.type = type
      /\ DOMAIN type = 1..Size /\ MaxNodes \in Nat /\ cur \in DOMAIN type /\ cur \in Nat
  BY NodesOfGraph, CfgBuilderAssumption DEF GraphIInv, OpenFor, Room, Graph, Ids
<1>2. /\ Size + 2 <= MaxNodes
      /\ pre \/ cond => Size + 3 <= MaxNodes
      /\ pre /\ cond => Size + 4 <= MaxNodes
  <2>1. Size + (2 + Cardinality(parts)) <= MaxNodes
    BY DEF OpenFor, Room
  <2>2. /\ Cardinality(parts) \in Nat
        /\ pre \/ cond => Cardinality(parts) >= 1
        /\ pre /\ cond => Cardinality(parts) >= 2
    BY ForParts
  <2> HIDE DEF parts
  <2> QED BY <1>1, <2>1, <2>2
<1>3. InnerLoop \in Nat
  BY InnerLoopType DEF GraphIInv
<1>4. Longer(Graph, g1, "STARTLOOP")
  BY <1>1, <1>3, NewGrows DEF GraphIInv, Types
<1>5. Longer(g1, g2, "ENDLOOP")
  <2> HIDE DEF g1
  <2> QED BY <1>3, <1>4, NewGrows DEF Longer, Types
<1> HIDE DEF g1, g2
<1>6. /\ Sound(g2) /\ Len(g2.type) = Size + 2 /\ Extends(type, g2.type)
      /\ Is(g2.type, start, "STARTLOOP") /\ Is(g2.type, start + 1, "ENDLOOP")
  BY <1>1, <1>4, <1>5 DEF Longer, Extends, Is, Size
<1>7. cur \in DOMAIN g2.type
  BY <1>1, <1>6 DEF Extends
<1>8. Longer(g2, p, "EXPRESSION")
  BY <1>3, <1>6, <1>7, NewAfterGrows DEF Types
<1> HIDE DEF p
<1>9. /\ Sound(g3) /\ Extends(g2.type, g3.type)
      /\ Len(g3.type) = IF pre THEN Size + 3 ELSE Size + 2
  <2>1. CASE pre
    <3>1. Size + 3 \in DOMAIN p.type /\ Len(p.type) = Size + 3 /\ Is(p.type, start, "STARTLOOP")
      BY <1>1, <1>6, <1>8 DEF Longer, Is, Extends
    <3>2. Sound(Link(p, Size + 3, start)) /\ Link(p, Size + 3, start).type = p.type
      BY <1>8, <3>1, LinkTo DEF Longer, Types
    <3> QED BY <1>8, <2>1, <3>1, <3>2 DEF Longer
  <2>2. CASE ~pre
    <3>1. Sound(Link(g2, cur, start)) /\ Link(g2, cur, start).type = g2.type
      BY <1>6, <1>7, LinkTo DEF Types
    <3> QED BY <1>6, <2>2, <3>1 DEF Extends
  <2> QED BY <2>1, <2>2
<1> HIDE DEF g3
<1>10. start \in DOMAIN g3.type
  BY <1>6, <1>9 DEF Extends, Is
<1>11. Longer(g3, NewAfter(g3, "IFLOOP", start), "IFLOOP")
  BY <1>3, <1>9, <1>10, NewAfterGrows DEF Types
<1>12. /\ Sound(h) /\ Extends(g3.type, h.type)
       /\ cond => Is(h.type, c, "IFLOOP")
       /\ Len(h.type) = Len(g3.type) + IF cond THEN 1 ELSE 0
  <2>1. CASE cond
    BY <1>11, <2>1 DEF Longer
  <2>2. CASE ~cond
    BY <1>1, <1>9, <2>2 DEF Extends
  <2> QED BY <2>1, <2>2
<1> HIDE DEF h
<1>13. /\ Extends(type, h.type) /\ Is(h.type, start, "STARTLOOP") /\ Is(h.type, start + 1, "ENDLOOP")
  BY <1>6, <1>9, <1>12 DEF Extends, Is
<1>14. Len(h.type) <= MaxNodes
  BY <1>1, <1>2, <1>9, <1>12
<1>15. Grown(h) /\ c \in Nat
  BY <1>1, <1>9, <1>12, <1>13, <1>14 DEF Grown
<1>16. FrameOK(f, h.type)
  <2>1. cur \in DOMAIN h.type
    BY <1>1, <1>13 DEF Extends
  <2> HIDE DEF c
  <2>2. f \in Frames
    BY <1>1, <1>15 DEF Frames, Frame
  <2> QED BY <1>12, <1>13, <2>1, <2>2 DEF FrameOK, Frame
<1>17. OpenOK(Append(open, f), h.type)
  <2> HIDE DEF f
  <2> QED BY <1>13, <1>16, OpenExtends, OpenPush DEF GraphIInv
<1>18. (IF cond THEN c ELSE start) \in DOMAIN h.type
  BY <1>12, <1>13 DEF Is
<1> HIDE DEF c, f, start
<1> QED BY <1>0, <1>1, <1>15, <1>17, <1>18, ParseKeeps

\* Its ENDLOOP.
LEMMA CloseForKeeps == ASSUME GraphIInv, CloseFor PROVE GraphIInv'
<1> DEFINE before == IF Top.cond # 0 THEN Top.cond ELSE Top.start
           p == NewAfter(Graph, "EXPRESSION", cur)
           g == IF Top.post THEN Link(p, Size + 1, before) ELSE Link(Graph, cur, before)
           h == Link(g, before, Top.end)
<1>0. /\ phase = "parse" /\ open # <<>> /\ Top.kind = "for" /\ (Top.post => Size < MaxNodes)
      /\ Becomes(h) /\ cur' = Top.end /\ open' = Front(open) /\ UNCHANGED <<phase, fixed, gone>>
  <2>1. (IF Top.post THEN Size + 1 ELSE 0) = (IF Top.post THEN Size + 1 ELSE 0)
    OBVIOUS
  <2> QED BY DEF CloseFor
<1>1. /\ Size \in Nat /\ Size <= MaxNodes /\ Graph.type = type /\ DOMAIN type = 1..Size
      /\ MaxNodes \in Nat /\ cur \in DOMAIN type
  BY NodesOfGraph, CfgBuilderAssumption DEF GraphIInv, Graph, Ids
<1>2. InnerLoop \in Nat
  BY InnerLoopType DEF GraphIInv
<1>3. OpenOK(Front(open), type) /\ FrameOK(Top, type) /\ Top \in Frames
  BY <1>0, TopFrame
<1>4. PICK t \in {"STARTLOOP", "IFLOOP"} : Is(type, before, t)
  BY <1>0, <1>3 DEF FrameOK
<1>5. Is(type, Top.end, "ENDLOOP")
  BY <1>0, <1>3 DEF FrameOK
<1>6. Longer(Graph, p, "EXPRESSION")
  BY <1>1, <1>2, NewAfterGrows DEF GraphIInv, Types
<1> HIDE DEF before, p
<1>7. Sound(g) /\ Extends(type, g.type) /\ Len(g.type) <= MaxNodes
  <2>1. CASE Top.post
    <3>1. Is(p.type, before, t) /\ Size + 1 \in DOMAIN p.type /\ Len(p.type) = Size + 1 /\ Extends(type, p.type)
      BY <1>1, <1>4, <1>6 DEF Longer, Is, Extends, Size
    <3>2. Sound(Link(p, Size + 1, before)) /\ Link(p, Size + 1, before).type = p.type
      BY <1>6, <3>1, LinkTo DEF Longer, Types
    <3> QED BY <1>0, <1>1, <2>1, <3>1, <3>2
  <2>2. CASE ~Top.post
    <3>1. Sound(Link(Graph, cur, before)) /\ Link(Graph, cur, before).type = type
      BY <1>1, <1>4, LinkTo DEF Types, GraphIInv
    <3> QED BY <1>1, <2>2, <3>1 DEF Extends, Size
  <2> QED BY <2>1, <2>2
<1> HIDE DEF g
<1>8. Sound(h) /\ h.type = g.type
  <2>1. before \in DOMAIN g.type /\ Is(g.type, Top.end, "ENDLOOP")
    BY <1>4, <1>5, <1>7 DEF Extends, Is
  <2> QED BY <1>7, <2>1, LinkTo DEF Types
<1> HIDE DEF h
<1>9. Grown(h) /\ Top.end \in DOMAIN h.type
  BY <1>5, <1>7, <1>8 DEF Grown, Extends, Is
<1>10. OpenOK(Front(open), h.type)
  BY <1>3, <1>7, <1>8, OpenExtends
<1> QED BY <1>0, <1>9, <1>10, ParseKeeps

----------------------------------------------------------------------------
(* The repairs of the graph.                                                *)

\* The graph keeps its nodes, no statement is parsed any more.
LEMMA RepairKeeps ==
  ASSUME GraphIInv, phase # "done", Sound(Graph'), type' = type, UNCHANGED <<cur, open>>,
         fixed' \in 0..Size, gone' = {}, phase' \in {"edges", "prune", "raised"}
  PROVE  GraphIInv'
<1>1. Size' = Size /\ Ids' = Ids
  BY DEF Size, Ids
<1> QED BY <1>1 DEF GraphIInv, NoAloneEndif

\* The repairs: break, continue and return, node by node.
LEMMA EndBodyKeeps == ASSUME GraphIInv, EndBody PROVE GraphIInv'
<1>1. Graph' = Graph
  BY DEF EndBody, Graph
<1> QED BY <1>1, RepairKeeps DEF EndBody, GraphIInv

\* A break or continue that got its edge, and a return that lost its own.
LEMMA FixNodeKeeps == ASSUME GraphIInv, FixNode PROVE GraphIInv'
<1> DEFINE n == fixed + 1
           g == SetSons(Graph, n, <<>>)
<1>1. /\ phase = "edges" /\ fixed < Size /\ fixed' = fixed + 1
      /\ UNCHANGED <<type, home, cur, open, gone>>
  BY DEF FixNode
<1>2. Size \in Nat /\ n \in Ids /\ Ids = DOMAIN type /\ Graph.type = type /\ fixed' \in 0..Size /\ gone = {}
  BY <1>1, NodesOfGraph DEF GraphIInv, Ids, Graph
<1>3. Sound(g) /\ g.type = type
  BY <1>2, CutKeeps DEF GraphIInv, Rewired
<1>4. /\ g.home = home /\ Sound(Graph)
      /\ Graph' = [type |-> type, sons |-> sons', fathers |-> fathers', home |-> home]
  BY <1>1 DEF GraphIInv, SetSons, Graph
<1>5. ASSUME NEW h, Sound(h), h.type = type, h.home = home, sons' = h.sons, fathers' = h.fathers
      PROVE  Sound(Graph')
  <2>1. h = [type |-> h.type, sons |-> h.sons, fathers |-> h.fathers, home |-> h.home]
    BY <1>5 DEF Sound, Graphs
  <2> QED BY <1>4, <1>5, <2>1
<1> HIDE DEF g
<1>6. ASSUME type[n] \in {"BREAK", "CONTINUE"}, NEW target \in Targets, Redirect(n, target)
      PROVE  Sound(Graph') /\ phase' \in {"edges", "raised"}
  <2>1. CASE target = 0
    <3>1. UNCHANGED <<sons, fathers>> /\ phase' = "raised"
      BY <1>6, <2>1 DEF Redirect
    <3> QED BY <1>4, <3>1 DEF Graph
  <2>2. CASE target # 0
    <3> DEFINE h == Link(g, n, target)
    <3>1. phase' = phase /\ sons' = h.sons /\ fathers' = h.fathers
      BY <1>6, <2>2 DEF Redirect, g
    <3>2. target \in Ids /\ target # 1
      BY <1>6, <2>2 DEF Targets
    <3>3. Sound(h) /\ h.type = type
      BY <1>2, <1>3, <1>6, <3>2, LinkKeeps
    <3>4. h.home = home
      BY <1>4 DEF Link
    <3> HIDE DEF h
    <3> QED BY <1>1, <1>5, <3>1, <3>3, <3>4
  <2> QED BY <2>1, <2>2
<1>7. Sound(Graph') /\ phase' \in {"edges", "raised"}
  <2>1. CASE type[n] = "RETURN"
    <3>1. Becomes(g) /\ UNCHANGED phase
      BY <2>1 DEF FixNode, g
    <3> QED BY <1>1, <1>3, <1>4, <1>5, <3>1 DEF Becomes
  <2>2. CASE type[n] = "BREAK"
    <3>1. Redirect(n, BreakTarget(n)) /\ BreakTarget(n) \in Targets
      BY <1>2, <2>2, JumpTargets DEF FixNode, GraphIInv
    <3> QED BY <1>6, <2>2, <3>1
  <2>3. CASE type[n] = "CONTINUE"
    <3>1. Redirect(n, ContinueTarget(n)) /\ ContinueTarget(n) \in Targets
      BY <1>2, <2>3, JumpTargets DEF FixNode, GraphIInv
    <3> QED BY <1>6, <2>3, <3>1
  <2>4. CASE type[n] \notin {"RETURN", "BREAK", "CONTINUE"}
    <3>1. UNCHANGED <<sons, fathers, phase>>
      BY <2>4 DEF FixNode
    <3> QED BY <1>1, <1>4, <3>1 DEF Graph
  <2> QED BY <2>1, <2>2, <2>3, <2>4
<1> QED BY <1>1, <1>2, <1>7, RepairKeeps

LEMMA PruningKeeps == ASSUME GraphIInv, Prune PROVE GraphIInv'
<1>1. Sound(Graph') /\ type' = type
  BY PruneKeeps DEF GraphIInv
<1> QED BY <1>1, RepairKeeps DEF Prune, GraphIInv

LEMMA RemoveAloneEndifKeeps == ASSUME GraphIInv, RemoveAloneEndif PROVE GraphIInv'
<1>1. /\ Sound(Graph') /\ type' = type /\ gone' \subseteq Ids
      /\ \A n \in gone' : type[n] = "ENDIF" /\ fathers'[n] = <<>>
      /\ \A n \in Ids \ gone' : type[n] = "ENDIF" => fathers'[n] # <<>>
  BY DropKeeps DEF GraphIInv, RemoveAloneEndif
<1>2. Size' = Size /\ Ids' = Ids
  BY <1>1 DEF Size, Ids
<1> QED BY <1>1, <1>2 DEF GraphIInv, NoAloneEndif, RemoveAloneEndif

\* Every step.
LEMMA GraphNext == ASSUME GraphIInv, [Next]_vars PROVE GraphIInv'
<1>1. CASE Parse
  BY <1>1, SimpleKeeps, OpenIfKeeps, ElseKeeps, CloseIfKeeps, OpenLoopKeeps, CloseLoopKeeps,
     OpenForKeeps, CloseForKeeps DEF Parse
<1>2. CASE EndBody
  BY <1>2, EndBodyKeeps
<1>3. CASE FixNode
  BY <1>3, FixNodeKeeps
<1>4. CASE Prune
  BY <1>4, PruningKeeps
<1>5. CASE RemoveAloneEndif
  BY <1>5, RemoveAloneEndifKeeps
<1>6. CASE UNCHANGED vars
  BY <1>6 DEF vars, GraphIInv, Graph, Size, Ids, NoAloneEndif
<1> QED BY <1>1, <1>2, <1>3, <1>4, <1>5, <1>6 DEF Next

----------------------------------------------------------------------------
(* The theorems.                                                            *)

\* What _parse_cfg keeps of the graph at every step, for every program: edges
\* join nodes of the function and stand in both lists, the entry is the first
\* node and is never entered again, from an ENDIF the text only goes on, and
\* the _parse_* calls hold nodes of the kinds they link.
THEOREM GraphInductive == Spec => []GraphIInv
<1>1. Init => GraphIInv
  BY GraphInit
<1>2. GraphIInv /\ [Next]_vars => GraphIInv'
  BY GraphNext
<1> QED BY <1>1, <1>2, PTL DEF Spec

\* What the properties say of it.
LEMMA GraphTyped == ASSUME GraphIInv PROVE TypeOK
BY NodesOfGraph DEF GraphIInv, TypeOK

LEMMA GraphMirrors == ASSUME GraphIInv PROVE FathersMirrorSons
BY DEF GraphIInv, Sound, Mirrors, Graph, FathersMirrorSons, Ids

\* The graph under construction is well formed in functions of every size.
THEOREM GraphTypeCorrect == Spec => []TypeOK
BY GraphInductive, GraphTyped, PTL

\* link_nodes, remove_father and set_sons keep sons and fathers in step: no edge
\* is in one list only, or more often in one than in the other.
THEOREM EdgesKeptTwice == Spec => []FathersMirrorSons
BY GraphInductive, GraphMirrors, PTL

LEMMA GraphEndifs == ASSUME GraphIInv PROVE NoAloneEndif
BY DEF GraphIInv

\* The single pass of _remove_alone_endif is enough in every function: an ENDIF
\* has lost its fathers before the pass comes to it, since edges between ENDIFs
\* lead to later ones.
THEOREM NoAloneEndifLeft == Spec => []NoAloneEndif
BY GraphInductive, GraphEndifs, PTL

=============================================================================
