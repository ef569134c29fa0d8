--------------------------- MODULE PathWalkProofs ---------------------------
(* Proofs about the walk of the paths: what is executed along a path is a   *)
(* run of the program, whatever the program.                                *)
EXTENDS PathWalk, SequenceTheorems, WellFoundedInduction, TLAPS

----------------------------------------------------------------------------
(* Induction and recursion, told with sets and functions.                   *)

\* A set of numbers that is not empty has a least one.
LEMMA Least ==
  ASSUME NEW S \in SUBSET Nat, S # {}
  PROVE  \E m \in S : \A k \in S : ~(k < m)
<1>1. IsWellFoundedOn(OpToRel(<, Nat), Nat)
  BY NatLessThanWellFounded
<1>2. \E m \in S : \A k \in S : <<k, m>> \notin OpToRel(<, Nat)
  BY <1>1, WFMin
<1>3. ASSUME NEW m \in Nat, NEW k \in Nat, k < m PROVE <<k, m>> \in OpToRel(<, Nat)
  BY <1>3 DEF OpToRel
<1> QED BY <1>2, <1>3

\* Induction up to n: what holds of 0 and goes on by one holds of all.
LEMMA UpTo ==
  ASSUME NEW n \in Nat, NEW S, 0 \in S, \A k \in 1..n : k - 1 \in S => k \in S
  PROVE  0..n \subseteq S
<1> DEFINE B == (0..n) \ S
<1> SUFFICES ASSUME B # {} PROVE FALSE
  OBVIOUS
<1>1. PICK m \in B : \A k \in B : ~(k < m)
  <2>1. B \in SUBSET Nat
    OBVIOUS
  <2> HIDE DEF B
  <2> QED BY <2>1, Least
<1>2. m \in 1..n
  BY <1>1
<1>3. m - 1 \in 0..n /\ m - 1 < m
  BY <1>2
<1>4. m - 1 \in S
  BY <1>1, <1>3
<1> QED BY <1>1, <1>2, <1>4

\* A function told by its first value and by each from the one before.
Iterated(n, T, x, step) ==
  \E f \in [0..n -> T] : f[0] = x /\ \A k \in 1..n : f[k] = step[<<k, f[k-1]>>]

\* Such a function exists: a recursive definition up to n means what it says.
LEMMA Recursion ==
  ASSUME NEW n \in Nat, NEW T, NEW x \in T, NEW step \in [(1..n) \X T -> T]
  PROVE  Iterated(n, T, x, step)
<1> DEFINE Good(m) == \E f \in [0..m -> T] : f[0] = x /\ \A k \in 1..m : f[k] = step[<<k, f[k-1]>>]
           S == {m \in 0..n : Good(m)}
<1>1. 0 \in S
  <2>1. [k \in 0..0 |-> x] \in [0..0 -> T] /\ [k \in 0..0 |-> x][0] = x /\ 1..0 = {}
    OBVIOUS
  <2>2. Good(0)
    BY <2>1
  <2> HIDE DEF Good
  <2> QED BY <2>2
<1>2. ASSUME NEW m \in 1..n, m - 1 \in S PROVE m \in S
  <2>1. PICK f \in [0..(m-1) -> T] : f[0] = x /\ \A k \in 1..(m-1) : f[k] = step[<<k, f[k-1]>>]
    BY <1>2
  <2> DEFINE g == [k \in 0..m |-> IF k = m THEN step[<<m, f[m-1]>>] ELSE f[k]]
  <2>2. \A k \in 0..m : k # m => k \in 0..(m-1) /\ g[k] = f[k]
    OBVIOUS
  <2>3. g[m] = step[<<m, f[m-1]>>] /\ m - 1 \in 0..(m-1) /\ f[m-1] \in T
    OBVIOUS
  <2>4. g \in [0..m -> T]
    BY <2>2, <2>3
  <2>5. g[0] = x
    BY <2>1, <2>2
  <2>6. ASSUME NEW k \in 1..m PROVE g[k] = step[<<k, g[k-1]>>]
    <3>1. k - 1 \in 0..m /\ k - 1 # m
      OBVIOUS
    <3>2. g[k-1] = f[k-1]
      BY <2>2, <3>1
    <3>3. CASE k = m
      BY <2>3, <3>2, <3>3
    <3>4. CASE k # m
      <4>1. k \in 1..(m-1)
        BY <3>4
      <4>2. g[k] = f[k]
        BY <2>2, <3>4
      <4> QED BY <2>1, <3>2, <4>1, <4>2
    <3> QED BY <3>3, <3>4
  <2> HIDE DEF g
  <2>7. Good(m)
    BY <2>4, <2>5, <2>6
  <2> QED BY <2>7
<1>3. n \in S
  <2> HIDE DEF S
  <2>1. \A k \in 1..n : k - 1 \in S => k \in S
    BY <1>2
  <2>2. 0..n \subseteq S
    BY <1>1, <2>1, UpTo
  <2> QED BY <2>2
<1> QED BY <1>3 DEF Iterated

----------------------------------------------------------------------------
(* Sequences of sequences laid end to end.                                  *)

\* Where each of them comes: the j-th ends at off[j].
Offsets(s, t, off) ==
  /\ off \in [0..Len(s) -> Nat] /\ off[0] = 0 /\ off[Len(s)] = Len(t)
  /\ \A j \in 1..Len(s) : off[j] = off[j - 1] + Len(s[j]) /\ off[j] <= Len(t)
                          /\ \A k \in 1..Len(s[j]) : t[off[j - 1] + k] = s[j][k]

\* One more sequence at the end.
LEMMA OneMore ==
  ASSUME NEW X, NEW s \in Seq(X), NEW t \in Seq(X)
  PROVE  /\ s \o t \in Seq(X) /\ Len(s \o t) = Len(s) + Len(t)
         /\ \A k \in 1..Len(s) : (s \o t)[k] = s[k]
         /\ \A k \in 1..Len(t) : (s \o t)[Len(s) + k] = t[k]
<1>1. s \o t \in Seq(X) /\ Len(s \o t) = Len(s) + Len(t)
      /\ \A i \in 1 .. Len(s) + Len(t) : (s \o t)[i] = IF i <= Len(s) THEN s[i] ELSE t[i - Len(s)]
  BY ConcatProperties
<1>2. Len(s) \in Nat /\ Len(t) \in Nat
  OBVIOUS
<1>3. ASSUME NEW k \in 1..Len(s) PROVE (s \o t)[k] = s[k]
  BY <1>1, <1>2
<1>4. ASSUME NEW k \in 1..Len(t) PROVE (s \o t)[Len(s) + k] = t[k]
  <2>1. Len(s) + k \in 1..(Len(s) + Len(t)) /\ ~(Len(s) + k <= Len(s)) /\ (Len(s) + k) - Len(s) = k
    BY <1>2
  <2> QED BY <1>1, <2>1
<1> QED BY <1>1, <1>3, <1>4

\* FlattenSeq lays them end to end.
LEMMA Flattened ==
  ASSUME NEW X, NEW s \in Seq(Seq(X))
  PROVE  /\ FlattenSeq(s) \in Seq(X)
         /\ \E off : Offsets(s, FlattenSeq(s), off)
<1> DEFINE n == Len(s)
           Then(f, i) == IF i = 1 THEN s[i] ELSE f[i - 1] \o s[i]
           Def(f) == f = [i \in 1..n |-> Then(f, i)]
           flat == CHOOSE f : Def(f)
           step == [p \in (1..n) \X Seq(X) |-> IF p[1] = 1 THEN s[1] ELSE p[2] \o s[p[1]]]
<1>1. n \in Nat /\ \A i \in 1..n : s[i] \in Seq(X)
  OBVIOUS
<1>2. CASE n = 0
  <2>1. s = <<>> /\ FlattenSeq(s) = <<>>
    BY <1>2 DEF FlattenSeq
  <2> DEFINE off == [j \in 0..0 |-> 0]
  <2>2. Offsets(<<>>, <<>>, off)
    BY DEF Offsets
  <2> QED BY <2>1, <2>2
<1>3. CASE n # 0
  <2>1. <<>> \in Seq(X) /\ step \in [(1..n) \X Seq(X) -> Seq(X)]
    <3>1. ASSUME NEW p \in (1..n) \X Seq(X) PROVE (IF p[1] = 1 THEN s[1] ELSE p[2] \o s[p[1]]) \in Seq(X)
      <4>1. s[1] \in Seq(X) /\ p[2] \in Seq(X) /\ s[p[1]] \in Seq(X)
        BY <1>1, <1>3
      <4>2. p[2] \o s[p[1]] \in Seq(X)
        BY <4>1, OneMore
      <4> QED BY <4>1, <4>2
    <3> QED BY <3>1
  <2> HIDE DEF n
  <2>2. PICK g \in [0..n -> Seq(X)] : g[0] = <<>> /\ \A i \in 1..n : g[i] = step[<<i, g[i - 1]>>]
    <3>1. Iterated(n, Seq(X), <<>>, step)
      <4> HIDE DEF step
      <4> QED BY <1>1, <2>1, Recursion
    <3> QED BY <3>1 DEF Iterated
  <2> DEFINE f == [i \in 1..n |-> g[i]]
  <2>3. ASSUME NEW i \in 1..n PROVE f[i] = Then(f, i)
    <3>1. i - 1 \in 0..n /\ g[i - 1] \in Seq(X)
      BY <1>1
    <3>2. g[i] = IF i = 1 THEN s[1] ELSE g[i - 1] \o s[i]
      BY <2>2, <3>1
    <3>3. i # 1 => i - 1 \in 1..n /\ f[i - 1] = g[i - 1]
      BY <1>1
    <3> QED BY <3>2, <3>3
  <2>4. Def(f)
    <3> HIDE DEF Then
    <3> QED BY <2>3
  <2>5. Def(flat)
    <3> HIDE DEF Def
    <3> QED BY <2>4
  <2>6. \A i \in 1..n : flat[i] = Then(flat, i)
    <3> HIDE DEF flat, Then
    <3> QED BY <2>5
  <2>7. FlattenSeq(s) = flat[n]
    BY <1>3 DEF FlattenSeq, n
  <2> HIDE DEF flat, Def
  <2> DEFINE off == [j \in 0..n |-> IF j = 0 THEN 0 ELSE Len(flat[j])]
             Laid(t, j) == /\ flat[j] \in Seq(X) /\ off[j] = off[j - 1] + Len(s[j])
                           /\ off[j - 1] \in Nat /\ off[j] <= Len(t)
                           /\ \A k \in 1..Len(s[j]) : t[off[j - 1] + k] = s[j][k]
             Upto(i) == \A j \in 1..i : Laid(flat[i], j)
             Good == {i \in 0..n : Upto(i)}
  <2>o. off[0] = 0 /\ \A j \in 1..n : off[j] = Len(flat[j])
    BY <1>1
  <2>8. 0 \in Good
    <3>1. 0 \in 0..n /\ \A j \in 1..0 : FALSE
      BY <1>1
    <3> HIDE DEF Laid
    <3> QED BY <3>1
  <2> HIDE DEF off
  <2>9. ASSUME NEW i \in 1..n, i - 1 \in Good PROVE i \in Good
    <3>1. s[i] \in Seq(X) /\ i \in 0..n /\ i - 1 \in 0..n /\ Len(s[i]) \in Nat
      BY <1>1
    <3>u. Upto(i - 1)
      BY <2>9
    <3> SUFFICES Upto(i)
      BY <3>1
    <3> HIDE DEF Good, n
    <3>2. CASE i = 1
      <4>1. flat[1] = s[1] /\ off[1] = Len(s[1])
        BY <2>6, <2>o, <3>1, <3>2
      <4>2. 1 - 1 = 0 /\ \A k \in 1..Len(s[1]) : 0 + k = k
        BY <3>1, <3>2
      <4>3. Laid(flat[1], 1)
        BY <2>o, <3>1, <3>2, <4>1, <4>2
      <4> HIDE DEF Laid
      <4> QED BY <3>2, <4>3
    <3>3. CASE i # 1
      <4>1. i - 1 \in 1..n /\ flat[i] = flat[i - 1] \o s[i]
        <5>1. i - 1 \in 1..n
          BY <1>1, <3>3
        <5>2. flat[i] = flat[i - 1] \o s[i]
          BY <2>6, <3>3
        <5> QED BY <5>1, <5>2
      <4>2. Laid(flat[i - 1], i - 1)
        <5> HIDE DEF Laid
        <5> QED BY <1>1, <3>u, <4>1
      <4>3. flat[i - 1] \in Seq(X)
        BY <4>2
      <4> DEFINE u == flat[i - 1]
                 v == s[i]
      <4>a. u \in Seq(X) /\ v \in Seq(X) /\ flat[i] = u \o v
        BY <3>1, <4>1, <4>3
      <4> HIDE DEF u, v
      <4>b. /\ u \o v \in Seq(X) /\ Len(u \o v) = Len(u) + Len(v)
            /\ \A k \in 1..Len(u) : (u \o v)[k] = u[k]
            /\ \A k \in 1..Len(v) : (u \o v)[Len(u) + k] = v[k]
        BY <4>a, OneMore
      <4>4. /\ flat[i] \in Seq(X) /\ Len(flat[i]) = Len(flat[i - 1]) + Len(s[i])
            /\ \A k \in 1..Len(flat[i - 1]) : flat[i][k] = flat[i - 1][k]
            /\ \A k \in 1..Len(s[i]) : flat[i][Len(flat[i - 1]) + k] = s[i][k]
        BY <4>a, <4>b DEF u, v
      <4>5. off[i] = Len(flat[i]) /\ off[i - 1] = Len(flat[i - 1])
        BY <2>o, <4>1
      <4>6. Len(flat[i]) \in Nat /\ Len(flat[i - 1]) \in Nat
        <5>1. Len(u) \in Nat /\ Len(u \o v) \in Nat
          BY <4>a, <4>b
        <5> QED BY <4>a, <5>1 DEF u
      <4>7. Laid(flat[i], i)
        BY <3>1, <4>4, <4>5, <4>6
      <4>8. ASSUME NEW j \in 1..(i - 1) PROVE Laid(flat[i], j)
        <5>1. Laid(flat[i - 1], j)
          <6> HIDE DEF Laid
          <6> QED BY <3>u
        <5>2. j \in 1..n /\ s[j] \in Seq(X) /\ Len(s[j]) \in Nat
          BY <1>1
        <5>a. off[j - 1] \in Nat /\ off[j] = off[j - 1] + Len(s[j]) /\ off[j] <= Len(flat[i - 1])
          BY <5>1
        <5> DEFINE before == Len(flat[i - 1])
                   now == Len(flat[i])
                   more == Len(s[i])
                   start == off[j - 1]
        <5>c. before \in Nat /\ now \in Nat /\ more \in Nat /\ now = before + more /\ start \in Nat
          BY <3>1, <4>4, <4>6, <5>a
        <5>b. before <= now
          <6> HIDE DEF before, now, more
          <6> QED BY <5>c
        <5>3. off[j] <= Len(flat[i]) /\ off[j] \in Nat
          BY <4>6, <5>2, <5>a, <5>b
        <5>4. ASSUME NEW k \in 1..Len(s[j]) PROVE flat[i][off[j - 1] + k] = s[j][k]
          <6>1. off[j - 1] + k \in 1..Len(flat[i - 1])
            <7>1. start + Len(s[j]) <= before
              BY <5>a
            <7>2. start + k \in 1..before
              <8> HIDE DEF start, before
              <8> QED BY <5>2, <5>c, <7>1
            <7> QED BY <7>2
          <6> QED BY <4>4, <5>1, <6>1
        <5> QED BY <5>1, <5>3, <5>4
      <4>9. \A j \in 1..i : j = i \/ j \in 1..(i - 1)
        BY <4>1
      <4> HIDE DEF Laid
      <4> QED BY <4>7, <4>8, <4>9
    <3> QED BY <3>2, <3>3
  <2>10. Upto(n)
    <3>1. 0..n \subseteq Good
      <4> HIDE DEF Good, n
      <4> QED BY <1>1, <2>8, <2>9, UpTo
    <3>2. n \in Good
      <4> HIDE DEF Good
      <4> QED BY <1>1, <3>1
    <3> HIDE DEF Upto
    <3> QED BY <3>2
  <2>11. flat[n] \in Seq(X) /\ n \in 1..n
    BY <1>1, <1>3, <2>10
  <2>12. off \in [0..n -> Nat]
    <3>1. \A j \in 1..n : flat[j] \in Seq(X)
      BY <2>10
    <3>2. \A j \in 1..n : Len(flat[j]) \in Nat
      BY <3>1
    <3> QED BY <3>2 DEF off
  <2>13. Offsets(s, flat[n], off)
    <3>1. off[0] = 0 /\ off[n] = Len(flat[n])
      BY <2>o, <2>11
    <3>2. \A j \in 1..n : /\ off[j] = off[j - 1] + Len(s[j]) /\ off[j] <= Len(flat[n])
                           /\ \A k \in 1..Len(s[j]) : flat[n][off[j - 1] + k] = s[j][k]
      BY <2>10
    <3> QED BY <2>12, <3>1, <3>2 DEF Offsets, n
  <2> QED BY <2>7, <2>11, <2>13
<1> QED BY <1>2, <1>3

----------------------------------------------------------------------------
(* The IRs of a program, and the paths of IRs of its functions.             *)

\* The IRs there are; those of function f.
IrIds == {ir \in Functions \X Nat \X Nat : /\ ir[2] \in DOMAIN code[ir[1]].nodes
                                           /\ ir[3] \in DOMAIN code[ir[1]].nodes[ir[2]]}
FnIrs(f) == {ir \in IrIds : ir[1] = f}

\* The IRs of the nodes of a path.
Nodes(f, i) == [j \in DOMAIN code[f].paths[i] |-> Irs(f, code[f].paths[i][j])]

\* What the assumptions say of one function.
LEMMA Program ==
  ASSUME code \in Programs, NEW f \in Functions
  PROVE  /\ code[f].nodes \in Seq(Seq(Instructions)) /\ code[f].paths \in Seq(Seq(Nat))
         /\ code[f].paths # <<>>
         /\ \A i \in DOMAIN code[f].paths : /\ code[f].paths[i] \in Seq(Nat)
                                            /\ Range(code[f].paths[i]) \subseteq DOMAIN code[f].nodes
         /\ \A n \in DOMAIN code[f].nodes : /\ code[f].nodes[n] \in Seq(Instructions) /\ n \in Nat
              /\ \A k \in DOMAIN code[f].nodes[n] :
                   /\ code[f].nodes[n][k] \in Instructions /\ k \in Nat
                   /\ f \in Range(Entries) /\ code[f].nodes[n][k].op = "call" => code[f].nodes[n][k].v # "p"
<1>1. code[f] \in [nodes : Seq(Seq(Instructions)), paths : Seq(Seq(Nat))]
  BY ProgramsAssumption
<1>2. code[f].nodes \in Seq(Seq(Instructions)) /\ code[f].paths \in Seq(Seq(Nat))
  BY <1>1
<1>3. \A i \in DOMAIN code[f].paths : code[f].paths[i] \in Seq(Nat)
  BY <1>2
<1>4. ASSUME NEW n \in DOMAIN code[f].nodes
      PROVE  /\ code[f].nodes[n] \in Seq(Instructions) /\ n \in Nat
             /\ \A k \in DOMAIN code[f].nodes[n] : code[f].nodes[n][k] \in Instructions /\ k \in Nat
  <2>1. code[f].nodes[n] \in Seq(Instructions) /\ n \in Nat
    BY <1>2
  <2> QED BY <2>1
<1> QED BY <1>2, <1>3, <1>4, ProgramsAssumption

\* The IRs of a node are its own, each in its place.
LEMMA NodeIrs ==
  ASSUME code \in Programs, NEW f \in Functions, NEW n \in DOMAIN code[f].nodes
  PROVE  Irs(f, n) \in Seq(FnIrs(f))
<1>1. code[f].nodes[n] \in Seq(Instructions) /\ n \in Nat
  BY Program
<1>2. DOMAIN code[f].nodes[n] = 1..Len(code[f].nodes[n]) /\ Len(code[f].nodes[n]) \in Nat
  BY <1>1
<1>3. ASSUME NEW k \in DOMAIN code[f].nodes[n] PROVE <<f, n, k>> \in FnIrs(f)
  BY <1>1, <1>2 DEF FnIrs, IrIds
<1>4. Irs(f, n) \in [1..Len(code[f].nodes[n]) -> FnIrs(f)]
  BY <1>2, <1>3 DEF Irs
<1> QED BY <1>2, <1>4

\* The paths of a function lead over its own IRs.
LEMMA PathIrs ==
  ASSUME code \in Programs, NEW f \in Functions, NEW i \in DOMAIN code[f].paths
  PROVE  /\ Nodes(f, i) \in Seq(Seq(FnIrs(f))) /\ Len(Nodes(f, i)) = Len(code[f].paths[i])
         /\ IrsAlong(f, i) = FlattenSeq(Nodes(f, i))
         /\ IrsAlong(f, i) \in Seq(FnIrs(f))
<1> DEFINE p == code[f].paths[i]
<1>1. p \in Seq(Nat) /\ Range(p) \subseteq DOMAIN code[f].nodes
  BY Program
<1>2. DOMAIN p = 1..Len(p) /\ Len(p) \in Nat
  BY <1>1
<1>3. ASSUME NEW j \in DOMAIN p PROVE Irs(f, p[j]) \in Seq(FnIrs(f))
  <2>1. p[j] \in DOMAIN code[f].nodes
    BY <1>1 DEF Range
  <2> QED BY <2>1, NodeIrs
<1>4. Nodes(f, i) \in [1..Len(p) -> Seq(FnIrs(f))]
  BY <1>2, <1>3 DEF Nodes
<1>5. Nodes(f, i) \in Seq(Seq(FnIrs(f))) /\ Len(Nodes(f, i)) = Len(p)
  <2> HIDE DEF p
  <2> QED BY <1>2, <1>4
<1>6. IrsAlong(f, i) = FlattenSeq(Nodes(f, i))
  BY DEF IrsAlong, Nodes
<1> QED BY <1>5, <1>6, Flattened

\* A call names a function; one that passes a parameter on is in a function
\* that has one.
LEMMA CallIr ==
  ASSUME code \in Programs, NEW ir \in IrIds
  PROVE  /\ ir[1] \in Functions
         /\ Op(ir).op = "call" => /\ Op(ir).f \in Functions
                                  /\ Op(ir).v = "p" => ir[1] \notin Range(Entries)
                                  /\ Op(ir).v # "p" => Op(ir).v \in Range(StateVars)
         /\ Op(ir).op = "point" => Op(ir).v \in Range(StateVars)
<1>1. ir[1] \in Functions /\ ir[2] \in DOMAIN code[ir[1]].nodes /\ ir[3] \in DOMAIN code[ir[1]].nodes[ir[2]]
  BY DEF IrIds
<1>2. /\ Op(ir) \in Instructions
      /\ ir[1] \in Range(Entries) /\ Op(ir).op = "call" => Op(ir).v # "p"
  BY <1>1, Program DEF Op
<1> QED BY <1>1, <1>2 DEF Instructions

----------------------------------------------------------------------------
(* Stacks of activations.                                                   *)

Acts   == {a \in [fn : Functions, path : Nat \ {0}, done : Nat] : a.path \in DOMAIN code[a.fn].paths}
Stacks == Seq(Acts)

\* The last activation goes on by m IRs.
Ahead(c, m) == [c EXCEPT ![Len(c)].done = @ + m]

\* Going on changes how far the last activation is, and nothing else.
LEMMA GoingOn ==
  ASSUME NEW c \in Stacks, c # <<>>, NEW m \in Nat
  PROVE  /\ Ahead(c, m) \in Stacks /\ Ahead(c, m) # <<>> /\ Len(Ahead(c, m)) = Len(c)
         /\ Last(c) \in Acts /\ Last(Ahead(c, m)) = [Last(c) EXCEPT !.done = @ + m]
         /\ Last(Ahead(c, m)) \in Acts
         /\ Last(Ahead(c, m)).done = Last(c).done + m
         /\ Last(Ahead(c, m)).fn = Last(c).fn /\ Last(Ahead(c, m)).path = Last(c).path
         /\ Line(Last(Ahead(c, m))) = Line(Last(c))
         /\ \A i \in 1..Len(c) : Ahead(c, m)[i].fn = c[i].fn
<1> DEFINE n == Len(c)
           a == [c[n] EXCEPT !.done = @ + m]
<1>1. n \in Nat /\ n \in 1..n /\ c \in [1..n -> Acts]
  BY DEF Stacks
<1>2. c[n] \in Acts
  BY <1>1
<1>3. a \in Acts /\ a.done = c[n].done + m /\ a.fn = c[n].fn /\ a.path = c[n].path
  BY <1>2 DEF Acts
<1>4. Ahead(c, m) = [c EXCEPT ![n] = a]
  BY <1>1 DEF Ahead
<1> HIDE DEF a
<1>5. [c EXCEPT ![n] = a] \in Seq(Acts) /\ Len([c EXCEPT ![n] = a]) = n
      /\ [c EXCEPT ![n] = a][n] = a /\ \A i \in 1..n : i # n => [c EXCEPT ![n] = a][i] = c[i]
  <2>1. [c EXCEPT ![n] = a] \in [1..n -> Acts]
    BY <1>1, <1>3
  <2> HIDE DEF n
  <2>2. [c EXCEPT ![n] = a][n] = a /\ \A i \in 1..n : i # n => [c EXCEPT ![n] = a][i] = c[i]
    BY <1>1
  <2> QED BY <1>1, <2>1, <2>2
<1>6. Last(c) = c[n] /\ Last(Ahead(c, m)) = a
  BY <1>4, <1>5 DEF Last
<1>7. Ahead(c, m) # <<>>
  <2>0. n > 0
    BY <1>1
  <2>1. Len(Ahead(c, m)) = n /\ n > 0
    BY <1>4, <1>5, <2>0
  <2> HIDE DEF n
  <2> QED BY <2>1
<1>8. ASSUME NEW i \in 1..Len(c) PROVE Ahead(c, m)[i].fn = c[i].fn
  BY <1>3, <1>4, <1>5
<1> QED BY <1>2, <1>3, <1>4, <1>5, <1>6, <1>7, <1>8 DEF Stacks, Line, a

\* Going on by m and by k more is going on by both.
LEMMA Further ==
  ASSUME NEW c \in Stacks, c # <<>>, NEW m \in Nat, NEW k \in Nat
  PROVE  Ahead(Ahead(c, m), k) = Ahead(c, m + k) /\ Ahead(c, 0) = c
<1> DEFINE n == Len(c)
<1>1. n \in Nat /\ n \in 1..n /\ c \in [1..n -> Acts]
  BY DEF Stacks
<1>2. c[n] \in [fn : Functions, path : Nat \ {0}, done : Nat]
  BY <1>1 DEF Acts
<1>3. Len(Ahead(c, m)) = n
  BY GoingOn
<1>4. Ahead(c, m) = [c EXCEPT ![n] = [c[n] EXCEPT !.done = @ + m]]
  BY DEF Ahead
<1>5. Ahead(c, m + k) = [c EXCEPT ![n] = [c[n] EXCEPT !.done = @ + (m + k)]]
  BY DEF Ahead
<1>6. Ahead(Ahead(c, m), k) = [Ahead(c, m) EXCEPT ![n] = [Ahead(c, m)[n] EXCEPT !.done = @ + k]]
  BY <1>3 DEF Ahead
<1>7. [[c[n] EXCEPT !.done = @ + m] EXCEPT !.done = @ + k] = [c[n] EXCEPT !.done = @ + (m + k)]
  <2> DEFINE l == c[n]
  <2>1. l.done \in Nat /\ (l.done + m) + k = l.done + (m + k)
    BY <1>2
  <2>2. l = [fn |-> l.fn, path |-> l.path, done |-> l.done]
    BY <1>2
  <2>3. [l EXCEPT !.done = @ + m] = [fn |-> l.fn, path |-> l.path, done |-> l.done + m]
    BY <1>2
  <2>4. [l EXCEPT !.done = @ + (m + k)] = [fn |-> l.fn, path |-> l.path, done |-> l.done + (m + k)]
    BY <1>2
  <2> DEFINE r == [l EXCEPT !.done = @ + m]
             u == [l EXCEPT !.done = @ + (m + k)]
  <2>5. r \in [fn : Functions, path : Nat \ {0}, done : Nat]
        /\ r.fn = l.fn /\ r.path = l.path /\ r.done = l.done + m
    BY <1>2
  <2> HIDE DEF l, r
  <2>6. [r EXCEPT !.done = @ + k] = [fn |-> r.fn, path |-> r.path, done |-> r.done + k]
    BY <2>5
  <2>7. u = [fn |-> l.fn, path |-> l.path, done |-> l.done + (m + k)]
    BY <2>4
  <2> HIDE DEF u
  <2>8. [r EXCEPT !.done = @ + k] = u
    BY <2>1, <2>5, <2>6, <2>7
  <2> QED BY <2>8 DEF r, l, u
<1>8. Ahead(c, 0) = [c EXCEPT ![n] = c[n]]
  <2>1. [c[n] EXCEPT !.done = @ + 0] = c[n]
    BY <1>2
  <2>2. Ahead(c, 0) = [c EXCEPT ![n] = [c[n] EXCEPT !.done = @ + 0]]
    BY DEF Ahead
  <2> QED BY <2>1, <2>2
<1> HIDE DEF n
<1>9. [c EXCEPT ![n] = c[n]] = c
  BY <1>1
<1> DEFINE a == [c[n] EXCEPT !.done = @ + m]
           b == [c[n] EXCEPT !.done = @ + (m + k)]
<1>10. Ahead(Ahead(c, m), k) = [[c EXCEPT ![n] = a] EXCEPT ![n] = b]
  BY <1>1, <1>4, <1>6, <1>7
<1>11. [[c EXCEPT ![n] = a] EXCEPT ![n] = b] = [c EXCEPT ![n] = b]
  <2> HIDE DEF a, b
  <2> QED BY <1>1
<1> QED BY <1>5, <1>8, <1>9, <1>10, <1>11

\* A new activation goes on top, and comes off again.
LEMMA Pushed ==
  ASSUME NEW c \in Stacks, NEW a \in Acts
  PROVE  /\ Append(c, a) \in Stacks /\ Append(c, a) # <<>>
         /\ Last(Append(c, a)) = a /\ Front(Append(c, a)) = c
         /\ Len(Append(c, a)) = Len(c) + 1
         /\ \A i \in 1..Len(c) : Append(c, a)[i] = c[i]
<1>1. c \in Seq(Acts) /\ Len(c) \in Nat
  BY DEF Stacks
<1>2. /\ Append(c, a) \in Seq(Acts) /\ Append(c, a) # <<>> /\ Len(Append(c, a)) = Len(c) + 1
      /\ \A i \in 1.. Len(c) : Append(c, a)[i] = c[i] /\ Append(c, a)[Len(c)+1] = a
  BY <1>1, AppendProperties
<1>3. Append(c, a)[Len(c)+1] = a
  BY <1>1, AppendProperties
<1>4. SubSeq(Append(c, a), 1, Len(c)) = c
  BY <1>1
<1> QED BY <1>1, <1>2, <1>3, <1>4 DEF Stacks, Last, Front

\* Taking one off leaves the others.
LEMMA Popped ==
  ASSUME NEW c \in Stacks, c # <<>>
  PROVE  Front(c) \in Stacks /\ Len(Front(c)) = Len(c) - 1 /\ \A i \in 1..Len(Front(c)) : Front(c)[i] = c[i]
<1>1. c \in Seq(Acts) /\ Len(c) \in Nat /\ Len(c) - 1 \in Nat
  BY DEF Stacks
<1>2. \A i \in 1..(Len(c) - 1) : c[i] \in Acts /\ (1 + i) - 1 = i
  BY <1>1
<1>3. /\ SubSeq(c, 1, Len(c) - 1) \in Seq(Acts) /\ Len(SubSeq(c, 1, Len(c) - 1)) = Len(c) - 1
      /\ \A i \in 1..(Len(c) - 1) : SubSeq(c, 1, Len(c) - 1)[i] = c[i]
  <2> DEFINE n == Len(c) - 1
  <2>1. n \in Nat /\ n - 1 + 1 = n
    BY <1>1
  <2>2. \A i \in 1..n : c[i] \in Acts /\ 1 + i - 1 = i
    BY <1>1, <1>2
  <2> HIDE DEF n
  <2>3. /\ SubSeq(c, 1, n) \in Seq(Acts) /\ Len(SubSeq(c, 1, n)) = IF 1 <= n THEN n - 1 + 1 ELSE 0
        /\ \A i \in 1..(n - 1 + 1) : SubSeq(c, 1, n)[i] = c[1 + i - 1]
    BY <2>1, <2>2, SubSeqProperties
  <2>4. Len(SubSeq(c, 1, n)) = n /\ \A i \in 1..n : SubSeq(c, 1, n)[i] = c[i]
    BY <2>1, <2>2, <2>3
  <2> QED BY <2>3, <2>4 DEF n
<1> QED BY <1>3 DEF Stacks, Front

\* Going on is done to the activation on top.
LEMMA TopGoesOn ==
  ASSUME NEW c \in Stacks, NEW a \in Acts, NEW m \in Nat
  PROVE  Ahead(Append(c, a), m) = Append(c, [a EXCEPT !.done = @ + m])
<1> DEFINE n == Len(c) + 1
           b == [a EXCEPT !.done = @ + m]
<1>1. c \in Seq(Acts) /\ Len(c) \in Nat /\ n \in Nat
  BY DEF Stacks
<1>2. Append(c, a) \in Seq(Acts) /\ Len(Append(c, a)) = n /\ Append(c, a)[n] = a
  BY <1>1, AppendProperties
<1>3. Ahead(Append(c, a), m) = [Append(c, a) EXCEPT ![n] = b]
  BY <1>2 DEF Ahead
<1>4. [Append(c, a) EXCEPT ![n] = b] = Append(c, b)
  <2>1. b \in Acts
    BY DEF Acts
  <2> HIDE DEF b
  <2>2. Append(c, b) \in Seq(Acts) /\ Len(Append(c, b)) = n /\ Append(c, b)[n] = b
        /\ \A i \in 1..Len(c) : Append(c, b)[i] = c[i]
    BY <1>1, <2>1, AppendProperties
  <2>3. \A i \in 1..Len(c) : Append(c, a)[i] = c[i]
    BY <1>1, AppendProperties
  <2> DEFINE v == Append(c, a)
             w == Append(c, b)
  <2>4. v \in [1..n -> Acts] /\ w \in [1..n -> Acts] /\ w[n] = b
        /\ \A i \in 1..n : i # n => v[i] = w[i]
    <3>1. \A i \in 1..n : i # n => i \in 1..Len(c)
      BY <1>1
    <3>2. v \in Seq(Acts) /\ Len(v) = n /\ w \in Seq(Acts) /\ Len(w) = n
      BY <1>2, <2>2
    <3>3. v \in [1..n -> Acts] /\ w \in [1..n -> Acts]
      <4> HIDE DEF v, w, n
      <4> QED BY <3>2, LenProperties
    <3>4. w[n] = b /\ \A i \in 1..Len(c) : v[i] = w[i]
      BY <2>2, <2>3
    <3> HIDE DEF v, w, n
    <3> QED BY <3>1, <3>3, <3>4
  <2> HIDE DEF v, w, n
  <2>5. [v EXCEPT ![n] = b] = w
    BY <2>1, <2>4
  <2> QED BY <2>5 DEF v, w
<1> QED BY <1>3, <1>4

----------------------------------------------------------------------------
(* Paths, item by item.                                                     *)

\* A function that starts a path has no argument; of others the argument's
\* context exists.
Starts == {x \in [kind : {"start"}, fn : Functions, of : Nat] :
             IF x.of = 0 THEN x.fn \in Range(Entries) ELSE x.of \in DOMAIN heap}
Items == Starts
           \cup [kind : {"end"}, fn : Functions, of : IrIds \cup {NoIr}]
           \cup [kind : {"code"}, irs : Seq(IrIds)]

\* The m-th of these IRs is the first call among them.
FirstCall(irs, m) == /\ m \in DOMAIN irs /\ Op(irs[m]).op = "call"
                     /\ \A k \in 1..(m - 1) : Op(irs[k]).op # "call"

\* The first m of these IRs come next in the last activation of s, which makes t.
Does(irs, m, s, t) == /\ s # <<>> /\ t = Ahead(s, m)
                      /\ Last(s).done + m <= Len(Line(Last(s)))
                      /\ \A k \in 1..m : irs[k] = Line(Last(s))[Last(s).done + k]

\* Item x, where y comes after it, makes t of s.  IRs behind a call that is
\* expanded in y are not executed here.
Fit(x, y, s, t) ==
  \/ /\ x.kind = "start" /\ y.kind # "start"
     /\ \E j \in DOMAIN code[x.fn].paths : t = Append(s, Begun(x.fn, j))
  \/ /\ x.kind = "end" /\ y.kind # "start"
     /\ s # <<>> /\ Last(s).fn = x.fn /\ Last(s).done = Len(Line(Last(s))) /\ t = Front(s)
  \/ x.kind = "code" /\ y.kind # "start" /\ Does(x.irs, Len(x.irs), s, t)
  \/ /\ x.kind = "code" /\ y.kind = "start"
     /\ \E m : FirstCall(x.irs, m) /\ Op(x.irs[m]).f = y.fn /\ Does(x.irs, m, s, t)

\* What comes after the i-th item of p, which y comes after.
After(p, y, i) == IF i < Len(p) THEN p[i + 1] ELSE y

\* st tells the stacks before and after every item of p.
Strung(p, y, st) == /\ st \in [1..(Len(p) + 1) -> Stacks]
                    /\ \A i \in 1..Len(p) : Fit(p[i], After(p, y, i), st[i], st[i + 1])

\* u begins as s does, for n items, and comes to b.
Begins(u, s, n, b) == (\A i \in 1..n : u[i] = s[i]) /\ u[n + 1] = b

\* u is s for m items, and then t for n items.
Joins(u, s, m, t, n) == /\ \A i \in 1..(m + 1) : u[i] = s[i]
                        /\ \A i \in 1..(n + 1) : u[m + i] = t[i]

\* Of what comes after, only the beginning of a callee matters.
LEMMA FitBefore ==
  ASSUME NEW x, NEW y, NEW z, NEW s, NEW t, Fit(x, y, s, t), y.kind # "start", z.kind # "start"
  PROVE  Fit(x, z, s, t)
  BY DEF Fit

\* Two stretches of a path, one behind the other.
LEMMA Join ==
  ASSUME NEW p \in Seq(Items), NEW q \in Seq(Items), NEW y, NEW s, NEW t,
         q # <<>>, Strung(p, q[1], s), Strung(q, y, t), s[Len(p) + 1] = t[1]
  PROVE  /\ p \o q \in Seq(Items)
         /\ \E u : Strung(p \o q, y, u) /\ Joins(u, s, Len(p), t, Len(q))
<1> DEFINE m == Len(p)
           n == Len(q)
           pq == p \o q
           u == [i \in 1..(m + n + 1) |-> IF i <= m THEN s[i] ELSE t[i - m]]
<1>1. m \in Nat /\ n \in Nat /\ n # 0
  BY EmptySeq
<1>2. /\ pq \in Seq(Items) /\ Len(pq) = m + n
      /\ \A i \in 1..m : pq[i] = p[i]
      /\ \A i \in 1..n : pq[m + i] = q[i]
  BY OneMore
<1>3. /\ s \in [1..(m + 1) -> Stacks] /\ t \in [1..(n + 1) -> Stacks] /\ s[m + 1] = t[1]
      /\ \A i \in 1..m : Fit(p[i], After(p, q[1], i), s[i], s[i + 1])
      /\ \A i \in 1..n : Fit(q[i], After(q, y, i), t[i], t[i + 1])
  BY DEF Strung
<1>4. /\ \A i \in 1..m : After(pq, y, i) = After(p, q[1], i)
      /\ \A i \in 1..n : After(pq, y, m + i) = After(q, y, i)
  <2> HIDE DEF pq, m, n
  <2>1. ASSUME NEW i \in 1..m PROVE After(pq, y, i) = After(p, q[1], i)
    <3>1. i < m + n /\ After(pq, y, i) = pq[i + 1]
      BY <1>1, <1>2 DEF After
    <3>2. CASE i < m
      <4>1. i + 1 \in 1..m
        BY <1>1, <3>2
      <4> QED BY <1>2, <3>1, <3>2, <4>1 DEF After, m
    <3>3. CASE i = m
      <4>1. pq[m + 1] = q[1]
        BY <1>1, <1>2
      <4> QED BY <1>1, <3>1, <3>3, <4>1 DEF After, m
    <3> QED BY <1>1, <3>2, <3>3
  <2>2. ASSUME NEW i \in 1..n PROVE After(pq, y, m + i) = After(q, y, i)
    <3>1. m + i < m + n <=> i < n
      BY <1>1
    <3>2. i < n => i + 1 \in 1..n /\ pq[(m + i) + 1] = q[i + 1]
      <4> SUFFICES ASSUME i < n PROVE i + 1 \in 1..n /\ pq[(m + i) + 1] = q[i + 1]
        OBVIOUS
      <4>1. i + 1 \in 1..n /\ (m + i) + 1 = m + (i + 1)
        BY <1>1
      <4> QED BY <1>2, <4>1
    <3> QED BY <1>2, <3>1, <3>2 DEF After, n
  <2> QED BY <2>1, <2>2
<1> HIDE DEF pq
<1>5. /\ \A i \in 1..(m + 1) : u[i] = s[i]
      /\ \A i \in 1..(n + 1) : u[m + i] = t[i]
      /\ u \in [1..(m + n + 1) -> Stacks]
  <2> HIDE DEF m, n
  <2>1. ASSUME NEW i \in 1..(m + 1) PROVE u[i] = s[i]
    <3>1. i \in 1..(m + n + 1) /\ (i <= m \/ (i = m + 1 /\ i - m = 1))
      BY <1>1
    <3> QED BY <1>3, <3>1
  <2>2. ASSUME NEW i \in 1..(n + 1) PROVE u[m + i] = t[i]
    <3>1. m + i \in 1..(m + n + 1) /\ ~(m + i <= m) /\ (m + i) - m = i
      BY <1>1
    <3> QED BY <3>1
  <2>3. ASSUME NEW i \in 1..(m + n + 1) PROVE (IF i <= m THEN s[i] ELSE t[i - m]) \in Stacks
    <3>1. (i <= m /\ i \in 1..(m + 1)) \/ (~(i <= m) /\ i - m \in 1..(n + 1))
      BY <1>1
    <3> QED BY <1>3, <3>1
  <2> QED BY <2>1, <2>2, <2>3
<1>6. Strung(pq, y, u)
  <2> HIDE DEF m, n, u
  <2>1. ASSUME NEW i \in 1..(m + n) PROVE Fit(pq[i], After(pq, y, i), u[i], u[i + 1])
    <3>1. CASE i <= m
      <4>1. i \in 1..m /\ i \in 1..(m + 1) /\ i + 1 \in 1..(m + 1)
        BY <1>1, <3>1
      <4> QED BY <1>2, <1>3, <1>4, <1>5, <4>1
    <3>2. CASE ~(i <= m)
      <4> DEFINE k == i - m
      <4>1. k \in 1..n /\ k \in 1..(n + 1) /\ k + 1 \in 1..(n + 1) /\ i = m + k /\ i + 1 = m + (k + 1)
        BY <1>1, <3>2
      <4> HIDE DEF k
      <4> QED BY <1>2, <1>3, <1>4, <1>5, <4>1
    <3> QED BY <3>1, <3>2
  <2> QED BY <1>2, <1>5, <2>1 DEF Strung
<1>7. Joins(u, s, m, t, n)
  <2> HIDE DEF u, m, n
  <2> QED BY <1>5 DEF Joins
<1> HIDE DEF u
<1> QED BY <1>2, <1>6, <1>7 DEF pq

\* The first n items of a path, the last of them with something else behind it.
LEMMA Beginning ==
  ASSUME NEW p \in Seq(Items), NEW y, NEW s, Strung(p, y, s), NEW n \in 1..Len(p),
         NEW z, NEW b \in Stacks, Fit(p[n], z, s[n], b)
  PROVE  /\ SubSeq(p, 1, n) \in Seq(Items) /\ Len(SubSeq(p, 1, n)) = n
         /\ \A i \in 1..n : SubSeq(p, 1, n)[i] = p[i]
         /\ \E u : Strung(SubSeq(p, 1, n), z, u) /\ Begins(u, s, n, b)
<1> DEFINE l == Len(p)
           q == SubSeq(p, 1, n)
           u == [i \in 1..(n + 1) |-> IF i = n + 1 THEN b ELSE s[i]]
<1>1. l \in Nat /\ n \in Nat /\ n \in 1..l /\ \A i \in 1..l : p[i] \in Items
  OBVIOUS
<1>2. s \in [1..(l + 1) -> Stacks] /\ \A i \in 1..l : Fit(p[i], After(p, y, i), s[i], s[i + 1])
  BY DEF Strung
<1> HIDE DEF l
<1>3. q \in Seq(Items) /\ Len(q) = n /\ \A i \in 1..n : q[i] = p[i]
  <2>1. \A i \in 1..n : p[i] \in Items /\ 1 + i - 1 = i
    BY <1>1
  <2>2. n - 1 + 1 = n /\ 1 <= n
    BY <1>1
  <2>3. /\ SubSeq(p, 1, n) \in Seq(Items) /\ Len(SubSeq(p, 1, n)) = IF 1 <= n THEN n - 1 + 1 ELSE 0
        /\ \A i \in 1..(n - 1 + 1) : SubSeq(p, 1, n)[i] = p[1 + i - 1]
    BY <1>1, <2>1, SubSeqProperties
  <2> QED BY <2>1, <2>2, <2>3
<1> HIDE DEF q
<1>4. /\ u \in [1..(n + 1) -> Stacks] /\ u[n + 1] = b
      /\ \A i \in 1..n : u[i] = s[i]
  <2>1. \A i \in 1..(n + 1) : i # n + 1 => i \in 1..(l + 1)
    BY <1>1
  <2>2. \A i \in 1..n : i \in 1..(n + 1) /\ i # n + 1
    BY <1>1
  <2>3. n + 1 \in 1..(n + 1)
    BY <1>1
  <2> QED BY <1>2, <2>1, <2>2, <2>3
<1> HIDE DEF u
<1>5. ASSUME NEW i \in 1..n PROVE Fit(q[i], After(q, z, i), u[i], u[i + 1])
  <2>1. CASE i = n
    BY <1>1, <1>3, <1>4, <2>1 DEF After
  <2>2. CASE i # n
    <3>1. i < n /\ i + 1 \in 1..n /\ i \in 1..l /\ i < l
      BY <1>1, <2>2
    <3>2. After(q, z, i) = p[i + 1] /\ After(p, y, i) = p[i + 1]
      BY <1>3, <3>1 DEF After, l
    <3> QED BY <1>2, <1>3, <1>4, <3>1, <3>2
  <2> QED BY <2>1, <2>2
<1>6. Strung(q, z, u)
  BY <1>3, <1>4, <1>5 DEF Strung
<1>7. Begins(u, s, n, b)
  BY <1>4 DEF Begins
<1> QED BY <1>3, <1>6, <1>7 DEF q

\* The items behind the n-th.
LEMMA Ending ==
  ASSUME NEW p \in Seq(Items), NEW y, NEW s, Strung(p, y, s), NEW n \in 1..(Len(p) - 1)
  PROVE  /\ SubSeq(p, n + 1, Len(p)) \in Seq(Items) /\ Len(SubSeq(p, n + 1, Len(p))) = Len(p) - n
         /\ \A i \in 1..(Len(p) - n) : SubSeq(p, n + 1, Len(p))[i] = p[n + i]
         /\ \E u : /\ Strung(SubSeq(p, n + 1, Len(p)), y, u)
                   /\ u[1] = s[n + 1] /\ u[(Len(p) - n) + 1] = s[Len(p) + 1]
<1> DEFINE l == Len(p)
           m == l - n
           q == SubSeq(p, n + 1, l)
           u == [i \in 1..(m + 1) |-> s[n + i]]
<1>1. l \in Nat /\ n \in Nat /\ n < l /\ n > 0 /\ \A i \in 1..l : p[i] \in Items
  OBVIOUS
<1>2. s \in [1..(l + 1) -> Stacks] /\ \A i \in 1..l : Fit(p[i], After(p, y, i), s[i], s[i + 1])
  BY DEF Strung
<1> HIDE DEF l
<1>m. m \in Nat /\ m > 0 /\ n + m = l /\ \A i \in 1..m : n + i \in 1..l
  BY <1>1
<1>3. q \in Seq(Items) /\ Len(q) = m /\ \A i \in 1..m : q[i] = p[n + i]
  <2>1. \A i \in (n + 1)..l : p[i] \in Items
    BY <1>1
  <2>2. n + 1 \in Int /\ l \in Int /\ l - (n + 1) + 1 = m /\ n + 1 <= l
    BY <1>1
  <2>3. /\ SubSeq(p, n + 1, l) \in Seq(Items) /\ Len(SubSeq(p, n + 1, l)) = IF n + 1 <= l THEN l - (n + 1) + 1 ELSE 0
        /\ \A i \in 1..(l - (n + 1) + 1) : SubSeq(p, n + 1, l)[i] = p[(n + 1) + i - 1]
    BY <2>1, <2>2, SubSeqProperties
  <2>4. \A i \in 1..m : (n + 1) + i - 1 = n + i
    BY <1>1
  <2> HIDE DEF m
  <2> QED BY <2>2, <2>3, <2>4
<1> HIDE DEF q, m
<1>4. /\ u \in [1..(m + 1) -> Stacks]
      /\ \A i \in 1..(m + 1) : u[i] = s[n + i]
  <2>1. \A i \in 1..(m + 1) : n + i \in 1..(l + 1)
    BY <1>1, <1>m
  <2> QED BY <1>2, <2>1
<1> HIDE DEF u
<1>5. ASSUME NEW i \in 1..m PROVE Fit(q[i], After(q, y, i), u[i], u[i + 1])
  <2>1. i \in 1..(m + 1) /\ i + 1 \in 1..(m + 1) /\ n + (i + 1) = (n + i) + 1 /\ n + i \in 1..l
    BY <1>1, <1>m
  <2>2. After(q, y, i) = After(p, y, n + i)
    <3>1. i < m <=> n + i < l
      BY <1>1, <1>m
    <3>2. i < m => i + 1 \in 1..m
      BY <1>m
    <3>3. i < m => q[i + 1] = p[(n + i) + 1]
      BY <1>3, <2>1, <3>2
    <3> QED BY <1>3, <3>1, <3>3 DEF After, l
  <2> QED BY <1>2, <1>3, <1>4, <2>1, <2>2
<1>6. Strung(q, y, u)
  BY <1>3, <1>4, <1>5 DEF Strung
<1>7. u[1] = s[n + 1] /\ u[m + 1] = s[l + 1]
  <2>1. 1 \in 1..(m + 1) /\ m + 1 \in 1..(m + 1) /\ n + (m + 1) = l + 1
    BY <1>1, <1>m
  <2> QED BY <1>4, <2>1
<1> QED BY <1>3, <1>6, <1>7 DEF q, m, l

\* What the items of a path of f are.
Shape(c, f, i, arg, call) ==
  LET n == Len(code[f].paths[i])
  IN  /\ c \in Seq(Items) /\ Len(c) = n + 2
      /\ c[1] = StartNode(f, arg) /\ c[n + 2] = EndNode(f, call)
      /\ \A k \in 1..n : c[k + 1] = CodeNode(Irs(f, code[f].paths[i][k]))

\* get_all_paths gives paths of that shape.
LEMMA PathShape ==
  ASSUME code \in Programs, NEW f \in Functions, NEW i \in DOMAIN code[f].paths,
         NEW arg, NEW call \in IrIds \cup {NoIr}, StartNode(f, arg) \in Starts
  PROVE  Shape(PathsOf(f, arg, call)[i], f, i, arg, call)
<1> DEFINE p == code[f].paths[i]
           n == Len(p)
           a == <<StartNode(f, arg)>>
           b == [j \in DOMAIN p |-> CodeNode(Irs(f, p[j]))]
           e == <<EndNode(f, call)>>
<1>1. p \in Seq(Nat) /\ Range(p) \subseteq DOMAIN code[f].nodes
  BY Program
<1>2. DOMAIN p = 1..n /\ n \in Nat
  BY <1>1
<1>3. ASSUME NEW j \in DOMAIN p PROVE CodeNode(Irs(f, p[j])) \in Items
  <2>1. p[j] \in DOMAIN code[f].nodes
    BY <1>1 DEF Range
  <2>2. Irs(f, p[j]) \in Seq(FnIrs(f))
    BY <2>1, NodeIrs
  <2>3. Irs(f, p[j]) \in Seq(IrIds)
    <3>1. FnIrs(f) \subseteq IrIds
      BY DEF FnIrs
    <3> QED BY <2>2, <3>1, SeqMonotonic
  <2> QED BY <2>3 DEF CodeNode, Items
<1>4. StartNode(f, arg) \in Items /\ EndNode(f, call) \in Items
  BY DEF EndNode, Items
<1>5. /\ a \in Seq(Items) /\ Len(a) = 1 /\ a[1] = StartNode(f, arg)
      /\ e \in Seq(Items) /\ Len(e) = 1 /\ e[1] = EndNode(f, call)
  BY <1>4
<1>6. b \in Seq(Items) /\ Len(b) = n /\ \A j \in 1..n : b[j] = CodeNode(Irs(f, p[j]))
  <2>1. b \in [1..n -> Items] /\ \A j \in 1..n : b[j] = CodeNode(Irs(f, p[j]))
    <3> HIDE DEF n
    <3> QED BY <1>2, <1>3
  <2> HIDE DEF b, n
  <2> QED BY <1>2, <2>1
<1>7. PathsOf(f, arg, call)[i] = (a \o b) \o e
  BY DEF PathsOf
<1> HIDE DEF a, b, e
<1>8. /\ a \o b \in Seq(Items) /\ Len(a \o b) = 1 + n
      /\ (a \o b)[1] = StartNode(f, arg) /\ \A k \in 1..n : (a \o b)[1 + k] = b[k]
  <2>1. 1 \in 1..1
    OBVIOUS
  <2>2. /\ a \o b \in Seq(Items) /\ Len(a \o b) = Len(a) + Len(b)
        /\ \A k \in 1..Len(a) : (a \o b)[k] = a[k]
        /\ \A k \in 1..Len(b) : (a \o b)[Len(a) + k] = b[k]
    <3>1. a \in Seq(Items) /\ b \in Seq(Items)
      BY <1>5, <1>6
    <3> QED BY <3>1, OneMore
  <2> HIDE DEF p, n
  <2>3. Len(a \o b) = 1 + n /\ (a \o b)[1] = a[1]
    BY <1>5, <1>6, <2>1, <2>2
  <2>4. \A k \in 1..n : (a \o b)[1 + k] = b[k]
    BY <1>5, <1>6, <2>2
  <2> QED BY <1>5, <2>2, <2>3, <2>4
<1> DEFINE ab == a \o b
<1> HIDE DEF ab
<1>9. /\ ab \o e \in Seq(Items) /\ Len(ab \o e) = (1 + n) + 1
      /\ \A k \in 1..(1 + n) : (ab \o e)[k] = ab[k]
      /\ (ab \o e)[(1 + n) + 1] = EndNode(f, call)
  <2>1. ab \in Seq(Items) /\ Len(ab) = 1 + n /\ 1 \in 1..Len(e)
    BY <1>5, <1>8 DEF ab
  <2>2. /\ ab \o e \in Seq(Items) /\ Len(ab \o e) = Len(ab) + Len(e)
        /\ \A k \in 1..Len(ab) : (ab \o e)[k] = ab[k]
        /\ \A k \in 1..Len(e) : (ab \o e)[Len(ab) + k] = e[k]
    <3>1. ab \in Seq(Items) /\ e \in Seq(Items)
      BY <1>5, <2>1
    <3> QED BY <3>1, OneMore
  <2> HIDE DEF p, n
  <2> QED BY <1>5, <2>1, <2>2
<1>10. \A k \in 1..n : (ab \o e)[k + 1] = CodeNode(Irs(f, p[k]))
  <2> TAKE k \in 1..n
  <2>1. 1 + k \in 1..(1 + n) /\ 1 + k = k + 1
    BY <1>2
  <2>2. (ab \o e)[1 + k] = b[k]
    BY <1>8, <1>9, <2>1 DEF ab
  <2> QED BY <1>6, <2>1, <2>2
<1>11. (1 + n) + 1 = n + 2 /\ 1 \in 1..(1 + n)
  BY <1>2
<1>12. (ab \o e)[1] = StartNode(f, arg)
  BY <1>8, <1>9, <1>11 DEF ab
<1> QED BY <1>7, <1>9, <1>10, <1>11, <1>12 DEF Shape, ab

\* A path of f leads, from any stack, to an activation of f on top of it, over
\* all the IRs of the path, and back to the stack.
LEMMA Called ==
  ASSUME code \in Programs, NEW f \in Functions, NEW i \in DOMAIN code[f].paths,
         NEW arg, NEW call, NEW c, Shape(c, f, i, arg, call),
         NEW s \in Stacks, NEW y, y.kind # "start"
  PROVE  \E st : Strung(c, y, st) /\ st[1] = s /\ st[Len(c) + 1] = s
<1> DEFINE p == code[f].paths[i]
           n == Len(p)
           irs == IrsAlong(f, i)
<1>1. p \in Seq(Nat) /\ n \in Nat /\ n = Len(Nodes(f, i)) /\ irs \in Seq(FnIrs(f))
      /\ irs = FlattenSeq(Nodes(f, i)) /\ Nodes(f, i) \in Seq(Seq(FnIrs(f)))
      /\ Range(p) \subseteq DOMAIN code[f].nodes /\ i \in Nat \ {0}
  <2>1. p \in Seq(Nat) /\ Range(p) \subseteq DOMAIN code[f].nodes /\ code[f].paths \in Seq(Seq(Nat))
    BY Program
  <2>2. n \in Nat /\ i \in Nat \ {0}
    BY <2>1
  <2> QED BY <2>1, <2>2, PathIrs
<1>2. PICK off : Offsets(Nodes(f, i), irs, off)
  BY <1>1, Flattened
<1>3. /\ off \in [0..n -> Nat] /\ off[0] = 0 /\ off[n] = Len(irs)
      /\ \A j \in 1..n : LET x == Irs(f, p[j])
                        IN  off[j] = off[j - 1] + Len(x) /\ off[j] <= Len(irs)
                            /\ Len(x) \in Nat /\ \A k \in 1..Len(x) : irs[off[j - 1] + k] = x[k]
  <2>1. \A j \in 1..n : Nodes(f, i)[j] = Irs(f, p[j]) /\ Nodes(f, i)[j] \in Seq(FnIrs(f))
    <3>1. \A j \in 1..n : Nodes(f, i)[j] \in Seq(FnIrs(f))
      BY <1>1
    <3>2. DOMAIN p = 1..n
      BY <1>1
    <3> QED BY <3>1, <3>2 DEF Nodes
  <2>2. \A j \in 1..n : Len(Irs(f, p[j])) \in Nat
    BY <2>1
  <2> HIDE DEF n, p, irs
  <2>3. /\ off \in [0..n -> Nat] /\ off[0] = 0 /\ off[n] = Len(irs)
        /\ \A j \in 1..n : off[j] = off[j - 1] + Len(Nodes(f, i)[j]) /\ off[j] <= Len(irs)
                          /\ \A k \in 1..Len(Nodes(f, i)[j]) : irs[off[j - 1] + k] = Nodes(f, i)[j][k]
    BY <1>1, <1>2 DEF Offsets
  <2> QED BY <2>1, <2>2, <2>3
<1> DEFINE a(k) == [fn |-> f, path |-> i, done |-> off[k]]
           st == [k \in 1..(n + 3) |-> IF k = 1 \/ k = n + 3 THEN s ELSE Append(s, a(k - 2))]
<1>4. \A k \in 0..n : a(k) \in Acts
  BY <1>1, <1>3 DEF Acts
<1>5. /\ st[1] = s /\ st[n + 3] = s
      /\ \A k \in 0..n : st[k + 2] = Append(s, a(k))
      /\ st \in [1..(n + 3) -> Stacks]
  <2> HIDE DEF n, a
  <2>1. \A k \in 0..n : k + 2 \in 1..(n + 3) /\ k + 2 # 1 /\ k + 2 # n + 3 /\ (k + 2) - 2 = k
    BY <1>1
  <2>2. 1 \in 1..(n + 3) /\ n + 3 \in 1..(n + 3)
    BY <1>1
  <2>3. ASSUME NEW k \in 1..(n + 3), k # 1, k # n + 3 PROVE Append(s, a(k - 2)) \in Stacks
    <3>1. k - 2 \in 0..n
      BY <1>1, <2>3
    <3> QED BY <1>4, <3>1, Pushed
  <2> QED BY <2>1, <2>2, <2>3
<1>6. /\ c \in Seq(Items) /\ Len(c) = n + 2
      /\ c[1] = StartNode(f, arg) /\ c[n + 2] = EndNode(f, call)
      /\ \A k \in 1..n : c[k + 1] = CodeNode(Irs(f, p[k]))
  BY DEF Shape
<1>c. \A k \in 1..n : c[k + 1].kind = "code" /\ c[k + 1].irs = Irs(f, p[k])
  <2>1. ASSUME NEW x PROVE CodeNode(x).kind = "code" /\ CodeNode(x).irs = x
    BY DEF CodeNode
  <2> HIDE DEF n, p
  <2> QED BY <1>6, <2>1
<1> HIDE DEF st, n
<1>7. ASSUME NEW k \in 1..(n + 2) PROVE After(c, y, k).kind # "start"
  <2>1. CASE k = n + 2
    BY <1>1, <1>6, <2>1 DEF After
  <2>2. CASE k = n + 1
    <3>1. k < n + 2 /\ k + 1 = n + 2
      BY <1>1, <2>2
    <3> QED BY <1>6, <3>1 DEF After, EndNode
  <2>3. CASE k # n + 1 /\ k # n + 2
    <3>1. k < n + 2 /\ k \in 1..n
      BY <1>1, <2>3
    <3> QED BY <1>6, <1>c, <3>1 DEF After
  <2> QED BY <2>1, <2>2, <2>3
<1>8. Fit(c[1], After(c, y, 1), st[1], st[1 + 1])
  <2>1. 1 \in 1..(n + 2) /\ 0 \in 0..n /\ 0 + 2 = 1 + 1
    BY <1>1
  <2>2. st[1 + 1] = Append(s, a(0)) /\ a(0) = Begun(f, i)
    BY <1>3, <1>5, <2>1 DEF Begun
  <2> QED BY <1>5, <1>6, <1>7, <2>1, <2>2 DEF Fit, StartNode
<1>9. ASSUME NEW j \in 1..n PROVE Fit(c[j + 1], After(c, y, j + 1), st[j + 1], st[(j + 1) + 1])
  <2> DEFINE x == Irs(f, p[j])
  <2>1. j - 1 \in 0..n /\ j \in 0..n /\ (j - 1) + 2 = j + 1 /\ j + 2 = (j + 1) + 1 /\ j + 1 \in 1..(n + 2)
    BY <1>1
  <2>2. st[j + 1] = Append(s, a(j - 1)) /\ st[(j + 1) + 1] = Append(s, a(j))
    BY <1>5, <2>1
  <2>3. off[j] = off[j - 1] + Len(x) /\ off[j] <= Len(irs) /\ Len(x) \in Nat
        /\ \A k \in 1..Len(x) : irs[off[j - 1] + k] = x[k]
    BY <1>3
  <2>4. [a(j - 1) EXCEPT !.done = @ + Len(x)] = a(j)
    BY <2>3
  <2>5. Last(st[j + 1]) = a(j - 1) /\ st[j + 1] # <<>> /\ a(j - 1) \in Acts
    BY <1>4, <2>1, <2>2, Pushed
  <2>6. Ahead(st[j + 1], Len(x)) = st[(j + 1) + 1]
    <3> DEFINE b == a(j - 1)
    <3>1. b \in Acts
      BY <2>5
    <3> HIDE DEF b
    <3>2. Ahead(Append(s, b), Len(x)) = Append(s, [b EXCEPT !.done = @ + Len(x)])
      BY <2>3, <3>1, TopGoesOn
    <3> QED BY <2>2, <2>4, <3>2 DEF b
  <2>7. Line(a(j - 1)) = irs
    BY DEF Line
  <2>8. Does(x, Len(x), st[j + 1], st[(j + 1) + 1])
    <3>1. a(j - 1).done = off[j - 1]
      OBVIOUS
    <3> HIDE DEF x, a, irs
    <3> QED BY <2>3, <2>5, <2>6, <2>7, <3>1 DEF Does
  <2>9. c[j + 1].kind = "code" /\ c[j + 1].irs = x
    BY <1>c
  <2> HIDE DEF x
  <2> QED BY <1>7, <2>1, <2>8, <2>9 DEF Fit
<1>10. Fit(c[n + 2], After(c, y, n + 2), st[n + 2], st[(n + 2) + 1])
  <2>1. n \in 0..n /\ n + 2 \in 1..(n + 2) /\ (n + 2) + 1 = n + 3
    BY <1>1
  <2>2. st[n + 2] = Append(s, a(n)) /\ st[(n + 2) + 1] = s /\ a(n) \in Acts
    BY <1>4, <1>5, <2>1
  <2>3. Last(st[n + 2]) = a(n) /\ st[n + 2] # <<>> /\ Front(st[n + 2]) = s
    BY <2>2, Pushed
  <2>4. Line(a(n)) = irs /\ a(n).done = off[n] /\ a(n).fn = f
    BY DEF Line
  <2>5. c[n + 2].kind = "end" /\ c[n + 2].fn = f
    BY <1>6 DEF EndNode
  <2> HIDE DEF a, irs
  <2> QED BY <1>3, <1>7, <2>1, <2>2, <2>3, <2>4, <2>5 DEF Fit
<1>11. Strung(c, y, st)
  <2>1. \A k \in 1..(n + 2) : k = 1 \/ k = n + 2 \/ \E j \in 1..n : k = j + 1
    <3> TAKE k \in 1..(n + 2)
    <3>1. k # 1 /\ k # n + 2 => k - 1 \in 1..n /\ k = (k - 1) + 1
      BY <1>1
    <3> QED BY <3>1
  <2>2. \A k \in 1..(n + 2) : Fit(c[k], After(c, y, k), st[k], st[k + 1])
    BY <1>8, <1>9, <1>10, <2>1
  <2>3. (n + 2) + 1 = n + 3
    BY <1>1
  <2> QED BY <1>5, <1>6, <2>2, <2>3 DEF Strung
<1>12. Len(c) + 1 = n + 3
  BY <1>1, <1>6
<1> QED BY <1>5, <1>11, <1>12

\* What is left of a node behind its m-th IR goes on from there.
LEMMA RestRuns ==
  ASSUME NEW irs \in Seq(IrIds), NEW m \in 1..Len(irs), m < Len(irs), NEW s \in Stacks, NEW t,
         Does(irs, Len(irs), s, t)
  PROVE  LET r == SubSeq(irs, m + 1, Len(irs))
         IN  r \in Seq(IrIds) /\ Does(r, Len(r), Ahead(s, m), t)
<1> DEFINE l == Len(irs)
           r == SubSeq(irs, m + 1, l)
           n == l - m
<1>1. l \in Nat /\ m \in Nat /\ n \in Nat /\ m + n = l /\ m + 1 <= l /\ \A k \in 1..l : irs[k] \in IrIds
  OBVIOUS
<1>2. r \in Seq(IrIds) /\ Len(r) = n /\ \A k \in 1..n : r[k] = irs[m + k]
  <2> HIDE DEF l
  <2>1. \A i \in (m + 1)..l : irs[i] \in IrIds
    BY <1>1
  <2>2. m + 1 \in Int /\ l \in Int /\ l - (m + 1) + 1 = n
    BY <1>1
  <2>3. /\ SubSeq(irs, m + 1, l) \in Seq(IrIds) /\ Len(SubSeq(irs, m + 1, l)) = IF m + 1 <= l THEN l - (m + 1) + 1 ELSE 0
        /\ \A i \in 1..(l - (m + 1) + 1) : SubSeq(irs, m + 1, l)[i] = irs[(m + 1) + i - 1]
    BY <2>1, <2>2, SubSeqProperties
  <2>4. \A i \in 1..n : (m + 1) + i - 1 = m + i
    BY <1>1
  <2> HIDE DEF n
  <2> QED BY <1>1, <2>2, <2>3, <2>4
<1>3. /\ s # <<>> /\ t = Ahead(s, l) /\ Last(s).done + l <= Len(Line(Last(s)))
      /\ \A k \in 1..l : irs[k] = Line(Last(s))[Last(s).done + k]
  BY DEF Does
<1> HIDE DEF l, r, n
<1>4. /\ Ahead(s, m) # <<>> /\ Last(Ahead(s, m)).done = Last(s).done + m
      /\ Line(Last(Ahead(s, m))) = Line(Last(s)) /\ Last(s) \in Acts
  BY <1>1, <1>3, GoingOn
<1>5. t = Ahead(Ahead(s, m), n)
  BY <1>1, <1>3, Further
<1>6. Last(s).done \in Nat
  BY <1>4 DEF Acts
<1>7. Last(Ahead(s, m)).done + n <= Len(Line(Last(Ahead(s, m))))
  <2> DEFINE d == Last(s).done
  <2>0. d \in Nat
    BY <1>6
  <2>1. (d + m) + n = d + l
    <3> HIDE DEF d
    <3> QED BY <1>1, <2>0
  <2> QED BY <1>3, <1>4, <2>1
<1>8. ASSUME NEW k \in 1..n PROVE r[k] = Line(Last(Ahead(s, m)))[Last(Ahead(s, m)).done + k]
  <2>1. m + k \in 1..l /\ (Last(s).done + m) + k = Last(s).done + (m + k)
    BY <1>1, <1>6
  <2> QED BY <1>2, <1>3, <1>4, <2>1
<1>9. Does(r, Len(r), Ahead(s, m), t)
  BY <1>2, <1>4, <1>5, <1>7, <1>8 DEF Does
<1> QED BY <1>2, <1>9 DEF r, l

\* The place of p's n-th item where the m-th IR is a call: what replaces the path.
Spliced4(p, n, m, c) == SubSeq(p, 1, n) \o c \o Rest(p[n].irs, m) \o SubSeq(p, n + 1, Len(p))

\* The m-th IR of the n-th item is a call, and its callee is not in the path yet.
CallAt(p, n, m) == /\ n \in 1..(Len(p) - 1)
                   /\ p[n].kind = "code" /\ p[n + 1].kind # "start" /\ FirstCall(p[n].irs, m)

\* c is the i-th path of the callee of ir.
CalleePath(c, ir, i, arg) == i \in DOMAIN code[Op(ir).f].paths /\ Shape(c, Op(ir).f, i, arg, ir)

\* q is the same as p up to the n-th item, and f begins there.
Branches(q, p, n, f, arg) == /\ q \in Seq(Items) /\ n + 1 \in 1..Len(q)
                             /\ \A k \in 1..n : q[k] = p[k]
                             /\ q[n + 1] = StartNode(f, arg)

\* A path with a callee's path put in is as good as before; nothing has changed
\* up to the call, and the callee is entered there.
LEMMA Splice ==
  ASSUME code \in Programs, NEW p \in Seq(Items), NEW y, NEW s, Strung(p, y, s), NEW n, NEW m, CallAt(p, n, m),
         NEW i, NEW arg, NEW c, CalleePath(c, p[n].irs[m], i, arg)
  PROVE  LET q == Spliced4(p, n, m, c)
         IN  /\ Branches(q, p, n, Op(p[n].irs[m]).f, arg)
             /\ \E u : /\ Strung(q, y, u) /\ Begins(u, s, n, Ahead(s[n], m))
                       /\ u[Len(q) + 1] = s[Len(p) + 1]
<1>0. /\ n \in 1..(Len(p) - 1) /\ p[n].kind = "code" /\ p[n + 1].kind # "start" /\ FirstCall(p[n].irs, m)
      /\ i \in DOMAIN code[Op(p[n].irs[m]).f].paths /\ Shape(c, Op(p[n].irs[m]).f, i, arg, p[n].irs[m])
  BY DEF CallAt, CalleePath
<1> USE <1>0
<1> DEFINE irs == p[n].irs
           f == Op(irs[m]).f
           l == Len(p)
           A == SubSeq(p, 1, n)
           R == Rest(irs, m)
           E == SubSeq(p, n + 1, l)
           B == Ahead(s[n], m)
           z == IF m < Len(irs) THEN R[1] ELSE E[1]
           q == Spliced4(p, n, m, c)
<1>1. l \in Nat /\ n \in 1..l /\ n < l /\ p[n] \in Items /\ l - n \in Nat /\ l - n > 0 /\ n \in Nat
  OBVIOUS
<1>2. irs \in Seq(IrIds)
  BY <1>1 DEF Items, Starts
<1>3. m \in 1..Len(irs) /\ m \in Nat /\ Len(irs) \in Nat /\ irs[m] \in IrIds /\ Op(irs[m]).op = "call"
  BY <1>2 DEF FirstCall
<1>4. f \in Functions /\ i \in DOMAIN code[f].paths
  BY <1>3, CallIr
<1>5. /\ s \in [1..(l + 1) -> Stacks]
      /\ Fit(p[n], p[n + 1], s[n], s[n + 1])
  BY <1>1 DEF Strung, After
<1>6. Does(irs, Len(irs), s[n], s[n + 1]) /\ s[n] \in Stacks /\ s[n + 1] \in Stacks
  <2>1. n \in 1..(l + 1) /\ n + 1 \in 1..(l + 1)
    BY <1>1
  <2> HIDE DEF l
  <2> QED BY <1>5, <2>1 DEF Fit
<1>7. B \in Stacks /\ Does(irs, m, s[n], B)
  <2>1. s[n] # <<>> /\ Last(s[n]).done + Len(irs) <= Len(Line(Last(s[n])))
        /\ \A k \in 1..Len(irs) : irs[k] = Line(Last(s[n]))[Last(s[n]).done + k]
    BY <1>6 DEF Does
  <2>2. B \in Stacks /\ Last(s[n]) \in Acts
    BY <1>3, <1>6, <2>1, GoingOn
  <2>3. Line(Last(s[n])) \in Seq(FnIrs(Last(s[n]).fn)) /\ Last(s[n]).done \in Nat
    BY <2>2, PathIrs DEF Line, Acts
  <2>4. Len(Line(Last(s[n]))) \in Nat
    BY <2>3
  <2> HIDE DEF irs, B
  <2>5. Last(s[n]).done + m <= Len(Line(Last(s[n])))
    BY <1>3, <2>1, <2>3, <2>4
  <2>6. \A k \in 1..m : k \in 1..Len(irs)
    BY <1>3
  <2> QED BY <2>1, <2>2, <2>5, <2>6 DEF Does, B
<1> HIDE DEF B
<1>8. c \in Seq(Items) /\ c[1] = StartNode(f, arg) /\ Len(c) \in Nat /\ Len(c) > 0 /\ c # <<>>
  <2>1. c \in Seq(Items) /\ Len(c) = Len(code[f].paths[i]) + 2 /\ c[1] = StartNode(f, arg)
    BY DEF Shape
  <2>2. code[f].paths[i] \in Seq(Nat)
    BY <1>4, Program
  <2> HIDE DEF f
  <2>3. Len(c) > 0
    BY <2>1, <2>2
  <2> QED BY <2>1, <2>3
<1>9. Fit(p[n], c[1], s[n], B)
  <2>1. c[1].kind = "start" /\ c[1].fn = f
    BY <1>8 DEF StartNode
  <2> QED BY <1>7, <2>1 DEF Fit
<1>10. /\ A \in Seq(Items) /\ Len(A) = n /\ \A k \in 1..n : A[k] = p[k]
       /\ \E u : Strung(A, c[1], u) /\ (\A k \in 1..n : u[k] = s[k]) /\ u[n + 1] = B
  <2> HIDE DEF A, l
  <2>1. n \in 1..Len(p) /\ B \in Stacks
    BY <1>1, <1>7 DEF l
  <2> HIDE DEF irs, A
  <2>2. /\ SubSeq(p, 1, n) \in Seq(Items) /\ Len(SubSeq(p, 1, n)) = n
        /\ \A k \in 1..n : SubSeq(p, 1, n)[k] = p[k]
        /\ \E u : Strung(SubSeq(p, 1, n), c[1], u) /\ Begins(u, s, n, B)
    BY <2>1, <1>9, Beginning
  <2> QED BY <2>2 DEF A, Begins
<1>11. /\ E \in Seq(Items) /\ Len(E) = l - n /\ E[1] = p[n + 1]
       /\ \E u : Strung(E, y, u) /\ u[1] = s[n + 1] /\ u[(l - n) + 1] = s[l + 1]
  <2>1. 1 \in 1..(l - n)
    BY <1>1
  <2> QED BY <2>1, Ending
<1> HIDE DEF A, E, l
<1>12. E # <<>>
  BY <1>1, <1>11
<1>13. m < Len(irs) => /\ R \in Seq(Items) /\ R # <<>> /\ Len(R) = 1 /\ R[1].kind = "code"
                       /\ \E u : Strung(R, E[1], u) /\ u[1] = B /\ u[2] = s[n + 1]
  <2> SUFFICES ASSUME m < Len(irs)
               PROVE  /\ R \in Seq(Items) /\ R # <<>> /\ Len(R) = 1 /\ R[1].kind = "code"
                      /\ \E u : Strung(R, E[1], u) /\ u[1] = B /\ u[2] = s[n + 1]
    OBVIOUS
  <2> DEFINE r == SubSeq(irs, m + 1, Len(irs))
  <2>1. r \in Seq(IrIds) /\ Does(r, Len(r), B, s[n + 1])
    <3> HIDE DEF irs
    <3> QED BY <1>2, <1>3, <1>6, RestRuns DEF B
  <2>2. R = <<CodeNode(r)>>
    BY DEF Rest
  <2> HIDE DEF R, r
  <2>3. CodeNode(r) \in Items /\ CodeNode(r).kind = "code" /\ CodeNode(r).irs = r
    BY <2>1 DEF Items, CodeNode
  <2>4. R \in Seq(Items) /\ R # <<>> /\ Len(R) = 1 /\ R[1] = CodeNode(r)
    BY <2>2, <2>3
  <2> DEFINE u == [k \in 1..2 |-> IF k = 1 THEN B ELSE s[n + 1]]
  <2>5. u \in [1..(1 + 1) -> Stacks] /\ u[1] = B /\ u[2] = s[n + 1]
    BY <1>6, <1>7
  <2> HIDE DEF u
  <2>6. Fit(R[1], E[1], u[1], u[1 + 1])
    BY <1>11, <2>1, <2>3, <2>4, <2>5 DEF Fit
  <2>7. Strung(R, E[1], u)
    BY <2>4, <2>5, <2>6 DEF Strung, After
  <2> QED BY <2>3, <2>4, <2>5, <2>7
<1>14. ~(m < Len(irs)) => R = <<>> /\ s[n + 1] = B
  <2>1. ~(m < Len(irs)) => m = Len(irs)
    BY <1>3
  <2> QED BY <1>6, <1>7, <2>1 DEF Rest, Does
<1>15. z.kind # "start"
  BY <1>11, <1>13, <1>14
<1> HIDE DEF R
<1>16. PICK u1 : Strung(A, c[1], u1) /\ (\A k \in 1..n : u1[k] = s[k]) /\ u1[n + 1] = B
  BY <1>10
<1>17. PICK u2 : Strung(c, z, u2) /\ u2[1] = B /\ u2[Len(c) + 1] = B
  <2> HIDE DEF z, f, irs
  <2>1. Shape(c, f, i, arg, irs[m])
    BY DEF f, irs
  <2> QED BY <1>4, <1>7, <1>15, <2>1, Called
<1>18. /\ A \o c \in Seq(Items) /\ Len(A \o c) = n + Len(c)
       /\ \A k \in 1..n : (A \o c)[k] = p[k]
       /\ (A \o c)[n + 1] = c[1]
  <2>1. 1 \in 1..Len(c)
    BY <1>8
  <2>2. /\ A \o c \in Seq(Items) /\ Len(A \o c) = Len(A) + Len(c)
        /\ \A k \in 1..Len(A) : (A \o c)[k] = A[k]
        /\ \A k \in 1..Len(c) : (A \o c)[Len(A) + k] = c[k]
    <3>1. A \in Seq(Items) /\ c \in Seq(Items)
      BY <1>8, <1>10
    <3> QED BY <3>1, OneMore
  <2> QED BY <1>10, <2>1, <2>2
<1>19. PICK u3 : /\ Strung(A \o c, z, u3)
                 /\ \A k \in 1..(n + 1) : u3[k] = u1[k]
                 /\ \A k \in 1..(Len(c) + 1) : u3[n + k] = u2[k]
  <2> HIDE DEF z
  <2>1. A \in Seq(Items) /\ c \in Seq(Items) /\ c # <<>> /\ u1[Len(A) + 1] = u2[1]
    BY <1>8, <1>10, <1>16, <1>17
  <2>2. Strung(A, c[1], u1) /\ Strung(c, z, u2)
    BY <1>16, <1>17
  <2>3. \E u : Strung(A \o c, z, u) /\ Joins(u, u1, Len(A), u2, Len(c))
    BY <2>1, <2>2, Join
  <2>4. Len(A) = n
    BY <1>10
  <2> QED BY <2>3, <2>4 DEF Joins
<1>20. /\ \A k \in 1..n : u3[k] = s[k]
       /\ u3[n + 1] = B /\ u3[(n + Len(c)) + 1] = B
  <2>1. /\ \A k \in 1..n : k \in 1..(n + 1)
        /\ n + 1 \in 1..(n + 1) /\ Len(c) + 1 \in 1..(Len(c) + 1) /\ (n + Len(c)) + 1 = n + (Len(c) + 1)
    BY <1>1, <1>8
  <2> QED BY <1>16, <1>17, <1>19, <2>1
<1> DEFINE D == (A \o c) \o R
<1>21. /\ D \in Seq(Items) /\ Len(D) \in Nat /\ Len(D) >= n + 1
       /\ \A k \in 1..n : D[k] = p[k]
       /\ D[n + 1] = c[1]
       /\ \E u : /\ Strung(D, E[1], u) /\ \A k \in 1..n : u[k] = s[k]
                 /\ u[n + 1] = B /\ u[Len(D) + 1] = s[n + 1]
  <2> DEFINE ac == A \o c
             a == Len(ac)
  <2>a. ac \in Seq(Items) /\ a \in Nat /\ a = n + Len(c) /\ a >= n + 1
    BY <1>1, <1>8, <1>18
  <2>1. CASE m < Len(irs)
    <3>1. PICK u4 : Strung(R, E[1], u4) /\ u4[1] = B /\ u4[2] = s[n + 1]
      BY <1>13, <2>1
    <3>2. z = R[1] /\ R \in Seq(Items) /\ R # <<>> /\ Len(R) = 1
      BY <1>13, <2>1
    <3> HIDE DEF ac
    <3>3. Strung(ac, R[1], u3) /\ u3[a + 1] = u4[1]
      BY <1>19, <1>20, <2>a, <3>1, <3>2 DEF ac
    <3>4. PICK u5 : /\ Strung(ac \o R, E[1], u5)
                    /\ \A k \in 1..(a + 1) : u5[k] = u3[k]
                    /\ \A k \in 1..(1 + 1) : u5[a + k] = u4[k]
      <4>1. ac \in Seq(Items) /\ R \in Seq(Items) /\ R # <<>> /\ u3[Len(ac) + 1] = u4[1]
        BY <2>a, <3>2, <3>3
      <4>2. Strung(ac, R[1], u3) /\ Strung(R, E[1], u4)
        BY <3>1, <3>3
      <4>3. \E u : Strung(ac \o R, E[1], u) /\ Joins(u, u3, Len(ac), u4, Len(R))
        BY <4>1, <4>2, Join
      <4> QED BY <3>2, <4>3 DEF Joins
    <3>5. ac \o R \in Seq(Items) /\ Len(ac \o R) = a + 1 /\ \A k \in 1..a : (ac \o R)[k] = ac[k]
      <4>1. ac \in Seq(Items) /\ R \in Seq(Items)
        BY <2>a, <3>2
      <4>2. ac \o R \in Seq(Items) /\ Len(ac \o R) = Len(ac) + Len(R) /\ \A k \in 1..Len(ac) : (ac \o R)[k] = ac[k]
        BY <4>1, OneMore
      <4> QED BY <3>2, <4>2
    <3> HIDE DEF a
    <3>6. /\ \A k \in 1..n : k \in 1..a /\ k \in 1..(a + 1)
          /\ n + 1 \in 1..a /\ n + 1 \in 1..(a + 1) /\ 2 \in 1..(1 + 1) /\ a + 2 = (a + 1) + 1
      BY <1>1, <2>a
    <3>7. \A k \in 1..n : (ac \o R)[k] = p[k] /\ u5[k] = s[k]
      BY <1>18, <1>20, <3>4, <3>5, <3>6 DEF ac
    <3>8. (ac \o R)[n + 1] = c[1] /\ u5[n + 1] = B /\ u5[(a + 1) + 1] = s[n + 1]
      BY <1>18, <1>20, <3>1, <3>4, <3>5, <3>6 DEF ac
    <3>9. a + 1 \in Nat /\ a + 1 >= n + 1
      BY <1>1, <2>a
    <3> QED BY <3>4, <3>5, <3>7, <3>8, <3>9 DEF ac
  <2>2. CASE ~(m < Len(irs))
    <3>1. R = <<>> /\ s[n + 1] = B /\ z = E[1]
      BY <1>14, <2>2
    <3>2. D = ac
      <4> HIDE DEF ac
      <4> QED BY <2>a, <3>1, ConcatEmptySeq DEF ac
    <3>3. u3[a + 1] = s[n + 1]
      BY <1>20, <2>a, <3>1
    <3> HIDE DEF D, z
    <3> QED BY <1>18, <1>19, <1>20, <2>a, <3>1, <3>2, <3>3
  <2> QED BY <2>1, <2>2
<1> HIDE DEF D, z
<1>22. PICK u6 : /\ Strung(D, E[1], u6) /\ \A k \in 1..n : u6[k] = s[k]
                 /\ u6[n + 1] = B /\ u6[Len(D) + 1] = s[n + 1]
  BY <1>21
<1>23. PICK u7 : Strung(E, y, u7) /\ u7[1] = s[n + 1] /\ u7[(l - n) + 1] = s[l + 1]
  BY <1>11
<1>24. PICK u : /\ Strung(D \o E, y, u)
                /\ \A k \in 1..(Len(D) + 1) : u[k] = u6[k]
                /\ \A k \in 1..((l - n) + 1) : u[Len(D) + k] = u7[k]
  <2>1. D \in Seq(Items) /\ E \in Seq(Items) /\ u6[Len(D) + 1] = u7[1]
    BY <1>11, <1>21, <1>22, <1>23
  <2>2. Strung(D, E[1], u6) /\ Strung(E, y, u7)
    BY <1>22, <1>23
  <2>3. \E u : Strung(D \o E, y, u) /\ Joins(u, u6, Len(D), u7, Len(E))
    BY <1>12, <2>1, <2>2, Join
  <2>4. Len(E) = l - n
    BY <1>11
  <2> QED BY <2>3, <2>4 DEF Joins
<1>25. /\ D \o E \in Seq(Items) /\ Len(D \o E) = Len(D) + (l - n)
       /\ \A k \in 1..Len(D) : (D \o E)[k] = D[k]
  <2>1. D \in Seq(Items) /\ E \in Seq(Items)
    BY <1>11, <1>21
  <2>2. Len(E) = l - n
    BY <1>11
  <2>3. /\ D \o E \in Seq(Items) /\ Len(D \o E) = Len(D) + Len(E)
        /\ \A k \in 1..Len(D) : (D \o E)[k] = D[k]
    BY <2>1, OneMore
  <2> QED BY <2>2, <2>3
<1>26. q = D \o E
  BY DEF Spliced4, D, A, R, E, l
<1>27. /\ \A k \in 1..n : k \in 1..Len(D) /\ k \in 1..(Len(D) + 1)
       /\ n + 1 \in 1..Len(D) /\ n + 1 \in 1..(Len(D) + 1) /\ n + 1 \in 1..(Len(D) + (l - n))
       /\ (l - n) + 1 \in 1..((l - n) + 1) /\ Len(D) + ((l - n) + 1) = (Len(D) + (l - n)) + 1
  BY <1>1, <1>21
<1> HIDE DEF q, irs
<1>28. /\ q \in Seq(Items) /\ n + 1 \in 1..Len(q) /\ q[n + 1] = StartNode(f, arg)
       /\ \A k \in 1..n : q[k] = p[k]
  BY <1>8, <1>21, <1>25, <1>26, <1>27
<1>29. Strung(q, y, u) /\ Begins(u, s, n, B) /\ u[Len(q) + 1] = s[l + 1]
  <2>1. Strung(q, y, u)
    BY <1>24, <1>26
  <2>2. Begins(u, s, n, B)
    BY <1>22, <1>24, <1>27 DEF Begins
  <2>3. u[Len(q) + 1] = s[l + 1]
    BY <1>23, <1>24, <1>25, <1>26, <1>27
  <2> QED BY <2>1, <2>2, <2>3
<1> QED BY <1>28, <1>29 DEF q, irs, l, B, f, Branches

----------------------------------------------------------------------------
(* What was executed, as a run of the program.                              *)

Events == [do : {"enter", "exit", "ir"}, fn : Functions, ir : IrIds \cup {NoIr}]

\* Some run of these events comes to stack c.
Recorded(tr, c) == \E run \in [0..Len(tr) -> Stacks] :
                      /\ run[0] = <<>> /\ run[Len(tr)] = c
                      /\ \A k \in 1..Len(tr) : run[k] \in Follow(run[k - 1], tr[k])

\* Calls enter their callees, and nothing else is entered but the first function.
Ordered(tr) == \A k \in DOMAIN tr :
                 IF k > 1 /\ Calling(tr[k - 1])
                 THEN tr[k].do = "enter" /\ tr[k].fn = Op(tr[k - 1].ir).f
                 ELSE tr[k].do = "enter" => k = 1

\* A path may begin here: a new activation of its function.
LEMMA BegunTyped ==
  ASSUME code \in Programs, NEW f \in Functions, NEW i \in DOMAIN code[f].paths
  PROVE  Begun(f, i) \in Acts
<1>1. code[f].paths \in Seq(Seq(Nat))
  BY Program
<1>2. i \in Nat \ {0}
  BY <1>1
<1> QED BY <1>2 DEF Begun, Acts

\* Events make stacks of stacks.
LEMMA FollowTyped ==
  ASSUME code \in Programs, NEW c \in Stacks, NEW e \in Events
  PROVE  Follow(c, e) \subseteq Stacks
<1>1. e.do \in {"enter", "exit", "ir"} /\ e.fn \in Functions
  BY DEF Events
<1>2. CASE e.do = "enter"
  <2>1. \A i \in DOMAIN code[e.fn].paths : Append(c, Begun(e.fn, i)) \in Stacks
    BY <1>1, BegunTyped, Pushed
  <2> QED BY <1>2, <2>1 DEF Follow
<1>3. CASE e.do = "exit"
  <2>1. c # <<>> => Front(c) \in Stacks
    BY Popped
  <2> QED BY <1>3, <2>1 DEF Follow
<1>4. CASE e.do = "ir"
  <2>1. c # <<>> => Ahead(c, 1) \in Stacks
    BY GoingOn
  <2> QED BY <1>4, <2>1 DEF Follow, Ahead
<1> QED BY <1>1, <1>2, <1>3, <1>4

\* A run goes on with one more event.
LEMMA Records ==
  ASSUME NEW tr \in Seq(Events), NEW c, Recorded(tr, c), NEW e \in Events,
         NEW b \in Stacks, b \in Follow(c, e)
  PROVE  Recorded(Append(tr, e), b)
<1> DEFINE n == Len(tr)
           on == Append(tr, e)
<1>1. n \in Nat
  OBVIOUS
<1>2. Len(on) = n + 1 /\ on[n + 1] = e /\ \A k \in 1..n : on[k] = tr[k]
  BY AppendProperties
<1>3. PICK run \in [0..n -> Stacks] : /\ run[0] = <<>> /\ run[n] = c
                                      /\ \A k \in 1..n : run[k] \in Follow(run[k - 1], tr[k])
  BY DEF Recorded
<1> HIDE DEF n, on
<1> DEFINE more == [k \in 0..(n + 1) |-> IF k = n + 1 THEN b ELSE run[k]]
<1>4. /\ more \in [0..(n + 1) -> Stacks] /\ more[n + 1] = b
      /\ \A k \in 0..n : more[k] = run[k]
  <2>1. \A k \in 0..(n + 1) : k # n + 1 => k \in 0..n
    BY <1>1
  <2>2. n + 1 \in 0..(n + 1) /\ \A k \in 0..n : k \in 0..(n + 1) /\ k # n + 1
    BY <1>1
  <2> QED BY <2>1, <2>2
<1> HIDE DEF more
<1>5. more[0] = <<>>
  BY <1>1, <1>3, <1>4
<1>6. ASSUME NEW k \in 1..(n + 1) PROVE more[k] \in Follow(more[k - 1], on[k])
  <2>1. CASE k = n + 1
    <3>1. k - 1 = n /\ n \in 0..n
      BY <1>1, <2>1
    <3> QED BY <1>2, <1>3, <1>4, <2>1, <3>1
  <2>2. CASE k # n + 1
    <3>1. k \in 1..n /\ k \in 0..n /\ k - 1 \in 0..n
      BY <1>1, <2>2
    <3> QED BY <1>2, <1>3, <1>4, <3>1
  <2> QED BY <2>1, <2>2
<1>7. Recorded(on, b)
  BY <1>2, <1>4, <1>5, <1>6 DEF Recorded
<1> QED BY <1>7 DEF on

\* The order is kept by an event that is a callee's beginning after a call, and
\* none elsewhere.
LEMMA OrderedOn ==
  ASSUME NEW tr \in Seq(Events), Ordered(tr), NEW e \in Events,
         tr # <<>> /\ Calling(Last(tr)) => e.do = "enter" /\ e.fn = Op(Last(tr).ir).f,
         e.do = "enter" => tr = <<>> \/ Calling(Last(tr))
  PROVE  Ordered(Append(tr, e))
<1> DEFINE n == Len(tr)
           on == Append(tr, e)
<1>1. n \in Nat /\ (n = 0 <=> tr = <<>>) /\ DOMAIN tr = 1..n
  BY EmptySeq
<1>2. on \in Seq(Events) /\ Len(on) = n + 1 /\ on[n + 1] = e /\ \A k \in 1..n : on[k] = tr[k]
  BY AppendProperties
<1>3. DOMAIN on = 1..(n + 1)
  BY <1>2
<1>4. Last(tr) = tr[n]
  BY DEF Last
<1> HIDE DEF n, on
<1>5. ASSUME NEW k \in 1..(n + 1)
      PROVE  IF k > 1 /\ Calling(on[k - 1])
             THEN on[k].do = "enter" /\ on[k].fn = Op(on[k - 1].ir).f
             ELSE on[k].do = "enter" => k = 1
  <2>1. CASE k = n + 1
    <3>1. CASE n = 0
      BY <2>1, <3>1
    <3>2. CASE n # 0
      <4>1. k > 1 /\ k - 1 = n /\ n \in 1..n
        BY <1>1, <2>1, <3>2
      <4> QED BY <1>1, <1>2, <1>4, <2>1, <3>2, <4>1
    <3> QED BY <3>1, <3>2
  <2>2. CASE k # n + 1
    <3>1. k \in 1..n /\ (k > 1 => k - 1 \in 1..n)
      BY <1>1, <2>2
    <3> QED BY <1>1, <1>2, <3>1 DEF Ordered
  <2> QED BY <2>1, <2>2
<1>6. Ordered(on)
  BY <1>3, <1>5 DEF Ordered
<1> QED BY <1>6 DEF on

\* What some run comes to is among the stacks there may be.
LEMMA RunFound ==
  ASSUME code \in Programs, trace \in Seq(Events), NEW c, Recorded(trace, c)
  PROVE  c \in Activations[Len(trace)]
<1> DEFINE n == Len(trace)
           Then(f, k) == IF k = 0 THEN {<<>>} ELSE UNION {Follow(b, trace[k]) : b \in f[k - 1]}
           Def(f) == f = [k \in 0..n |-> Then(f, k)]
           there == CHOOSE f : Def(f)
           step == [q \in (1..n) \X SUBSET Stacks |-> UNION {Follow(b, trace[q[1]]) : b \in q[2]}]
<1>1. n \in Nat /\ \A k \in 1..n : trace[k] \in Events
  OBVIOUS
<1>2. {<<>>} \in SUBSET Stacks /\ step \in [(1..n) \X SUBSET Stacks -> SUBSET Stacks]
  <2>1. ASSUME NEW q \in (1..n) \X SUBSET Stacks
        PROVE  UNION {Follow(b, trace[q[1]]) : b \in q[2]} \in SUBSET Stacks
    <3>1. trace[q[1]] \in Events /\ q[2] \subseteq Stacks
      BY <1>1
    <3>2. \A b \in q[2] : Follow(b, trace[q[1]]) \subseteq Stacks
      BY <3>1, FollowTyped
    <3> QED BY <3>2
  <2> HIDE DEF n
  <2> QED BY <2>1 DEF Stacks
<1> HIDE DEF n
<1>3. PICK g \in [0..n -> SUBSET Stacks] : g[0] = {<<>>} /\ \A k \in 1..n : g[k] = step[<<k, g[k - 1]>>]
  <2>1. Iterated(n, SUBSET Stacks, {<<>>}, step)
    <3> HIDE DEF step
    <3> QED BY <1>1, <1>2, Recursion
  <2> QED BY <2>1 DEF Iterated
<1>4. ASSUME NEW k \in 0..n PROVE g[k] = Then(g, k)
  <2>1. CASE k = 0
    BY <1>3, <2>1
  <2>2. CASE k # 0
    <3>1. k \in 1..n /\ k - 1 \in 0..n /\ g[k - 1] \in SUBSET Stacks
      BY <1>1, <2>2
    <3>2. g[k] = step[<<k, g[k - 1]>>] /\ <<k, g[k - 1]>> \in (1..n) \X SUBSET Stacks
      BY <1>3, <3>1
    <3> QED BY <2>2, <3>2
  <2> QED BY <2>1, <2>2
<1>5. Def(g)
  <2> HIDE DEF Then
  <2> QED BY <1>4
<1>6. Def(there)
  <2> HIDE DEF Def
  <2> QED BY <1>5
<1>7. \A k \in 0..n : there[k] = Then(there, k)
  <2> HIDE DEF there, Then
  <2> QED BY <1>6
<1>8. Activations = there
  BY DEF Activations, n
<1> HIDE DEF there, Def, step
<1>9. PICK run \in [0..n -> Stacks] : /\ run[0] = <<>> /\ run[n] = c
                                      /\ \A k \in 1..n : run[k] \in Follow(run[k - 1], trace[k])
  BY DEF Recorded, n
<1> DEFINE Good == {k \in 0..n : run[k] \in there[k]}
<1>10. 0 \in Good
  <2>1. 0 \in 0..n /\ there[0] = {<<>>}
    <3>1. 0 \in 0..n
      BY <1>1
    <3>2. there[0] = Then(there, 0)
      <4> HIDE DEF Then
      <4> QED BY <1>7, <3>1
    <3> QED BY <3>1, <3>2
  <2> QED BY <1>9, <2>1
<1>11. ASSUME NEW k \in 1..n, k - 1 \in Good PROVE k \in Good
  <2>1. k \in 0..n /\ there[k] = UNION {Follow(b, trace[k]) : b \in there[k - 1]}
    <3>1. k \in 0..n /\ k # 0
      BY <1>1
    <3>2. there[k] = Then(there, k)
      <4> HIDE DEF Then
      <4> QED BY <1>7, <3>1
    <3> QED BY <3>1, <3>2
  <2>2. run[k - 1] \in there[k - 1] /\ run[k] \in Follow(run[k - 1], trace[k])
    BY <1>9, <1>11
  <2> QED BY <2>1, <2>2
<1>12. 0..n \subseteq Good
  <2> HIDE DEF Good
  <2> QED BY <1>1, <1>10, <1>11, UpTo
<1>13. n \in Good
  BY <1>1, <1>12
<1> QED BY <1>8, <1>9, <1>13 DEF n

----------------------------------------------------------------------------
(* The program stays the same.                                              *)

\* What is said of IRs stays true.
LEMMA SameIrs ==
  ASSUME code' = code
  PROVE  /\ IrIds' = IrIds /\ Acts' = Acts /\ Stacks' = Stacks /\ Events' = Events
         /\ \A ir : Op(ir)' = Op(ir)
         /\ \A e : Calling(e)' <=> Calling(e)
         /\ \A irs, m : FirstCall(irs, m)' <=> FirstCall(irs, m)
<1>1. IrIds' = IrIds
  BY DEF IrIds
<1>2. Acts' = Acts
  BY DEF Acts
<1>3. \A ir : Op(ir)' = Op(ir)
  BY DEF Op
<1>4. \A e : Calling(e)' <=> Calling(e)
  BY <1>3 DEF Calling
<1>5. \A irs, m : FirstCall(irs, m)' <=> FirstCall(irs, m)
  BY <1>3 DEF FirstCall
<1> QED BY <1>1, <1>2, <1>3, <1>4, <1>5 DEF Stacks, Events, NoIr

\* So do the IRs along a path.
LEMMA SameLine ==
  ASSUME code' = code, NEW a
  PROVE  Line(a)' = Line(a)
<1>1. ASSUME NEW f, NEW n PROVE Irs(f, n)' = Irs(f, n)
  BY DEF Irs
<1>2. ASSUME NEW f, NEW i PROVE Nodes(f, i)' = Nodes(f, i)
  BY <1>1 DEF Nodes
<1>3. ASSUME NEW f, NEW i PROVE IrsAlong(f, i)' = IrsAlong(f, i)
  <2>1. IrsAlong(f, i) = FlattenSeq(Nodes(f, i)) /\ IrsAlong(f, i)' = FlattenSeq(Nodes(f, i)')
    BY DEF IrsAlong, Nodes
  <2> QED BY <1>2, <2>1
<1> QED BY <1>3 DEF Line

\* And what is said of paths and runs.
LEMMA SamePaths ==
  ASSUME code' = code
  PROVE  /\ \A x, y, s, t : Fit(x, y, s, t)' <=> Fit(x, y, s, t)
         /\ \A p, y, st : Strung(p, y, st)' <=> Strung(p, y, st)
         /\ \A c, e : Follow(c, e)' = Follow(c, e)
         /\ \A tr, c : Recorded(tr, c)' <=> Recorded(tr, c)
         /\ \A tr : Ordered(tr)' <=> Ordered(tr)
<1>1. \A a : Line(a)' = Line(a)
  BY SameLine
<1>2. \A irs, m, s, t : Does(irs, m, s, t)' <=> Does(irs, m, s, t)
  BY <1>1 DEF Does
<1>3. \A x, y, s, t : Fit(x, y, s, t)' <=> Fit(x, y, s, t)
  BY <1>1, <1>2, SameIrs DEF Fit
<1>4. \A p, y, st : Strung(p, y, st)' <=> Strung(p, y, st)
  BY <1>3, SameIrs DEF Strung
<1>5. \A c, e : Follow(c, e)' = Follow(c, e)
  BY <1>1 DEF Follow
<1>6. \A tr, c : Recorded(tr, c)' <=> Recorded(tr, c)
  BY <1>5, SameIrs DEF Recorded
<1>7. \A tr : Ordered(tr)' <=> Ordered(tr)
  BY SameIrs DEF Ordered
<1> QED BY <1>3, <1>4, <1>5, <1>6, <1>7

----------------------------------------------------------------------------
(* The inductive invariant.                                                 *)

None == [kind |-> "none"]

\* A whole path: from an empty stack to an empty stack.
Stacked(p, st)  == Strung(p, None, st) /\ st[1] = <<>> /\ st[Len(p) + 1] = <<>>
GoodPath(p) == /\ p \in Seq(Items) /\ p # <<>> /\ p[1].kind = "start"
               /\ \E st : Stacked(p, st)

\* Storage parameters have contexts: those of the activations of c.
Given(c) == \A i \in DOMAIN c : c[i].fn \notin Range(Entries) => P(c[i].fn) \in DOMAIN ctx

\* The stack where the walk stands.
Here(st) == IF pos = 1 THEN st[at] ELSE Ahead(st[at], pos - 1)
Held(st) == Stacked(Path, st) /\ Recorded(trace, Here(st)) /\ Given(Here(st))

\* Where the walk stands: within the IRs of a node no call is behind it.
Marked == /\ at \in 1..(Len(Path) + 1) /\ pos \in Nat \ {0}
          /\ pos > 1 => /\ at <= Len(Path) /\ Item.kind = "code" /\ pos <= Len(Item.irs) + 1
                        /\ \A k \in 1..(pos - 1) : Op(Item.irs[k]).op # "call"

\* What was executed last is a call just where its callee begins.
Entering == at <= Len(Path) /\ Item.kind = "start"
Noted == /\ trace \in Seq(Events) /\ Ordered(trace)
         /\ at = 1 <=> trace = <<>>
         /\ trace # <<>> => /\ Calling(Last(trace)) <=> Entering
                            /\ Entering => Op(Last(trace).ir).f = Item.fn

OnTheWay == Marked /\ Noted /\ \E st : Held(st)

Typed == /\ code \in Programs
         /\ work \in Seq([start : Nat \ {0}, path : Seq(Items)])
         /\ heap \in Seq(Locations)
         /\ pc = "walking" => todo <= Len(Entries)

Walking == /\ \A v \in Range(StateVars) : V(v) \in DOMAIN ctx
           /\ \A j \in DOMAIN work : GoodPath(work[j].path) /\ (j > id => work[j].start = 1)
           /\ id <= Len(work) => OnTheWay

IInv == TypeOK /\ Typed /\ (pc = "walking" => Walking)

----------------------------------------------------------------------------
(* What the invariant says of the item and the IR under way.                *)

\* A code item is executed up to the first call that is expanded behind it, or
\* to its end.
LEMMA CodeItem ==
  ASSUME code \in Programs, NEW p \in Seq(Items), NEW st, Stacked(p, st), NEW n \in 1..Len(p), p[n].kind = "code"
  PROVE  /\ n < Len(p) /\ p[n].irs \in Seq(IrIds)
         /\ st[n] \in Stacks /\ st[n + 1] \in Stacks /\ st[n] # <<>>
         /\ \E m \in 0..Len(p[n].irs) :
              /\ Does(p[n].irs, m, st[n], st[n + 1])
              /\ IF p[n + 1].kind = "start"
                 THEN FirstCall(p[n].irs, m) /\ Op(p[n].irs[m]).f = p[n + 1].fn
                 ELSE m = Len(p[n].irs)
<1> DEFINE l == Len(p)
           irs == p[n].irs
<1>1. l \in Nat /\ n \in Nat /\ p[n] \in Items
  OBVIOUS
<1>2. irs \in Seq(IrIds)
  BY <1>1 DEF Items, Starts
<1>3. /\ st \in [1..(l + 1) -> Stacks] /\ st[l + 1] = <<>>
      /\ Fit(p[n], After(p, None, n), st[n], st[n + 1])
  BY DEF Stacked, Strung
<1> HIDE DEF l
<1>4. st[n] \in Stacks /\ st[n + 1] \in Stacks
  <2>1. n \in 1..(l + 1) /\ n + 1 \in 1..(l + 1)
    BY <1>1 DEF l
  <2> QED BY <1>3, <2>1
<1>5. \E m \in 0..Len(irs) :
        /\ Does(irs, m, st[n], st[n + 1])
        /\ IF After(p, None, n).kind = "start"
           THEN FirstCall(irs, m) /\ Op(irs[m]).f = After(p, None, n).fn
           ELSE m = Len(irs)
  <2>0. Len(irs) \in 0..Len(irs) /\ \A m \in DOMAIN irs : m \in 0..Len(irs)
    BY <1>2
  <2>1. CASE After(p, None, n).kind = "start"
    BY <1>3, <2>0, <2>1 DEF Fit, FirstCall
  <2>2. CASE After(p, None, n).kind # "start"
    <3>1. Does(irs, Len(irs), st[n], st[n + 1])
      BY <1>3, <2>2 DEF Fit
    <3> QED BY <2>0, <2>2, <3>1
  <2> QED BY <2>1, <2>2
<1>6. PICK m \in 0..Len(irs) : Does(irs, m, st[n], st[n + 1])
  BY <1>5
<1>7. st[n] # <<>> /\ st[n + 1] = Ahead(st[n], m) /\ m \in Nat
  BY <1>2, <1>6 DEF Does
<1>8. st[n + 1] # <<>>
  <2> DEFINE s == st[n]
  <2>1. s \in Stacks /\ s # <<>>
    BY <1>4, <1>7
  <2> HIDE DEF s
  <2>2. Ahead(s, m) # <<>>
    BY <1>7, <2>1, GoingOn
  <2> QED BY <1>7, <2>2 DEF s
<1>9. n < l
  <2>1. n # l
    BY <1>3, <1>8
  <2> QED BY <1>1, <2>1 DEF l
<1>10. After(p, None, n) = p[n + 1]
  BY <1>9 DEF After, l
<1> QED BY <1>2, <1>4, <1>5, <1>7, <1>9, <1>10 DEF l

\* The IR under way is the next of the last activation, and the IRs behind it
\* are those behind the place.
LEMMA IrNext ==
  ASSUME code \in Programs, Path \in Seq(Items), Marked, NEW st, Stacked(Path, st),
         at <= Len(Path), Item.kind = "code", pos <= Len(Item.irs)
  PROVE  /\ Ir \in IrIds /\ Executed \in Events
         /\ Here(st) \in Stacks /\ Here(st) # <<>> /\ Here(st) = Ahead(st[at], pos - 1)
         /\ Last(Here(st)).fn = Fn
         /\ Ahead(st[at], pos) \in Stacks /\ Ahead(st[at], pos) \in Follow(Here(st), Executed)
         /\ Len(Ahead(st[at], pos)) = Len(Here(st))
         /\ \A i \in 1..Len(Here(st)) : Ahead(st[at], pos)[i].fn = Here(st)[i].fn
<1> DEFINE irs == Item.irs
           s == st[at]
           c == Here(st)
<1>1. at \in 1..Len(Path) /\ pos \in Nat \ {0} /\ \A k \in 1..(pos - 1) : Op(irs[k]).op # "call"
  BY DEF Marked
<1>2. PICK m \in 0..Len(irs) :
         /\ irs \in Seq(IrIds) /\ s \in Stacks /\ s # <<>>
         /\ Does(irs, m, s, st[at + 1])
         /\ FirstCall(irs, m) \/ m = Len(irs)
  BY <1>1, CodeItem DEF Item
<1>3. Len(irs) \in Nat /\ pos \in 1..Len(irs) /\ DOMAIN irs = 1..Len(irs) /\ irs[pos] \in IrIds
  BY <1>1, <1>2
<1> HIDE DEF irs, s
<1>4. pos <= m
  <2>1. ASSUME FirstCall(irs, m), m < pos PROVE FALSE
    <3>1. m \in 1..(pos - 1) /\ Op(irs[m]).op = "call"
      BY <1>3, <2>1 DEF FirstCall
    <3> QED BY <1>1, <3>1
  <2> DEFINE n == Len(irs)
  <2>a. n \in Nat /\ m \in 0..n /\ pos \in 1..n
    BY <1>3
  <2>b. m \in Nat /\ pos \in Nat /\ (m = n => pos <= m)
    <3> HIDE DEF n
    <3> QED BY <2>a
  <2>2. m \in Nat /\ pos \in Nat /\ (m = Len(irs) => pos <= m)
    BY <2>b
  <2>3. FirstCall(irs, m) => ~(m < pos)
    BY <2>1
  <2>4. FirstCall(irs, m) \/ m = Len(irs)
    BY <1>2
  <2> QED BY <2>2, <2>3, <2>4
<1>5. /\ Last(s).done + m <= Len(Line(Last(s)))
      /\ \A k \in 1..m : irs[k] = Line(Last(s))[Last(s).done + k]
  BY <1>2 DEF Does
<1>6. c = Ahead(s, pos - 1)
  <2>1. CASE pos = 1
    <3>1. c = s /\ pos - 1 = 0
      BY <2>1 DEF Here, s
    <3>2. Ahead(s, 0) = s
      BY <1>2, Further
    <3> QED BY <3>1, <3>2
  <2>2. CASE pos # 1
    BY <2>2 DEF Here, s
  <2> QED BY <2>1, <2>2
<1> DEFINE k == pos - 1
<1>7. k \in Nat /\ k + 1 = pos /\ pos \in 1..m /\ m \in Nat
  BY <1>3, <1>4
<1>8. c = Ahead(s, k)
  BY <1>6
<1> HIDE DEF k, c
<1>9. /\ c \in Stacks /\ c # <<>> /\ Len(c) = Len(s)
      /\ Last(c) \in Acts /\ Last(s) \in Acts
      /\ Last(c).done = Last(s).done + k /\ Last(c).fn = Last(s).fn /\ Line(Last(c)) = Line(Last(s))
      /\ \A i \in 1..Len(s) : c[i].fn = s[i].fn
  BY <1>2, <1>7, <1>8, GoingOn
<1>10. Ahead(c, 1) = Ahead(s, pos)
  <2>1. s \in Stacks /\ s # <<>> /\ k \in Nat /\ 1 \in Nat
    BY <1>2, <1>7
  <2>2. Ahead(Ahead(s, k), 1) = Ahead(s, k + 1)
    BY <2>1, Further
  <2> QED BY <1>7, <1>8, <2>2
<1>11. /\ Ahead(c, 1) \in Stacks /\ Len(Ahead(c, 1)) = Len(c)
       /\ \A i \in 1..Len(c) : Ahead(c, 1)[i].fn = c[i].fn
  BY <1>9, GoingOn
<1>12. Ir = irs[pos] /\ Ir \in IrIds
  BY <1>3 DEF Ir, irs
<1>13. Line(Last(c)) \in Seq(FnIrs(Last(c).fn)) /\ Last(c).done \in Nat /\ Last(s).done \in Nat
  BY <1>9, PathIrs DEF Line, Acts
<1>14. Last(c).done < Len(Line(Last(c))) /\ Line(Last(c))[Last(c).done + 1] = Ir
  <2> DEFINE d == Last(s).done
             e == Len(Line(Last(s)))
  <2>1. d \in Nat /\ e \in Nat /\ d + m <= e /\ Last(c).done = d + k /\ (d + k) + 1 = d + pos
    BY <1>5, <1>7, <1>9, <1>13
  <2> HIDE DEF d, e
  <2>2. d + k < e
    BY <1>7, <2>1
  <2>3. Line(Last(s))[d + pos] = Ir
    BY <1>5, <1>7, <1>12 DEF d
  <2> QED BY <1>9, <2>1, <2>2, <2>3 DEF e
<1>15. Ir \in FnIrs(Last(c).fn)
  <2> DEFINE x == Line(Last(c))
             n == Last(c).done + 1
             X == FnIrs(Last(c).fn)
  <2>1. x \in Seq(X) /\ n \in 1..Len(x) /\ x[n] = Ir
    BY <1>13, <1>14
  <2> HIDE DEF x, n, X
  <2>2. Ir \in X
    BY <2>1
  <2> QED BY <2>2 DEF X
<1>16. Fn = Last(c).fn
  BY <1>15 DEF FnIrs, Fn
<1>17. Executed \in Events
  BY <1>9, <1>12, <1>16 DEF Executed, Events, Acts
<1>18. Ahead(c, 1) \in Follow(c, Executed)
  BY <1>9, <1>14 DEF Follow, Executed, Ahead
<1> QED BY <1>8, <1>9, <1>10, <1>11, <1>12, <1>16, <1>17, <1>18 DEF c, s, k

----------------------------------------------------------------------------
(* Contexts come and change; objects only come.                             *)

\* No object and no context is lost, and each context's object exists.
Grown == /\ heap' \in Seq(Locations) /\ DOMAIN heap \subseteq DOMAIN heap'
         /\ DOMAIN ctx \subseteq DOMAIN ctx' /\ \A x \in DOMAIN ctx' : ctx'[x] \in DOMAIN heap'

\* What has a context stands for a location.
LEMMA LocTyped ==
  ASSUME TypeOK, Typed, NEW x
  PROVE  Loc(x) \in Locations
  BY DEF TypeOK, Typed, Loc, Has, Locations

\* Nothing changes.
LEMMA NothingMoves ==
  ASSUME TypeOK, Typed, UNCHANGED <<ctx, heap>>
  PROVE  Grown
  BY DEF TypeOK, Typed, Grown

\* A new object comes.
LEMMA NewGrows ==
  ASSUME TypeOK, Typed, NEW x, NEW l \in Locations, New(x, l)
  PROVE  Grown /\ x \in DOMAIN ctx'
<1>1. /\ heap \in Seq(Locations) /\ Len(heap) \in Nat /\ DOMAIN heap = 1..Len(heap)
  BY DEF Typed
<1>2. /\ heap' \in Seq(Locations) /\ DOMAIN heap' = 1..(Len(heap) + 1)
  <2>1. heap' = Append(heap, l)
    BY DEF New
  <2> HIDE DEF Locations
  <2> QED BY <1>1, <2>1
<1>3. DOMAIN ctx' = DOMAIN ctx \cup {x} /\ \A y \in DOMAIN ctx' : ctx'[y] = Len(heap) + 1 \/ (y \in DOMAIN ctx /\ ctx'[y] = ctx[y])
  BY DEF New, With
<1>4. DOMAIN heap \subseteq DOMAIN heap' /\ Len(heap) + 1 \in DOMAIN heap'
  BY <1>1, <1>2
<1> QED BY <1>2, <1>3, <1>4 DEF Grown, TypeOK

\* An object of another comes to be of x as well.
LEMMA BindGrows ==
  ASSUME TypeOK, Typed, NEW x, NEW o \in DOMAIN heap, Bind(x, o)
  PROVE  Grown
<1>1. DOMAIN ctx' = DOMAIN ctx \cup {x} /\ \A y \in DOMAIN ctx' : ctx'[y] = o \/ (y \in DOMAIN ctx /\ ctx'[y] = ctx[y])
  BY DEF Bind, With
<1> QED BY <1>1 DEF Grown, TypeOK, Typed, Bind

\* So it does where a pointer is assigned, maybe renamed.
LEMMA AssignedGrows ==
  ASSUME TypeOK, Typed, NEW x, NEW o \in DOMAIN heap, Assigned(x, o)
  PROVE  Grown /\ x \in DOMAIN ctx' /\ ctx'[x] \in DOMAIN heap'
<1>1. DOMAIN ctx' = DOMAIN ctx \cup {x} /\ \A y \in DOMAIN ctx' : ctx'[y] = o \/ (y \in DOMAIN ctx /\ ctx'[y] = ctx[y])
  BY DEF Assigned, With
<1>2. Loc(x) \in Locations /\ heap \in Seq(Locations)
  BY LocTyped DEF Typed
<1>3. heap' = heap \/ heap' = [heap EXCEPT ![o] = Loc(x)]
  BY DEF Assigned
<1>4. heap' \in Seq(Locations) /\ DOMAIN heap' = DOMAIN heap
  <2> DEFINE l == Loc(x)
  <2> HIDE DEF l, Locations
  <2>1. l \in Locations
    BY <1>2 DEF l
  <2>2. [heap EXCEPT ![o] = l] \in Seq(Locations) /\ DOMAIN [heap EXCEPT ![o] = l] = DOMAIN heap
    BY <1>2, <2>1
  <2> QED BY <1>2, <1>3, <2>2 DEF l
<1> QED BY <1>1, <1>4 DEF Grown, TypeOK

\* Items stay items as objects come.
LEMMA ItemsGrow ==
  ASSUME code' = code, DOMAIN heap \subseteq DOMAIN heap'
  PROVE  Items \subseteq Items'
<1>1. Starts \subseteq Starts'
  BY DEF Starts
<1> QED BY <1>1, SameIrs DEF Items, NoIr

\* So paths stay good.
LEMMA PathsKept ==
  ASSUME code' = code, DOMAIN heap \subseteq DOMAIN heap'
  PROVE  /\ Seq(Items) \subseteq Seq(Items')
         /\ \A p : GoodPath(p) => GoodPath(p)'
         /\ \A p, st : Stacked(p, st)' <=> Stacked(p, st)
<1>1. Seq(Items) \subseteq Seq(Items')
  BY ItemsGrow, SeqMonotonic
<1>2. \A p, st : Stacked(p, st)' <=> Stacked(p, st)
  BY SamePaths DEF Stacked, None
<1>3. \A p : GoodPath(p) => GoodPath(p)'
  BY <1>1, <1>2 DEF GoodPath
<1> QED BY <1>1, <1>2, <1>3

\* While the path under way stays the same, it is the place that matters.
LEMMA StepAlong ==
  ASSUME IInv, pc = "walking", id <= Len(work), UNCHANGED <<code, todo, pc, work, id>>,
         Grown, written' \subseteq Range(StateVars), OnTheWay'
  PROVE  IInv'
<1>1. pos' \in Nat \ {0}
  BY DEF OnTheWay, Marked
<1>2. TypeOK'
  <2>1. /\ todo' \in 1..(Len(Entries) + 1) /\ pc' \in {"next", "walking", "done"}
        /\ id' \in 1..(Len(work') + 1)
        /\ \A i \in DOMAIN work' : work'[i].start \in DOMAIN work'[i].path /\ Len(work'[i].path) <= MaxItems
    BY DEF IInv, TypeOK
  <2>2. Range(heap') \subseteq Range(StateVars) \cup {NoLoc}
    <3>1. heap' \in Seq(Locations)
      BY DEF Grown
    <3>2. \A i \in DOMAIN heap' : heap'[i] \in Locations
      BY <3>1
    <3> QED BY <3>2 DEF Range, Locations
  <2> QED BY <1>1, <2>1, <2>2 DEF TypeOK, Grown, NoLoc
<1>3. Seq(Items) \subseteq Seq(Items') /\ \A p : GoodPath(p) => GoodPath(p)'
  BY PathsKept DEF Grown
<1>4. Typed'
  <2>1. work \in Seq([start : Nat \ {0}, path : Seq(Items)])
    BY DEF IInv, Typed
  <2>2. [start : Nat \ {0}, path : Seq(Items)] \subseteq [start : Nat \ {0}, path : Seq(Items')]
    BY <1>3
  <2>3. work \in Seq([start : Nat \ {0}, path : Seq(Items')])
    BY <2>1, <2>2, SeqMonotonic
  <2> QED BY <2>3 DEF IInv, Typed, Grown, Locations, NoLoc
<1>5. Walking'
  <2>1. \A v \in Range(StateVars) : V(v) \in DOMAIN ctx'
    BY DEF IInv, Walking, Grown
  <2>2. \A j \in DOMAIN work : GoodPath(work[j].path) /\ (j > id => work[j].start = 1)
    BY DEF IInv, Walking
  <2> QED BY <1>3, <2>1, <2>2 DEF Walking, V
<1> QED BY <1>2, <1>4, <1>5 DEF IInv

\* The place of a walk under way.
LEMMA Standing ==
  ASSUME IInv, OnPath
  PROVE  /\ pc = "walking" /\ id <= Len(work) /\ id \in DOMAIN work /\ at \in 1..Len(Path)
         /\ GoodPath(Path) /\ Path \in Seq(Items) /\ Item \in Items /\ OnTheWay
         /\ code \in Programs /\ TypeOK /\ Typed /\ Len(Path) \in Nat
<1>1. /\ pc = "walking" /\ id <= Len(work) /\ at <= Len(Path)
      /\ TypeOK /\ Typed /\ Walking /\ OnTheWay
  BY DEF OnPath, IInv, Walking
<1>2. id \in DOMAIN work
  <2>1. work \in Seq([start : Nat \ {0}, path : Seq(Items)])
    BY <1>1 DEF Typed
  <2>2. Len(work) \in Nat /\ DOMAIN work = 1..Len(work)
    BY <2>1
  <2> QED BY <1>1, <2>2 DEF TypeOK
<1>3. GoodPath(Path) /\ Path \in Seq(Items)
  BY <1>1, <1>2 DEF Walking, Path, GoodPath
<1>4. Len(Path) \in Nat /\ at \in 1..Len(Path)
  BY <1>1, <1>3 DEF OnTheWay, Marked
<1>5. Item \in Items
  <2> DEFINE p == Path
  <2>1. p \in Seq(Items) /\ at \in 1..Len(p)
    BY <1>3, <1>4
  <2> HIDE DEF p
  <2>2. p[at] \in Items
    BY <2>1
  <2> QED BY <2>2 DEF p, Item
<1> QED BY <1>1, <1>2, <1>3, <1>4, <1>5 DEF Typed

----------------------------------------------------------------------------
(* The steps along a path.                                                  *)

\* The first item of a path is its function's beginning, and nothing else is
\* where nothing has been executed.
LEMMA FirstItem ==
  ASSUME IInv, OnPath, Item.kind # "start"
  PROVE  at # 1 /\ trace # <<>> /\ ~Calling(Last(trace))
<1>1. GoodPath(Path) /\ OnTheWay /\ at \in 1..Len(Path)
  BY Standing
<1>2. at # 1
  BY <1>1 DEF GoodPath, Item
<1> QED BY <1>1, <1>2 DEF OnTheWay, Noted, Entering

\* A step over one IR that is not a call.
LEMMA ParseStep ==
  ASSUME IInv, OnPath, Item.kind = "code", pos <= Len(Item.irs), Op(Ir).op # "call",
         Parsed, Grown, written' \subseteq Range(StateVars)
  PROVE  IInv'
<1>1. /\ pc = "walking" /\ id <= Len(work) /\ at \in 1..Len(Path)
      /\ Path \in Seq(Items) /\ OnTheWay /\ code \in Programs /\ Marked /\ Noted
  BY Standing DEF OnTheWay
<1>2. /\ UNCHANGED <<code, todo, pc, work, id, at, parsed>> /\ pos' = pos + 1 /\ trace' = Append(trace, Executed)
      /\ Path' = Path /\ Item' = Item
  BY DEF Parsed, Log, Path, Item
<1>3. PICK st : Held(st)
  BY <1>1 DEF OnTheWay
<1>4. /\ Executed \in Events
      /\ Here(st) \in Stacks
      /\ Ahead(st[at], pos) \in Stacks /\ Ahead(st[at], pos) \in Follow(Here(st), Executed)
      /\ Len(Ahead(st[at], pos)) = Len(Here(st))
      /\ \A i \in 1..Len(Here(st)) : Ahead(st[at], pos)[i].fn = Here(st)[i].fn
  BY <1>1, <1>3, IrNext DEF Held
<1>5. pos \in Nat /\ pos > 0 /\ at # 1 /\ trace # <<>> /\ ~Calling(Last(trace))
  BY <1>1, FirstItem DEF Marked
<1>6. Marked'
  <2>1. pos' \in Nat \ {0} /\ pos' > 1 /\ at \in 1..(Len(Path) + 1) /\ at <= Len(Path)
    BY <1>1, <1>2, <1>5 DEF Marked
  <2>2. Len(Item.irs) \in Nat
    BY <1>1, <1>3, CodeItem DEF Held, Item
  <2>3. pos' <= Len(Item.irs) + 1
    BY <1>2, <1>5, <2>2
  <2>4. ASSUME NEW k \in 1..(pos' - 1) PROVE Op(Item.irs[k]).op # "call"
    <3>1. k = pos \/ (k \in 1..(pos - 1) /\ pos > 1)
      BY <1>2, <1>5
    <3> QED BY <1>1, <3>1 DEF Marked, Ir
  <2> QED BY <1>2, <2>1, <2>3, <2>4, SameIrs DEF Marked
<1>7. Calling(Executed) = FALSE /\ Executed.do = "ir"
  BY DEF Calling, Executed
<1>8. trace \in Seq(Events) /\ Ordered(trace)
  BY <1>1 DEF Noted
<1>9. /\ trace' \in Seq(Events) /\ trace' # <<>> /\ Last(trace') = Executed
  <2>1. /\ Append(trace, Executed) \in Seq(Events) /\ Append(trace, Executed) # <<>>
        /\ Len(Append(trace, Executed)) = Len(trace) + 1 /\ Append(trace, Executed)[Len(trace) + 1] = Executed
    BY <1>4, <1>8, AppendProperties
  <2> QED BY <1>2, <2>1 DEF Last
<1>10. Ordered(trace')
  BY <1>2, <1>4, <1>5, <1>7, <1>8, OrderedOn
<1>11. Noted'
  <2>1. ~Entering'
    BY <1>2 DEF Entering
  <2>2. Ordered(trace)' <=> Ordered(trace')
    BY <1>2 DEF Ordered, Calling, Op
  <2>3. Calling(Last(trace))' <=> Calling(Executed)
    BY <1>2, <1>9, SameIrs DEF Calling, Op
  <2> QED BY <1>2, <1>5, <1>7, <1>9, <1>10, <2>1, <2>2, <2>3, SameIrs DEF Noted
<1>12. Held(st)'
  <2> DEFINE b == Ahead(st[at], pos)
  <2>1. Here(st)' = b
    <3>1. Here(st)' = IF pos' = 1 THEN st[at'] ELSE Ahead(st[at'], pos' - 1)
      BY DEF Here
    <3>2. pos' # 1 /\ pos' - 1 = pos /\ at' = at
      BY <1>2, <1>5
    <3> QED BY <3>1, <3>2
  <2>2. Stacked(Path, st)'
    BY <1>2, <1>3, PathsKept DEF Held, Grown, Stacked, None
  <2>3. Recorded(trace', b)
    BY <1>2, <1>3, <1>4, <1>8, Records DEF Held
  <2>4. Recorded(trace, Here(st))'
    <3>1. \A tr, c : Recorded(tr, c)' <=> Recorded(tr, c)
      BY <1>2, SamePaths
    <3> HIDE DEF b
    <3> QED BY <1>2, <2>1, <2>3, <3>1 DEF Recorded
  <2>5. Given(Here(st))'
    <3>1. DOMAIN b = 1..Len(Here(st)) /\ DOMAIN Here(st) = 1..Len(Here(st))
      BY <1>4 DEF Stacks
    <3>2. Given(Here(st))
      BY <1>3 DEF Held
    <3>3. \A i \in DOMAIN b : b[i].fn \notin Range(Entries) => P(b[i].fn) \in DOMAIN ctx
      BY <1>4, <3>1, <3>2 DEF Given
    <3> HIDE DEF b
    <3> QED BY <2>1, <3>3 DEF Given, Grown, P
  <2> QED BY <2>2, <2>4, <2>5 DEF Held
<1>13. OnTheWay'
  BY <1>6, <1>11, <1>12 DEF OnTheWay
<1> QED BY <1>1, <1>2, <1>13, StepAlong

\* A step from one item to the next, recorded by an event.
LEMMA Advance ==
  ASSUME IInv, OnPath, NEW st, Held(st),
         UNCHANGED <<code, todo, pc, work, id>>, at' = at + 1, pos' = 1,
         NEW e \in Events, trace' = Append(trace, e), st[at + 1] \in Follow(Here(st), e),
         Calling(e) <=> (at < Len(Path) /\ Path[at + 1].kind = "start"),
         Calling(e) => Op(e.ir).f = Path[at + 1].fn,
         trace # <<>> /\ Calling(Last(trace)) => e.do = "enter" /\ e.fn = Op(Last(trace).ir).f,
         e.do = "enter" => trace = <<>> \/ Calling(Last(trace)),
         \A i \in DOMAIN st[at + 1] : st[at + 1][i].fn \notin Range(Entries) => P(st[at + 1][i].fn) \in DOMAIN ctx',
         Grown, written' \subseteq Range(StateVars)
  PROVE  IInv'
<1>1. /\ pc = "walking" /\ id <= Len(work) /\ at \in 1..Len(Path) /\ Len(Path) \in Nat
      /\ Path \in Seq(Items) /\ code \in Programs /\ Noted
  BY Standing DEF OnTheWay
<1>2. Path' = Path
  BY DEF Path
<1>3. Marked'
  BY <1>1, <1>2 DEF Marked
<1>4. trace \in Seq(Events) /\ Ordered(trace) /\ st[at + 1] \in Stacks
  <2>1. st \in [1..(Len(Path) + 1) -> Stacks] /\ at + 1 \in 1..(Len(Path) + 1)
    BY <1>1 DEF Held, Stacked, Strung
  <2> QED BY <1>1, <2>1 DEF Noted
<1>5. /\ trace' \in Seq(Events) /\ trace' # <<>> /\ Last(trace') = e
  <2>1. /\ Append(trace, e) \in Seq(Events) /\ Append(trace, e) # <<>>
        /\ Len(Append(trace, e)) = Len(trace) + 1 /\ Append(trace, e)[Len(trace) + 1] = e
    BY <1>4, AppendProperties
  <2> QED BY <2>1 DEF Last
<1>6. Ordered(trace')
  BY <1>4, OrderedOn
<1>7. Noted'
  <2>1. Entering' <=> Calling(e)
    BY <1>1, <1>2 DEF Entering, Item
  <2>2. Ordered(trace)' <=> Ordered(trace')
    BY DEF Ordered, Calling, Op
  <2>3. Calling(Last(trace))' <=> Calling(e)
    BY <1>5, SameIrs DEF Calling, Op
  <2>4. at' # 1
    BY <1>1
  <2>5. Entering' => (Op(Last(trace).ir).f)' = Item'.fn
    <3>1. (Op(Last(trace).ir).f)' = Op(e.ir).f
      BY <1>5 DEF Op
    <3>2. Item' = Path[at + 1]
      BY <1>2 DEF Item
    <3> QED BY <2>1, <3>1, <3>2
  <2> QED BY <1>5, <1>6, <2>1, <2>2, <2>3, <2>4, <2>5, SameIrs DEF Noted
<1>8. Held(st)'
  <2> DEFINE b == st[at + 1]
  <2>1. Here(st)' = b
    BY DEF Here
  <2>2. Stacked(Path, st)'
    BY <1>2, PathsKept DEF Held, Grown, Stacked, None
  <2>3. Recorded(trace', b)
    BY <1>4, Records DEF Held
  <2>4. Recorded(trace, Here(st))'
    <3>1. \A tr, c : Recorded(tr, c)' <=> Recorded(tr, c)
      BY SamePaths
    <3> HIDE DEF b
    <3> QED BY <2>1, <2>3, <3>1 DEF Recorded
  <2>5. Given(Here(st))'
    <3>1. \A i \in DOMAIN b : b[i].fn \notin Range(Entries) => P(b[i].fn) \in DOMAIN ctx'
      OBVIOUS
    <3> HIDE DEF b
    <3> QED BY <2>1, <3>1 DEF Given, P
  <2> QED BY <2>2, <2>4, <2>5 DEF Held
<1>9. OnTheWay'
  BY <1>3, <1>7, <1>8 DEF OnTheWay
<1> QED BY <1>1, <1>9, StepAlong

\* At the beginning or the end of a function the walk is between two items.
LEMMA Between ==
  ASSUME IInv, OnPath, Item.kind # "code", NEW st, Held(st)
  PROVE  /\ pos = 1 /\ Here(st) = st[at] /\ st[at] \in Stacks /\ st[at + 1] \in Stacks
         /\ Fit(Item, After(Path, None, at), st[at], st[at + 1])
         /\ ~(at < Len(Path) /\ Path[at + 1].kind = "start")
<1>1. /\ at \in 1..Len(Path) /\ Len(Path) \in Nat /\ Marked
      /\ st \in [1..(Len(Path) + 1) -> Stacks]
      /\ Fit(Item, After(Path, None, at), st[at], st[at + 1])
  BY Standing DEF OnTheWay, Held, Stacked, Strung, Item
<1>2. pos = 1
  BY <1>1 DEF Marked
<1>3. at \in 1..(Len(Path) + 1) /\ at + 1 \in 1..(Len(Path) + 1)
  BY <1>1
<1>4. After(Path, None, at).kind # "start"
  BY <1>1 DEF Fit
<1> QED BY <1>1, <1>2, <1>3, <1>4 DEF Here, After

\* The callee's beginning.
LEMMA EnterStep ==
  ASSUME IInv, Enter
  PROVE  IInv'
<1> DEFINE e == [do |-> "enter", fn |-> Item.fn, ir |-> NoIr]
<1>1. /\ OnPath /\ Item.kind = "start" /\ at' = at + 1 /\ trace' = Append(trace, e)
      /\ IF Item.of = 0 THEN UNCHANGED <<ctx, heap>> ELSE New(P(Item.fn), heap[Item.of])
      /\ UNCHANGED <<code, todo, pc, work, id, pos, last, parsed, written, repeats>>
  BY DEF Enter
<1>2. PICK st : Held(st)
  BY <1>1, Standing DEF OnTheWay
<1>3. /\ pos = 1 /\ Here(st) = st[at] /\ st[at] \in Stacks /\ st[at + 1] \in Stacks
      /\ Fit(Item, After(Path, None, at), st[at], st[at + 1])
      /\ ~(at < Len(Path) /\ Path[at + 1].kind = "start")
  BY <1>1, <1>2, Between
<1>4. /\ Item \in Starts /\ Item.fn \in Functions /\ code \in Programs /\ TypeOK /\ Typed /\ Noted
      /\ IF Item.of = 0 THEN Item.fn \in Range(Entries) ELSE Item.of \in DOMAIN heap
  BY <1>1, Standing DEF Items, Starts, OnTheWay
<1>5. PICK j \in DOMAIN code[Item.fn].paths : st[at + 1] = Append(st[at], Begun(Item.fn, j))
  BY <1>1, <1>3 DEF Fit
<1>6. Grown /\ (Item.fn \notin Range(Entries) => P(Item.fn) \in DOMAIN ctx')
  <2>1. CASE Item.of = 0
    BY <1>1, <1>4, <2>1, NothingMoves
  <2>2. CASE Item.of # 0
    <3>1. heap[Item.of] \in Locations
      BY <1>4, <2>2 DEF Typed
    <3> QED BY <1>1, <1>4, <2>2, <3>1, NewGrows
  <2> QED BY <2>1, <2>2
<1>7. e \in Events /\ e.do = "enter" /\ e.fn = Item.fn /\ ~Calling(e)
  BY <1>4 DEF Events, Calling
<1>8. st[at + 1] \in Follow(Here(st), e)
  BY <1>3, <1>5, <1>7 DEF Follow
<1>9. /\ trace # <<>> /\ Calling(Last(trace)) => e.fn = Op(Last(trace).ir).f
      /\ trace = <<>> \/ Calling(Last(trace))
  <2>1. Entering
    BY <1>1 DEF Entering, OnPath
  <2> QED BY <1>4, <1>7, <2>1 DEF Noted
<1>10. ASSUME NEW i \in DOMAIN st[at + 1], st[at + 1][i].fn \notin Range(Entries)
       PROVE  P(st[at + 1][i].fn) \in DOMAIN ctx'
  <2> DEFINE s == st[at]
             a == Begun(Item.fn, j)
  <2>1. s \in Stacks /\ a \in Acts /\ st[at + 1] = Append(s, a) /\ a.fn = Item.fn
    BY <1>3, <1>4, <1>5, BegunTyped DEF Begun
  <2>2. Given(s)
    BY <1>2, <1>3 DEF Held
  <2> HIDE DEF s, a
  <2>3. /\ DOMAIN Append(s, a) = 1..(Len(s) + 1) /\ DOMAIN s = 1..Len(s) /\ Len(s) \in Nat
        /\ Append(s, a)[Len(s) + 1] = a /\ \A k \in 1..Len(s) : Append(s, a)[k] = s[k]
    BY <2>1 DEF Stacks
  <2>4. CASE i = Len(s) + 1
    BY <1>6, <1>10, <2>1, <2>3, <2>4
  <2>5. CASE i # Len(s) + 1
    <3>1. i \in 1..Len(s)
      BY <2>1, <2>3, <2>5
    <3>2. st[at + 1][i] = s[i] /\ s[i].fn \notin Range(Entries)
      BY <1>10, <2>1, <2>3, <3>1
    <3>3. P(s[i].fn) \in DOMAIN ctx
      BY <2>2, <2>3, <3>1, <3>2 DEF Given
    <3> QED BY <1>6, <3>2, <3>3 DEF Grown
  <2> QED BY <2>4, <2>5
<1>11. written' \subseteq Range(StateVars)
  BY <1>1, <1>4 DEF TypeOK
<1> HIDE DEF e
<1>12. pos' = 1 /\ UNCHANGED <<code, todo, pc, work, id>>
  BY <1>1, <1>3
<1> QED BY <1>1, <1>2, <1>3, <1>6, <1>7, <1>8, <1>9, <1>10, <1>11, <1>12, Advance

\* The callee's end.
LEMMA ExitStep ==
  ASSUME IInv, Exit
  PROVE  IInv'
<1> DEFINE e == [do |-> "exit", fn |-> Item.fn, ir |-> NoIr]
<1>1. /\ OnPath /\ Item.kind = "end" /\ at' = at + 1 /\ trace' = Append(trace, e)
      /\ \/ Has(P(last[1])) /\ Bind(Item.of, ctx[P(last[1])])
         \/ UNCHANGED <<ctx, heap>>
      /\ UNCHANGED <<code, todo, pc, work, id, pos, last, parsed, written, repeats>>
  BY DEF Exit
<1>2. PICK st : Held(st)
  BY <1>1, Standing DEF OnTheWay
<1>3. /\ pos = 1 /\ Here(st) = st[at] /\ st[at] \in Stacks /\ st[at + 1] \in Stacks
      /\ Fit(Item, After(Path, None, at), st[at], st[at + 1])
      /\ ~(at < Len(Path) /\ Path[at + 1].kind = "start")
  BY <1>1, <1>2, Between
<1>4. /\ Item \in Items /\ Item.fn \in Functions /\ code \in Programs /\ TypeOK /\ Typed /\ Noted
  BY <1>1, Standing DEF Items, Starts, OnTheWay
<1>5. /\ st[at] # <<>> /\ Last(st[at]).fn = Item.fn /\ Last(st[at]).done = Len(Line(Last(st[at])))
      /\ st[at + 1] = Front(st[at])
  BY <1>1, <1>3 DEF Fit
<1>6. Grown
  <2>1. CASE Has(P(last[1])) /\ Bind(Item.of, ctx[P(last[1])])
    <3>1. ctx[P(last[1])] \in DOMAIN heap
      BY <1>4, <2>1 DEF Has, TypeOK
    <3> QED BY <1>4, <2>1, <3>1, BindGrows
  <2>2. CASE UNCHANGED <<ctx, heap>>
    BY <1>4, <2>2, NothingMoves
  <2> QED BY <1>1, <2>1, <2>2
<1>7. e \in Events /\ e.do = "exit" /\ e.fn = Item.fn /\ ~Calling(e)
  BY <1>4 DEF Events, Calling
<1>8. st[at + 1] \in Follow(Here(st), e)
  BY <1>3, <1>5, <1>7 DEF Follow
<1>9. trace # <<>> /\ ~Calling(Last(trace))
  BY <1>1, FirstItem
<1>10. ASSUME NEW i \in DOMAIN st[at + 1], st[at + 1][i].fn \notin Range(Entries)
       PROVE  P(st[at + 1][i].fn) \in DOMAIN ctx'
  <2> DEFINE s == st[at]
             b == st[at + 1]
  <2>1. s \in Stacks /\ s # <<>> /\ b = Front(s) /\ b \in Stacks /\ Given(s)
    BY <1>2, <1>3, <1>5 DEF Held
  <2>2. i \in DOMAIN b /\ b[i].fn \notin Range(Entries)
    BY <1>10
  <2> HIDE DEF s, b
  <2>3. Len(b) = Len(s) - 1 /\ \A k \in 1..Len(b) : b[k] = s[k]
    BY <2>1, Popped
  <2>4. DOMAIN b = 1..Len(b) /\ DOMAIN s = 1..Len(s) /\ Len(s) \in Nat /\ Len(b) \in Nat
    BY <2>1 DEF Stacks
  <2>5. i \in 1..Len(b) /\ i \in DOMAIN s
    BY <2>2, <2>3, <2>4
  <2>6. b[i] = s[i] /\ P(s[i].fn) \in DOMAIN ctx
    BY <2>1, <2>2, <2>3, <2>5 DEF Given
  <2>7. P(b[i].fn) \in DOMAIN ctx'
    BY <1>6, <2>6 DEF Grown
  <2> QED BY <2>7 DEF b
<1>11. written' \subseteq Range(StateVars)
  BY <1>1, <1>4 DEF TypeOK
<1> HIDE DEF e
<1>12. pos' = 1 /\ UNCHANGED <<code, todo, pc, work, id>>
  BY <1>1, <1>3
<1> QED BY <1>1, <1>2, <1>3, <1>6, <1>7, <1>8, <1>9, <1>10, <1>11, <1>12, Advance

\* The place of a call within its node.
LEMMA CallPlace ==
  ASSUME code \in Programs, Path \in Seq(Items), Marked, at <= Len(Path), Item.kind = "code",
         Item.irs \in Seq(IrIds), pos <= Len(Item.irs), Op(Ir).op = "call"
  PROVE  FirstCall(Item.irs, pos) /\ \A m : FirstCall(Item.irs, m) => m = pos
<1> DEFINE irs == Item.irs
<1>1. irs \in Seq(IrIds) /\ pos \in 1..Len(irs) /\ DOMAIN irs = 1..Len(irs) /\ Len(irs) \in Nat
      /\ Op(irs[pos]).op = "call" /\ \A k \in 1..(pos - 1) : Op(irs[k]).op # "call"
  BY DEF Marked, Ir
<1> HIDE DEF irs
<1>2. ASSUME NEW m, FirstCall(irs, m) PROVE m = pos
  <2>1. m \in 1..Len(irs) /\ Op(irs[m]).op = "call" /\ \A k \in 1..(m - 1) : Op(irs[k]).op # "call"
    BY <1>1, <1>2 DEF FirstCall
  <2>2. ~(m \in 1..(pos - 1)) /\ ~(pos \in 1..(m - 1))
    BY <1>1, <2>1
  <2>3. m \in Nat /\ pos \in Nat /\ m >= 1 /\ pos >= 1
    BY <1>1, <2>1
  <2> QED BY <2>2, <2>3
<1>3. FirstCall(irs, pos)
  BY <1>1 DEF FirstCall
<1> QED BY <1>2, <1>3 DEF irs

\* The place of the walk within a node.
LEMMA InNode ==
  ASSUME IInv, OnPath, Item.kind = "code", NEW st, Held(st)
  PROVE  /\ at < Len(Path) /\ Item.irs \in Seq(IrIds) /\ Len(Item.irs) \in Nat
         /\ st[at] \in Stacks /\ st[at + 1] \in Stacks /\ st[at] # <<>>
         /\ \E m \in 0..Len(Item.irs) :
              /\ Does(Item.irs, m, st[at], st[at + 1])
              /\ IF Path[at + 1].kind = "start"
                 THEN FirstCall(Item.irs, m) /\ Op(Item.irs[m]).f = Path[at + 1].fn
                 ELSE m = Len(Item.irs)
<1>1. at \in 1..Len(Path) /\ Path \in Seq(Items) /\ code \in Programs
  BY Standing
<1>2. /\ at < Len(Path) /\ Item.irs \in Seq(IrIds)
      /\ st[at] \in Stacks /\ st[at + 1] \in Stacks /\ st[at] # <<>>
      /\ \E m \in 0..Len(Item.irs) :
           /\ Does(Item.irs, m, st[at], st[at + 1])
           /\ IF Path[at + 1].kind = "start"
              THEN FirstCall(Item.irs, m) /\ Op(Item.irs[m]).f = Path[at + 1].fn
              ELSE m = Len(Item.irs)
  BY <1>1, CodeItem DEF Held, Item
<1>3. Len(Item.irs) \in Nat
  BY <1>2
<1> QED BY <1>2, <1>3

\* Going on within the last activation gives no other.
LEMMA StillGiven ==
  ASSUME NEW c \in Stacks, NEW b \in Stacks, Given(c), Grown, Len(b) = Len(c),
         \A i \in 1..Len(c) : b[i].fn = c[i].fn
  PROVE  \A i \in DOMAIN b : b[i].fn \notin Range(Entries) => P(b[i].fn) \in DOMAIN ctx'
<1>1. DOMAIN b = 1..Len(b) /\ DOMAIN c = 1..Len(c)
  BY DEF Stacks
<1> QED BY <1>1 DEF Given, Grown

\* A call whose callee is in the path.
LEMMA HopStep ==
  ASSUME IInv, Hop
  PROVE  IInv'
<1>1. /\ OnPath /\ Item.kind = "code" /\ pos <= Len(Item.irs) /\ Op(Ir).op = "call"
      /\ at < Len(Path) /\ Path[at + 1].kind = "start"
      /\ at' = at + 1 /\ pos' = 1 /\ trace' = Append(trace, Executed)
      /\ UNCHANGED <<code, todo, pc, work, id, parsed, ctx, heap, written>>
  BY DEF Hop, At, Expanded, Log
<1>2. PICK st : Held(st)
  BY <1>1, Standing DEF OnTheWay
<1>3. /\ at \in 1..Len(Path) /\ Path \in Seq(Items) /\ code \in Programs /\ TypeOK /\ Typed /\ Marked /\ at <= Len(Path)
  BY <1>1, Standing DEF OnTheWay
<1>4. PICK m \in 0..Len(Item.irs) :
         /\ Item.irs \in Seq(IrIds) /\ Does(Item.irs, m, st[at], st[at + 1])
         /\ FirstCall(Item.irs, m) /\ Op(Item.irs[m]).f = Path[at + 1].fn
  BY <1>1, <1>2, InNode
<1>5. m = pos
  BY <1>1, <1>3, <1>4, CallPlace
<1>6. st[at + 1] = Ahead(st[at], pos) /\ Op(Ir).f = Path[at + 1].fn
  BY <1>4, <1>5 DEF Does, Ir
<1>7. /\ Executed \in Events /\ Here(st) \in Stacks
      /\ Ahead(st[at], pos) \in Stacks /\ Ahead(st[at], pos) \in Follow(Here(st), Executed)
      /\ Len(Ahead(st[at], pos)) = Len(Here(st))
      /\ \A i \in 1..Len(Here(st)) : Ahead(st[at], pos)[i].fn = Here(st)[i].fn
  BY <1>1, <1>2, <1>3, IrNext DEF Held
<1>8. Calling(Executed) /\ Executed.do = "ir" /\ Executed.ir = Ir
  BY <1>1 DEF Calling, Executed
<1>9. trace # <<>> /\ ~Calling(Last(trace))
  BY <1>1, FirstItem
<1>10. Grown
  BY <1>1, <1>3, NothingMoves
<1>11. \A i \in DOMAIN st[at + 1] : st[at + 1][i].fn \notin Range(Entries) => P(st[at + 1][i].fn) \in DOMAIN ctx'
  <2> DEFINE b == st[at + 1]
             c == Here(st)
  <2>1. /\ b \in Stacks /\ c \in Stacks /\ Given(c) /\ Len(b) = Len(c) /\ \A i \in 1..Len(c) : b[i].fn = c[i].fn
    BY <1>2, <1>6, <1>7 DEF Held
  <2> HIDE DEF b, c
  <2>2. \A i \in DOMAIN b : b[i].fn \notin Range(Entries) => P(b[i].fn) \in DOMAIN ctx'
    BY <1>10, <2>1, StillGiven
  <2> QED BY <2>2 DEF b
<1>12. written' \subseteq Range(StateVars) /\ UNCHANGED <<code, todo, pc, work, id>>
  BY <1>1, <1>3 DEF TypeOK
<1>13. st[at + 1] \in Follow(Here(st), Executed)
  BY <1>6, <1>7
<1>14. /\ Calling(Executed) <=> (at < Len(Path) /\ Path[at + 1].kind = "start")
       /\ Calling(Executed) => Op(Executed.ir).f = Path[at + 1].fn
       /\ Executed.do # "enter"
  BY <1>1, <1>6, <1>8
<1> QED BY <1>1, <1>2, <1>7, <1>9, <1>10, <1>11, <1>12, <1>13, <1>14, Advance

\* From the end of a node to the next item.
LEMMA LeaveStep ==
  ASSUME IInv, LeaveNode
  PROVE  IInv'
<1>1. /\ OnPath /\ Item.kind = "code" /\ pos > Len(Item.irs) /\ at' = at + 1 /\ pos' = 1
      /\ UNCHANGED <<code, todo, pc, work, id, last, parsed, ctx, heap, written, trace, repeats>>
  BY DEF LeaveNode
<1>2. PICK st : Held(st)
  BY <1>1, Standing DEF OnTheWay
<1>3. /\ pc = "walking" /\ id <= Len(work) /\ at \in 1..Len(Path) /\ Len(Path) \in Nat
      /\ Path \in Seq(Items) /\ code \in Programs /\ TypeOK /\ Typed /\ Marked /\ Noted
  BY <1>1, Standing DEF OnTheWay
<1>4. PICK m \in 0..Len(Item.irs) :
         /\ at < Len(Path) /\ Len(Item.irs) \in Nat
         /\ st[at] \in Stacks /\ st[at + 1] \in Stacks /\ st[at] # <<>>
         /\ Does(Item.irs, m, st[at], st[at + 1])
         /\ IF Path[at + 1].kind = "start" THEN FirstCall(Item.irs, m) ELSE m = Len(Item.irs)
  BY <1>1, <1>2, InNode
<1>5. pos \in Nat /\ pos > 0 /\ pos = Len(Item.irs) + 1 /\ \A k \in 1..Len(Item.irs) : Op(Item.irs[k]).op # "call"
  <2>1. CASE pos > 1
    <3>1. pos <= Len(Item.irs) + 1 /\ \A k \in 1..(pos - 1) : Op(Item.irs[k]).op # "call"
      BY <1>3, <2>1 DEF Marked
    <3>2. pos \in Nat /\ pos = Len(Item.irs) + 1
      <4> DEFINE n == Len(Item.irs)
      <4>1. n \in Nat /\ pos \in Nat /\ pos > n /\ pos <= n + 1
        BY <1>1, <1>3, <1>4, <3>1 DEF Marked
      <4> HIDE DEF n
      <4>2. pos = n + 1
        BY <4>1
      <4> QED BY <4>1, <4>2 DEF n
    <3>3. pos - 1 = Len(Item.irs)
      BY <1>4, <3>2
    <3> QED BY <1>4, <3>1, <3>2, <3>3
  <2>2. CASE ~(pos > 1)
    <3>1. pos = 1 /\ Len(Item.irs) = 0
      BY <1>1, <1>3, <1>4, <2>2 DEF Marked
    <3> QED BY <3>1
  <2> QED BY <2>1, <2>2
<1>6. Path[at + 1].kind # "start" /\ m = Len(Item.irs)
  <2>1. ~FirstCall(Item.irs, m)
    <3>1. FirstCall(Item.irs, m) => m \in 1..Len(Item.irs) /\ Op(Item.irs[m]).op = "call"
      <4>1. Item.irs \in Seq(IrIds)
        BY <1>1, <1>2, InNode
      <4>2. DOMAIN Item.irs = 1..Len(Item.irs)
        BY <4>1
      <4> QED BY <4>2 DEF FirstCall
    <3> QED BY <1>5, <3>1
  <2> QED BY <1>4, <2>1
<1>7. Here(st) = st[at + 1]
  <2> DEFINE s == st[at]
             n == Len(Item.irs)
  <2>1. s \in Stacks /\ s # <<>> /\ st[at + 1] = Ahead(s, n) /\ n \in Nat /\ pos = n + 1
    BY <1>4, <1>5, <1>6 DEF Does
  <2>2. Here(st) = IF pos = 1 THEN s ELSE Ahead(s, pos - 1)
    BY DEF Here
  <2> HIDE DEF s, n
  <2>3. Ahead(s, 0) = s
    BY <2>1, Further
  <2>4. CASE pos = 1
    <3>1. n = 0
      BY <2>1, <2>4
    <3> QED BY <2>1, <2>2, <2>3, <2>4, <3>1
  <2>5. CASE pos # 1
    <3>1. pos - 1 = n
      BY <2>1
    <3> QED BY <2>1, <2>2, <2>5, <3>1
  <2> QED BY <2>4, <2>5
<1>8. Path' = Path /\ Grown /\ written' \subseteq Range(StateVars)
  BY <1>1, <1>3, NothingMoves DEF Path, TypeOK
<1>9. trace # <<>> /\ ~Calling(Last(trace))
  BY <1>1, FirstItem
<1>10. Marked'
  BY <1>1, <1>3, <1>8 DEF Marked
<1>11. Noted'
  <2>1. ~Entering' /\ at' # 1
    BY <1>1, <1>3, <1>6, <1>8 DEF Entering, Item
  <2>2. Ordered(trace)' <=> Ordered(trace)
    BY <1>1 DEF Ordered, Calling, Op
  <2>3. Calling(Last(trace))' <=> Calling(Last(trace))
    BY <1>1 DEF Calling, Op
  <2> QED BY <1>1, <1>3, <1>9, <2>1, <2>2, <2>3, SameIrs DEF Noted
<1>12. Held(st)'
  <2>1. Here(st)' = Here(st)
    BY <1>1, <1>7 DEF Here
  <2>2. Stacked(Path, st)'
    BY <1>1, <1>2, <1>8, PathsKept DEF Held, Grown, Stacked, None
  <2>3. Recorded(trace, Here(st))'
    <3>1. \A tr, c : Recorded(tr, c)' <=> Recorded(tr, c)
      BY <1>1, SamePaths
    <3> DEFINE c == Here(st)
    <3>2. Recorded(trace', c) /\ Here(st)' = c
      BY <1>1, <1>2, <2>1 DEF Held
    <3> HIDE DEF c
    <3> QED BY <3>1, <3>2 DEF Recorded
  <2>4. Given(Here(st))'
    BY <1>1, <1>2, <2>1 DEF Held, Given, P
  <2> QED BY <2>2, <2>3, <2>4 DEF Held
<1>13. OnTheWay'
  BY <1>10, <1>11, <1>12 DEF OnTheWay
<1> QED BY <1>1, <1>3, <1>8, <1>13, StepAlong

----------------------------------------------------------------------------
(* The steps over IRs that are no calls.                                    *)

\* What every such step gives.
LEMMA AtIr ==
  ASSUME IInv, NEW op, At(op), op # "call"
  PROVE  /\ OnPath /\ Item.kind = "code" /\ pos <= Len(Item.irs) /\ Op(Ir).op = op /\ Op(Ir).op # "call"
         /\ TypeOK /\ Typed /\ Walking /\ Ir \in IrIds /\ code \in Programs
<1>1. OnPath /\ Item.kind = "code" /\ pos <= Len(Item.irs) /\ Op(Ir).op = op /\ Op(Ir).op # "call"
  BY DEF At
<1>2. /\ pc = "walking" /\ TypeOK /\ Typed /\ OnTheWay /\ code \in Programs /\ at <= Len(Path) /\ Path \in Seq(Items)
  BY <1>1, Standing
<1>3. PICK st : Held(st)
  BY <1>2 DEF OnTheWay
<1>4. Ir \in IrIds
  BY <1>1, <1>2, <1>3, IrNext DEF Held, OnTheWay
<1> QED BY <1>1, <1>2, <1>4 DEF IInv

\* A location that is known is a state variable's.
LEMMA KnownLocs ==
  ASSUME NEW S, S \subseteq Locations
  PROVE  Known(S) \subseteq Range(StateVars)
  BY DEF Known, Locations

\* A field is read.
LEMMA ReadStep ==
  ASSUME IInv, Read
  PROVE  IInv'
<1>1. At("read") /\ Parsed /\ written' = written \cup Known({Loc(Ir)}) /\ New(Ir, Loc(P(Fn)))
  BY DEF Read
<1>2. /\ OnPath /\ Item.kind = "code" /\ pos <= Len(Item.irs) /\ Op(Ir).op # "call" /\ TypeOK /\ Typed
  BY <1>1, AtIr
<1>3. Loc(Ir) \in Locations /\ Loc(P(Fn)) \in Locations
  BY <1>2, LocTyped
<1>4. Grown
  BY <1>1, <1>2, <1>3, NewGrows
<1>5. Known({Loc(Ir)}) \subseteq Range(StateVars)
  BY <1>3, KnownLocs
<1>6. written' \subseteq Range(StateVars)
  BY <1>1, <1>2, <1>5 DEF TypeOK
<1> QED BY <1>1, <1>2, <1>4, <1>6, ParseStep

\* A field is written.
LEMMA WriteStep ==
  ASSUME IInv, Write
  PROVE  IInv'
<1>1. At("write") /\ Parsed /\ written' = written \cup Known({Loc(Ir), Loc(P(Fn))}) /\ New(Ir, Loc(P(Fn)))
  BY DEF Write
<1>2. /\ OnPath /\ Item.kind = "code" /\ pos <= Len(Item.irs) /\ Op(Ir).op # "call" /\ TypeOK /\ Typed
  BY <1>1, AtIr
<1>3. Loc(Ir) \in Locations /\ Loc(P(Fn)) \in Locations
  BY <1>2, LocTyped
<1>4. Grown
  BY <1>1, <1>2, <1>3, NewGrows
<1>5. Known({Loc(Ir), Loc(P(Fn))}) \subseteq Range(StateVars)
  BY <1>3, KnownLocs
<1>6. written' \subseteq Range(StateVars)
  BY <1>1, <1>2, <1>5 DEF TypeOK
<1> QED BY <1>1, <1>2, <1>4, <1>6, ParseStep

\* The pointer is set to a state variable.
LEMMA PointStep ==
  ASSUME IInv, Point
  PROVE  IInv'
<1>1. /\ At("point") /\ Parsed /\ written' = written \cup Known({Loc(P(Fn))})
      /\ Assigned(P(Fn), ctx[V(Op(Ir).v)])
  BY DEF Point
<1>2. /\ OnPath /\ Item.kind = "code" /\ pos <= Len(Item.irs) /\ Op(Ir).op # "call" /\ TypeOK /\ Typed
      /\ Walking /\ Ir \in IrIds /\ code \in Programs /\ Op(Ir).op = "point"
  BY <1>1, AtIr
<1>3. Op(Ir).v \in Range(StateVars)
  BY <1>2, CallIr
<1>4. ctx[V(Op(Ir).v)] \in DOMAIN heap
  BY <1>2, <1>3 DEF Walking, TypeOK
<1>5. Grown
  BY <1>1, <1>2, <1>4, AssignedGrows
<1>6. Loc(P(Fn)) \in Locations
  BY <1>2, LocTyped
<1>7. Known({Loc(P(Fn))}) \subseteq Range(StateVars)
  BY <1>6, KnownLocs
<1>8. written' \subseteq Range(StateVars)
  BY <1>1, <1>2, <1>7 DEF TypeOK
<1> QED BY <1>1, <1>2, <1>5, <1>8, ParseStep

\* The result of the call before is taken.
LEMMA TakeStep ==
  ASSUME IInv, Take
  PROVE  IInv'
<1>1. /\ At("take") /\ Parsed
      /\ IF Has(CallBefore) THEN Assigned(Q(Fn), ctx[CallBefore]) ELSE New(Q(Fn), Loc(Q(Fn)))
      /\ written' = written \cup Known({Loc(Q(Fn)), heap'[ctx'[Q(Fn)]]})
  BY DEF Take
<1>2. /\ OnPath /\ Item.kind = "code" /\ pos <= Len(Item.irs) /\ Op(Ir).op # "call" /\ TypeOK /\ Typed
  BY <1>1, AtIr
<1>3. Loc(Q(Fn)) \in Locations
  BY <1>2, LocTyped
<1>4. Grown /\ Q(Fn) \in DOMAIN ctx'
  <2>1. CASE Has(CallBefore)
    <3>1. ctx[CallBefore] \in DOMAIN heap
      BY <1>2, <2>1 DEF Has, TypeOK
    <3> QED BY <1>1, <1>2, <2>1, <3>1, AssignedGrows
  <2>2. CASE ~Has(CallBefore)
    BY <1>1, <1>2, <1>3, <2>2, NewGrows
  <2> QED BY <2>1, <2>2
<1>5. heap'[ctx'[Q(Fn)]] \in Locations
  BY <1>4 DEF Grown
<1>6. Known({Loc(Q(Fn)), heap'[ctx'[Q(Fn)]]}) \subseteq Range(StateVars)
  BY <1>3, <1>5, KnownLocs
<1>7. written' \subseteq Range(StateVars)
  BY <1>1, <1>2, <1>6 DEF TypeOK
<1> QED BY <1>1, <1>2, <1>4, <1>7, ParseStep

\* The pointer is returned.
LEMMA RetStep ==
  ASSUME IInv, Ret
  PROVE  IInv'
<1>1. At("ret") /\ Parsed /\ UNCHANGED <<ctx, heap, written>>
  BY DEF Ret
<1>2. /\ OnPath /\ Item.kind = "code" /\ pos <= Len(Item.irs) /\ Op(Ir).op # "call" /\ TypeOK /\ Typed
  BY <1>1, AtIr
<1>3. Grown /\ written' \subseteq Range(StateVars)
  BY <1>1, <1>2, NothingMoves DEF TypeOK
<1> QED BY <1>1, <1>2, <1>3, ParseStep

----------------------------------------------------------------------------
(* A call is expanded.                                                      *)

\* In new, the items of b have taken the place of the i-th of w.
Instead(new, w, i, b) == /\ Len(new) >= Len(w) /\ new[i] = b[1]
                         /\ \A j \in DOMAIN new : \/ j < i /\ j \in DOMAIN w /\ new[j] = w[j]
                                                  \/ j = i
                                                  \/ j > i /\ \E k \in 2..Len(b) : new[j] = b[k]
                                                  \/ j > i /\ \E k \in (i + 1)..Len(w) : new[j] = w[k]

\* What the list becomes where others take the place of an item.
LEMMA Replaced ==
  ASSUME NEW T, NEW w \in Seq(T), NEW i \in 1..Len(w), NEW b \in Seq(T), b # <<>>
  PROVE  LET new == SubSeq(w, 1, i - 1) \o b \o SubSeq(w, i + 1, Len(w))
         IN  new \in Seq(T) /\ Instead(new, w, i, b)
<1> DEFINE n == Len(w)
           l == Len(b)
           A == SubSeq(w, 1, i - 1)
           E == SubSeq(w, i + 1, n)
           Ab == A \o b
           new == Ab \o E
           h == i - 1
           r == n - i
<1>1. n \in Nat /\ l \in Nat /\ l > 0 /\ i \in Nat /\ i > 0 /\ i <= n /\ h \in Nat /\ r \in Nat
  <2>1. l > 0
    BY EmptySeq
  <2> QED BY <2>1
<1>2. A \in Seq(T) /\ Len(A) = h /\ \A k \in 1..h : A[k] = w[k]
  <2> HIDE DEF n
  <2>1. \A k \in 1..(i - 1) : w[k] \in T
    <3>1. \A k \in 1..(i - 1) : k \in 1..n
      BY <1>1
    <3> QED BY <3>1 DEF n
  <2>2. 1 \in Int /\ i - 1 \in Int
    BY <1>1
  <2>3. /\ SubSeq(w, 1, i - 1) \in Seq(T)
        /\ Len(SubSeq(w, 1, i - 1)) = IF 1 <= i - 1 THEN (i - 1) - 1 + 1 ELSE 0
        /\ \A k \in 1..((i - 1) - 1 + 1) : SubSeq(w, 1, i - 1)[k] = w[1 + k - 1]
    BY <2>1, <2>2, SubSeqProperties
  <2>4. (i - 1) - 1 + 1 = h /\ (h = 0 \/ 1 <= h) /\ \A k \in 1..h : 1 + k - 1 = k
    BY <1>1
  <2> QED BY <2>3, <2>4, <1>1
<1>3. E \in Seq(T) /\ Len(E) = r /\ \A k \in 1..r : E[k] = w[i + k]
  <2> HIDE DEF n
  <2>1. \A k \in (i + 1)..n : w[k] \in T
    <3>1. \A k \in (i + 1)..n : k \in 1..n
      BY <1>1
    <3> QED BY <3>1 DEF n
  <2>2. i + 1 \in Int /\ n \in Int
    BY <1>1
  <2>3. /\ SubSeq(w, i + 1, n) \in Seq(T)
        /\ Len(SubSeq(w, i + 1, n)) = IF i + 1 <= n THEN n - (i + 1) + 1 ELSE 0
        /\ \A k \in 1..(n - (i + 1) + 1) : SubSeq(w, i + 1, n)[k] = w[(i + 1) + k - 1]
    BY <2>1, <2>2, SubSeqProperties
  <2>4. n - (i + 1) + 1 = r /\ (r = 0 \/ i + 1 <= n) /\ (i + 1 <= n => r > 0) /\ \A k \in 1..r : (i + 1) + k - 1 = i + k
    BY <1>1
  <2>5. ~(i + 1 <= n) => r = 0
    BY <1>1
  <2> QED BY <2>3, <2>4, <2>5
<1> HIDE DEF A, E
<1>4. /\ Ab \in Seq(T) /\ Len(Ab) = h + l
      /\ \A k \in 1..h : Ab[k] = A[k]
      /\ \A k \in 1..l : Ab[h + k] = b[k]
  <2>1. A \in Seq(T) /\ b \in Seq(T)
    BY <1>2
  <2> HIDE DEF n, l, h, r, Ab, new
  <2>2. /\ A \o b \in Seq(T) /\ Len(A \o b) = Len(A) + Len(b)
        /\ \A k \in 1..Len(A) : (A \o b)[k] = A[k]
        /\ \A k \in 1..Len(b) : (A \o b)[Len(A) + k] = b[k]
    BY <2>1, OneMore
  <2> QED BY <1>2, <2>2 DEF l, Ab
<1> HIDE DEF Ab
<1>5. /\ new \in Seq(T) /\ Len(new) = (h + l) + r
      /\ \A k \in 1..(h + l) : new[k] = Ab[k]
      /\ \A k \in 1..r : new[(h + l) + k] = E[k]
  <2>1. Ab \in Seq(T) /\ E \in Seq(T)
    BY <1>3, <1>4
  <2> HIDE DEF n, l, h, r, new
  <2>2. /\ Ab \o E \in Seq(T) /\ Len(Ab \o E) = Len(Ab) + Len(E)
        /\ \A k \in 1..Len(Ab) : (Ab \o E)[k] = Ab[k]
        /\ \A k \in 1..Len(E) : (Ab \o E)[Len(Ab) + k] = E[k]
    BY <2>1, OneMore
  <2> QED BY <1>3, <1>4, <2>2 DEF new
<1> HIDE DEF new
<1>6. DOMAIN new = 1..((h + l) + r) /\ DOMAIN w = 1..n /\ Len(new) >= n
  <2>1. DOMAIN new = 1..((h + l) + r) /\ DOMAIN w = 1..n
    BY <1>5
  <2> HIDE DEF n, l
  <2>2. (h + l) + r >= n
    BY <1>1
  <2> QED BY <1>5, <2>1, <2>2
<1> HIDE DEF n, l
<1>7. new[i] = b[1]
  <2>1. i \in 1..(h + l) /\ h + 1 = i /\ 1 \in 1..l
    BY <1>1
  <2> QED BY <1>4, <1>5, <2>1
<1>8. ASSUME NEW j \in DOMAIN new
      PROVE  \/ j < i /\ j \in DOMAIN w /\ new[j] = w[j]
             \/ j = i
             \/ j > i /\ \E k \in 2..l : new[j] = b[k]
             \/ j > i /\ \E k \in (i + 1)..n : new[j] = w[k]
  <2>1. CASE j < i
    <3>1. j \in 1..h /\ j \in 1..(h + l) /\ j \in 1..n
      BY <1>1, <1>6, <2>1
    <3> QED BY <1>2, <1>4, <1>5, <1>6, <2>1, <3>1
  <2>2. CASE j > i /\ j <= h + l
    <3>1. j \in 1..(h + l) /\ j - h \in 2..l /\ j - h \in 1..l /\ h + (j - h) = j
      BY <1>1, <1>6, <2>2
    <3>2. new[j] = b[j - h]
      BY <1>4, <1>5, <3>1
    <3> QED BY <2>2, <3>1, <3>2
  <2>3. CASE j > h + l
    <3> DEFINE k == j - (h + l)
    <3>1. k \in 1..r /\ (h + l) + k = j /\ i + k \in (i + 1)..n /\ j > i
      BY <1>1, <1>6, <2>3
    <3> HIDE DEF k
    <3>2. new[j] = w[i + k]
      BY <1>3, <1>5, <3>1
    <3> QED BY <3>1, <3>2
  <2>4. j \in Nat /\ h + l \in Nat /\ h + l >= i
    BY <1>1, <1>6
  <2> QED BY <1>1, <2>1, <2>2, <2>3, <2>4
<1>9. new \in Seq(T) /\ Instead(new, w, i, b)
  BY <1>5, <1>6, <1>7, <1>8 DEF Instead, n, l
<1> QED BY <1>9 DEF new, Ab, A, E, n

\* What Splice gives for a whole path.
LEMMA SpliceWhole ==
  ASSUME code \in Programs, NEW p \in Seq(Items), NEW st, Stacked(p, st), NEW n, NEW m, CallAt(p, n, m),
         NEW i, NEW arg, NEW c, CalleePath(c, p[n].irs[m], i, arg)
  PROVE  LET q == Spliced4(p, n, m, c)
         IN  /\ Branches(q, p, n, Op(p[n].irs[m]).f, arg)
             /\ \E u : Stacked(q, u) /\ u[n + 1] = Ahead(st[n], m)
<1> DEFINE q == Spliced4(p, n, m, c)
<1>1. Strung(p, None, st) /\ st[1] = <<>> /\ st[Len(p) + 1] = <<>> /\ 1 \in 1..n
  BY DEF Stacked, CallAt
<1>2. Strung(p, None, st)
  BY <1>1
<1>3. /\ Branches(q, p, n, Op(p[n].irs[m]).f, arg)
      /\ \E u : /\ Strung(q, None, u) /\ Begins(u, st, n, Ahead(st[n], m))
                /\ u[Len(q) + 1] = st[Len(p) + 1]
  BY <1>2, Splice
<1> HIDE DEF q
<1>4. PICK u : /\ Strung(q, None, u) /\ Begins(u, st, n, Ahead(st[n], m))
               /\ u[Len(q) + 1] = st[Len(p) + 1]
  BY <1>3
<1>5. Stacked(q, u) /\ u[n + 1] = Ahead(st[n], m)
  BY <1>1, <1>4 DEF Stacked, Begins
<1> QED BY <1>3, <1>5 DEF q

\* The paths that take the place of this one: good ones, the same up to the
\* call, where they enter the callee.
LEMMA SplicedPaths ==
  ASSUME IInv, OnPath, Item.kind = "code", pos <= Len(Item.irs), Op(Ir).op = "call", ~Expanded, NEW st, Held(st)
  PROVE  /\ Children # <<>> /\ DOMAIN Children = 1..Len(Children) /\ Len(Children) \in Nat
         /\ \A i \in DOMAIN Children :
              LET q == Spliced(Children[i])
              IN  /\ GoodPath(q) /\ at + 1 \in 1..Len(q)
                  /\ q[at + 1].kind = "start" /\ q[at + 1].fn = Op(Ir).f
                  /\ \E u : Stacked(q, u) /\ u[at + 1] = Ahead(st[at], pos)
<1> DEFINE f == Op(Ir).f
           arg == Argument(Op(Ir), Fn)
           n == Len(code[f].paths)
           all == PathsOf(f, arg, Ir)
<1>1. /\ pc = "walking" /\ at \in 1..Len(Path) /\ Path \in Seq(Items) /\ GoodPath(Path)
      /\ OnTheWay /\ Marked /\ code \in Programs /\ TypeOK /\ Typed /\ Len(Path) \in Nat
  BY Standing DEF OnTheWay
<1>2. at < Len(Path) /\ Item.irs \in Seq(IrIds) /\ Path[at + 1].kind # "start"
  BY InNode DEF Expanded
<1>3. /\ Ir \in IrIds /\ Here(st) \in Stacks /\ Here(st) # <<>> /\ Last(Here(st)).fn = Fn
  BY <1>1, IrNext DEF Held
<1>4. /\ f \in Functions /\ Fn = Ir[1]
      /\ Op(Ir).v = "p" => Fn \notin Range(Entries)
      /\ Op(Ir).v # "p" => Op(Ir).v \in Range(StateVars)
  BY <1>1, <1>3, CallIr DEF Fn
<1>5. arg \in DOMAIN heap
  <2>1. CASE Op(Ir).v = "p"
    <3> DEFINE c == Here(st)
    <3>1. c \in Stacks /\ c # <<>> /\ Last(c).fn = Fn /\ Given(c)
      BY <1>3 DEF Held
    <3> HIDE DEF c
    <3>2. Len(c) \in DOMAIN c /\ Last(c) = c[Len(c)]
      BY <3>1 DEF Stacks, Last
    <3>3. P(Fn) \in DOMAIN ctx
      BY <1>4, <2>1, <3>1, <3>2 DEF Given
    <3> QED BY <1>1, <2>1, <3>3 DEF TypeOK, Argument
  <2>2. CASE Op(Ir).v # "p"
    <3>1. V(Op(Ir).v) \in DOMAIN ctx
      BY <1>1, <1>4, <2>2 DEF IInv, Walking
    <3> QED BY <1>1, <2>2, <3>1 DEF TypeOK, Argument
  <2> QED BY <2>1, <2>2
<1>6. StartNode(f, arg) \in Starts
  <2>1. arg \in Nat /\ arg # 0
    BY <1>1, <1>5 DEF Typed
  <2> HIDE DEF arg, f
  <2> QED BY <1>4, <1>5, <2>1 DEF StartNode, Starts
<1>7. n \in Nat /\ n # 0 /\ DOMAIN code[f].paths = 1..n /\ DOMAIN all = 1..n
  <2>1. code[f].paths \in Seq(Seq(Nat)) /\ code[f].paths # <<>>
    BY <1>1, <1>4, Program
  <2>2. DOMAIN all = DOMAIN code[f].paths
    BY DEF PathsOf
  <2> HIDE DEF f, all
  <2> QED BY <2>1, <2>2
<1>8. FirstCall(Item.irs, pos) /\ Ir = Item.irs[pos] /\ Item = Path[at]
  BY <1>1, <1>2, CallPlace DEF Ir, Item
<1>9. ASSUME NEW i \in 1..n
      PROVE  LET q == Spliced(all[i])
             IN  /\ GoodPath(q) /\ at + 1 \in 1..Len(q)
                 /\ q[at + 1].kind = "start" /\ q[at + 1].fn = f
                 /\ \E u : Stacked(q, u) /\ u[at + 1] = Ahead(st[at], pos)
  <2> DEFINE c == all[i]
             q == Spliced(c)
  <2>1. i \in DOMAIN code[f].paths
    BY <1>7
  <2>2. Shape(c, f, i, arg, Ir)
    BY <1>1, <1>3, <1>4, <1>6, <2>1, PathShape
  <2>3. Strung(Path, None, st) /\ st[1] = <<>> /\ st[Len(Path) + 1] = <<>>
    BY DEF Held, Stacked
  <2>4. at \in 1..(Len(Path) - 1) /\ at >= 1
    BY <1>1, <1>2
  <2>5. q = Spliced4(Path, at, pos, c)
    BY DEF Spliced, Spliced4, Item
  <2> HIDE DEF c, q, all
  <2>6. Branches(q, Path, at, f, arg) /\ \E u : Stacked(q, u) /\ u[at + 1] = Ahead(st[at], pos)
    <3> DEFINE p == Path
               ir == p[at].irs[pos]
    <3>1. p \in Seq(Items) /\ Stacked(p, st) /\ CallAt(p, at, pos)
      BY <1>1, <1>2, <1>8, <2>4 DEF CallAt, Held
    <3>2. q = Spliced4(p, at, pos, c) /\ ir = Ir
      BY <1>8, <2>5
    <3>3. CalleePath(c, ir, i, arg) /\ Op(ir).f = f
      BY <2>1, <2>2, <3>2 DEF CalleePath
    <3> HIDE DEF p, f, n, arg
    <3>4. LET x == Spliced4(p, at, pos, c)
          IN  /\ Branches(x, p, at, Op(ir).f, arg)
              /\ \E u : Stacked(x, u) /\ u[at + 1] = Ahead(st[at], pos)
      BY <1>1, <3>1, <3>3, SpliceWhole
    <3> HIDE DEF ir
    <3> QED BY <3>2, <3>3, <3>4 DEF p
  <2>7. /\ q \in Seq(Items) /\ at + 1 \in 1..Len(q) /\ q[at + 1] = StartNode(f, arg)
        /\ \A k \in 1..at : q[k] = Path[k]
    BY <2>6 DEF Branches
  <2>8. PICK u : Stacked(q, u) /\ u[at + 1] = Ahead(st[at], pos)
    BY <2>6
  <2>9. q # <<>> /\ q[1].kind = "start"
    <3>1. 1 \in 1..at /\ Path[1].kind = "start"
      BY <1>1, <2>4 DEF GoodPath
    <3>2. Len(q) # 0
      BY <1>1, <2>4, <2>7
    <3> QED BY <2>7, <3>1, <3>2
  <2>10. q[at + 1].kind = "start" /\ q[at + 1].fn = f
    BY <2>7 DEF StartNode
  <2> QED BY <2>7, <2>8, <2>9, <2>10 DEF GoodPath, q, c
<1>10. Children = IF Ir \in parsed THEN <<all[1]>> ELSE all
  BY DEF Children
<1> HIDE DEF all, f
<1>11. /\ Children # <<>> /\ DOMAIN Children = 1..Len(Children) /\ Len(Children) \in Nat
       /\ \A i \in DOMAIN Children : \E k \in 1..n : Children[i] = all[k]
  <2>1. CASE Ir \in parsed
    BY <1>7, <1>10, <2>1
  <2>2. CASE Ir \notin parsed
    <3>1. Children = all /\ DOMAIN all = 1..n
      BY <1>7, <1>10, <2>2
    <3>2. Len(all) = n
      BY <1>7, <3>1
    <3> QED BY <1>7, <3>1, <3>2
  <2> QED BY <2>1, <2>2
<1>12. ASSUME NEW i \in DOMAIN Children
       PROVE  LET q == Spliced(Children[i])
              IN  /\ GoodPath(q) /\ at + 1 \in 1..Len(q)
                  /\ q[at + 1].kind = "start" /\ q[at + 1].fn = f
                  /\ \E u : Stacked(q, u) /\ u[at + 1] = Ahead(st[at], pos)
  <2>1. PICK k \in 1..n : Children[i] = all[k]
    BY <1>11
  <2> QED BY <1>9, <2>1
<1> QED BY <1>11, <1>12 DEF f

\* What comes of a step that is recorded by an IR at which a callee begins.
LEMMA CallNoted ==
  ASSUME code \in Programs, code' = code, trace \in Seq(Events), Ordered(trace), trace # <<>>, ~Calling(Last(trace)),
         Executed \in Events, Calling(Executed), trace' = Append(trace, Executed),
         Entering', Item'.fn = Op(Ir).f, at' # 1
  PROVE  Noted'
<1>1. Executed.do = "ir" /\ Executed.ir = Ir
  BY DEF Executed
<1>2. trace' \in Seq(Events) /\ trace' # <<>> /\ Last(trace') = Executed
  <2>1. /\ Append(trace, Executed) \in Seq(Events) /\ Append(trace, Executed) # <<>>
        /\ Len(Append(trace, Executed)) = Len(trace) + 1 /\ Append(trace, Executed)[Len(trace) + 1] = Executed
    BY AppendProperties
  <2> QED BY <2>1 DEF Last
<1>3. Ordered(trace')
  BY <1>1, OrderedOn
<1>4. Ordered(trace)' <=> Ordered(trace')
  BY DEF Ordered, Calling, Op
<1>5. Calling(Last(trace))'
  BY <1>2 DEF Calling, Op
<1>6. (Op(Last(trace).ir).f)' = Item'.fn
  BY <1>1, <1>2 DEF Op
<1> QED BY <1>2, <1>3, <1>4, <1>5, <1>6, SameIrs DEF Noted

\* The lists the paths are in.
Listed == [start : Nat \ {0}, path : Seq(Items)]

\* A call whose callee is not in the path yet.
LEMMA ExpandStep ==
  ASSUME IInv, Expand
  PROVE  IInv'
<1> DEFINE b == [i \in DOMAIN Children |-> [start |-> IF i = 1 THEN at + 1 ELSE 1, path |-> Spliced(Children[i])]]
           q == Spliced(Children[1])
<1>1. /\ OnPath /\ Item.kind = "code" /\ pos <= Len(Item.irs) /\ Op(Ir).op = "call" /\ ~Expanded
      /\ at' = at + 1 /\ pos' = 1 /\ trace' = Append(trace, Executed)
      /\ \A i \in DOMAIN Children : Len(Spliced(Children[i])) <= MaxItems
      /\ work' = SubSeq(work, 1, id - 1) \o b \o SubSeq(work, id + 1, Len(work))
      /\ UNCHANGED <<code, todo, pc, id, ctx, heap, written>>
  BY DEF Expand, At, Log
<1>2. PICK st : Held(st)
  BY <1>1, Standing DEF OnTheWay
<1>3. /\ at \in 1..Len(Path) /\ Path \in Seq(Items) /\ code \in Programs /\ TypeOK /\ Typed /\ Marked /\ Noted
      /\ Walking /\ id \in DOMAIN work /\ pc = "walking" /\ at <= Len(Path) /\ at \in Nat
  BY <1>1, Standing DEF OnTheWay, IInv
<1>4. /\ Children # <<>> /\ DOMAIN Children = 1..Len(Children) /\ Len(Children) \in Nat
      /\ \A i \in DOMAIN Children :
           LET x == Spliced(Children[i])
           IN  /\ GoodPath(x) /\ at + 1 \in 1..Len(x)
               /\ x[at + 1].kind = "start" /\ x[at + 1].fn = Op(Ir).f
               /\ \E u : Stacked(x, u) /\ u[at + 1] = Ahead(st[at], pos)
  BY <1>1, <1>2, SplicedPaths
<1>5. 1 \in DOMAIN Children
  <2> DEFINE n == Len(Children)
             D == DOMAIN Children
  <2>1. n # 0
    <3>1. n = 0 => Children = <<>>
      <4>1. n = 0 => DOMAIN Children = {}
        BY <1>4
      <4> QED BY <4>1
    <3> QED BY <1>4, <3>1
  <2>2. n \in Nat /\ D = 1..n
    BY <1>4
  <2> HIDE DEF n, D
  <2>3. 1 \in D
    BY <2>1, <2>2
  <2> QED BY <2>3 DEF D
<1>6. /\ b \in Seq(Listed) /\ b # <<>> /\ Len(b) = Len(Children) /\ b[1] = [start |-> at + 1, path |-> q]
      /\ \A k \in 2..Len(b) : k \in DOMAIN Children /\ b[k] = [start |-> 1, path |-> Spliced(Children[k])]
  <2>1. ASSUME NEW i \in DOMAIN Children
        PROVE  [start |-> IF i = 1 THEN at + 1 ELSE 1, path |-> Spliced(Children[i])] \in Listed
    <3>1. Spliced(Children[i]) \in Seq(Items)
      BY <1>4 DEF GoodPath
    <3>2. (IF i = 1 THEN at + 1 ELSE 1) \in Nat \ {0}
      BY <1>3
    <3> QED BY <3>1, <3>2 DEF Listed
  <2>2. b \in [1..Len(Children) -> Listed]
    BY <1>4, <2>1
  <2>3. b[1] = [start |-> at + 1, path |-> q]
    BY <1>5
  <2>4. \A k \in DOMAIN Children : k # 1 => b[k] = [start |-> 1, path |-> Spliced(Children[k])]
    OBVIOUS
  <2> HIDE DEF b
  <2>5. b \in Seq(Listed) /\ Len(b) = Len(Children)
    BY <1>4, <2>2
  <2>6. b # <<>>
    BY <1>4, <1>5, <2>2
  <2>7. \A k \in 2..Len(b) : k \in DOMAIN Children /\ k # 1
    BY <1>4, <2>5
  <2> QED BY <2>3, <2>4, <2>5, <2>6, <2>7
<1> HIDE DEF b
<1>7. work \in Seq(Listed) /\ id \in 1..Len(work) /\ Len(work) \in Nat /\ id \in Nat
  <2>1. work \in Seq(Listed)
    BY <1>3 DEF Typed, Listed
  <2>2. DOMAIN work = 1..Len(work) /\ Len(work) \in Nat
    BY <2>1
  <2> QED BY <1>3, <2>1, <2>2
<1>8. /\ work' \in Seq(Listed) /\ Len(work') >= Len(work) /\ work'[id] = b[1]
      /\ \A j \in DOMAIN work' : \/ j < id /\ j \in DOMAIN work /\ work'[j] = work[j]
                                 \/ j = id
                                 \/ j > id /\ \E k \in 2..Len(b) : work'[j] = b[k]
                                 \/ j > id /\ \E k \in (id + 1)..Len(work) : work'[j] = work[k]
  <2>1. work \in Seq(Listed) /\ b \in Seq(Listed) /\ b # <<>> /\ id \in 1..Len(work)
    BY <1>6, <1>7
  <2>2. LET new == SubSeq(work, 1, id - 1) \o b \o SubSeq(work, id + 1, Len(work))
        IN  new \in Seq(Listed) /\ Instead(new, work, id, b)
    BY <2>1, Replaced
  <2>3. work' \in Seq(Listed) /\ Instead(work', work, id, b)
    BY <1>1, <2>2
  <2> QED BY <2>3 DEF Instead
<1> DEFINE Fine(x, j) == /\ GoodPath(x.path) /\ (j > id => x.start = 1)
                         /\ x.start \in DOMAIN x.path /\ Len(x.path) <= MaxItems
<1>9. ASSUME NEW j \in DOMAIN work, NEW i \in Nat, j > id \/ i = j PROVE Fine(work[j], i)
  BY <1>3, <1>9 DEF Walking, TypeOK
<1>10. ASSUME NEW k \in DOMAIN Children, NEW i \in Nat, k # 1 \/ i = id
       PROVE  Fine([start |-> IF k = 1 THEN at + 1 ELSE 1, path |-> Spliced(Children[k])], i)
  <2> DEFINE x == Spliced(Children[k])
  <2>1. GoodPath(x) /\ at + 1 \in 1..Len(x) /\ Len(x) <= MaxItems
    BY <1>1, <1>4
  <2> HIDE DEF x
  <2>2. x \in Seq(Items)
    BY <2>1 DEF GoodPath
  <2>3. DOMAIN x = 1..Len(x) /\ Len(x) \in Nat
    BY <2>2
  <2>4. at + 1 \in DOMAIN x /\ 1 \in DOMAIN x
    BY <1>3, <2>1, <2>3
  <2>5. Fine([start |-> IF k = 1 THEN at + 1 ELSE 1, path |-> x], i)
    BY <1>7, <1>10, <2>1, <2>4
  <2> QED BY <2>5 DEF x
<1>11. ASSUME NEW j \in DOMAIN work' PROVE Fine(work'[j], j)
  <2>0. j \in Nat
    BY <1>8
  <2> HIDE DEF Fine
  <2>1. CASE j < id /\ j \in DOMAIN work /\ work'[j] = work[j]
    BY <1>9, <2>0, <2>1
  <2>2. CASE j = id
    <3>1. work'[j] = [start |-> IF 1 = 1 THEN at + 1 ELSE 1, path |-> Spliced(Children[1])]
      BY <1>6, <1>8, <2>2
    <3> QED BY <1>5, <1>10, <2>0, <2>2, <3>1
  <2>3. ASSUME NEW k \in 2..Len(b), work'[j] = b[k] PROVE Fine(work'[j], j)
    <3>1. k # 1 /\ k \in DOMAIN Children /\ work'[j] = [start |-> IF k = 1 THEN at + 1 ELSE 1, path |-> Spliced(Children[k])]
      BY <1>6, <2>3
    <3> QED BY <1>10, <2>0, <3>1
  <2>4. ASSUME NEW k \in (id + 1)..Len(work), work'[j] = work[k] PROVE Fine(work'[j], j)
    <3>1. k \in DOMAIN work /\ k > id
      BY <1>7
    <3> QED BY <1>9, <2>0, <2>4, <3>1
  <2> QED BY <1>8, <2>1, <2>2, <2>3, <2>4
<1>12. Grown
  BY <1>1, <1>3, NothingMoves
<1>13. /\ Seq(Items) \subseteq Seq(Items') /\ \A p : GoodPath(p) => GoodPath(p)'
       /\ \A p, u : Stacked(p, u)' <=> Stacked(p, u)
  BY <1>1, <1>12, PathsKept DEF Grown
<1>14. Path' = q
  <2>1. Path' = work'[id'].path
    BY DEF Path
  <2> HIDE DEF q
  <2>2. id' = id
    BY <1>1
  <2>3. b[1].path = q
    BY <1>6
  <2>4. work'[id] = b[1]
    BY <1>8
  <2> QED BY <2>1, <2>2, <2>3, <2>4
<1>15. TypeOK'
  <2>1. id' \in 1..(Len(work') + 1)
    <3> DEFINE n == Len(work')
               m == Len(work)
    <3>1. n \in Nat /\ m \in Nat /\ n >= m /\ id \in 1..m
      BY <1>7, <1>8
    <3> HIDE DEF n, m
    <3>2. id \in 1..(n + 1)
      BY <3>1
    <3> QED BY <1>1, <3>2 DEF n
  <2>2. todo' \in 1..(Len(Entries) + 1) /\ pc' \in {"next", "walking", "done"} /\ pos' \in Nat \ {0}
    BY <1>1, <1>3 DEF TypeOK
  <2>3. /\ \A x \in DOMAIN ctx' : ctx'[x] \in DOMAIN heap'
        /\ Range(heap') \subseteq Range(StateVars) \cup {NoLoc}
        /\ written' \subseteq Range(StateVars)
    BY <1>1, <1>3 DEF TypeOK
  <2>4. \A j \in DOMAIN work' : work'[j].start \in DOMAIN work'[j].path /\ Len(work'[j].path) <= MaxItems
    BY <1>11
  <2> QED BY <2>1, <2>2, <2>3, <2>4 DEF TypeOK, NoLoc
<1>16. Typed'
  <2>1. Listed \subseteq [start : Nat \ {0}, path : Seq(Items')]
    BY <1>13 DEF Listed
  <2>2. work' \in Seq([start : Nat \ {0}, path : Seq(Items')])
    BY <1>8, <2>1, SeqMonotonic
  <2> QED BY <1>1, <1>3, <2>2 DEF Typed, Locations, NoLoc
<1>17. PICK u : Stacked(q, u) /\ u[at + 1] = Ahead(st[at], pos)
  BY <1>4, <1>5
<1>18. at + 1 \in 1..Len(q) /\ q[at + 1].kind = "start" /\ q[at + 1].fn = Op(Ir).f
  BY <1>4, <1>5
<1> HIDE DEF q
<1>19. /\ Executed \in Events /\ Here(st) \in Stacks
       /\ Ahead(st[at], pos) \in Stacks /\ Ahead(st[at], pos) \in Follow(Here(st), Executed)
       /\ Len(Ahead(st[at], pos)) = Len(Here(st))
       /\ \A i \in 1..Len(Here(st)) : Ahead(st[at], pos)[i].fn = Here(st)[i].fn
  BY <1>1, <1>2, <1>3, IrNext DEF Held
<1>20. trace # <<>> /\ ~Calling(Last(trace))
  BY <1>1, FirstItem
<1>21. Marked' /\ at' # 1 /\ at' <= Len(Path')
  BY <1>1, <1>3, <1>14, <1>18 DEF Marked
<1>22. Noted'
  <2>1. Entering' /\ Item'.fn = Op(Ir).f
    BY <1>1, <1>14, <1>18, <1>21 DEF Entering, Item
  <2>2. Calling(Executed) /\ trace \in Seq(Events) /\ Ordered(trace)
    BY <1>1, <1>3 DEF Calling, Executed, Noted
  <2> QED BY <1>1, <1>3, <1>19, <1>20, <1>21, <2>1, <2>2, CallNoted
<1>23. Held(u)'
  <2> DEFINE t == Ahead(st[at], pos)
             c == Here(st)
  <2>1. Here(u)' = t
    BY <1>1, <1>17 DEF Here
  <2>2. Stacked(Path, u)'
    BY <1>13, <1>14, <1>17 DEF Stacked, None
  <2>3. Recorded(trace', t)
    BY <1>1, <1>2, <1>3, <1>19, Records DEF Held, Noted
  <2>4. Given(c) /\ c \in Stacks /\ t \in Stacks /\ Len(t) = Len(c) /\ \A i \in 1..Len(c) : t[i].fn = c[i].fn
    BY <1>2, <1>19 DEF Held
  <2> HIDE DEF t, c
  <2>5. \A i \in DOMAIN t : t[i].fn \notin Range(Entries) => P(t[i].fn) \in DOMAIN ctx'
    BY <1>12, <2>4, StillGiven
  <2>6. Recorded(trace, Here(u))'
    <3>1. \A tr, x : Recorded(tr, x)' <=> Recorded(tr, x)
      BY <1>1, SamePaths
    <3> QED BY <1>1, <2>1, <2>3, <3>1 DEF Recorded
  <2>7. Given(Here(u))'
    BY <2>1, <2>5 DEF Given, P
  <2> QED BY <2>2, <2>6, <2>7 DEF Held
<1>24. OnTheWay'
  BY <1>21, <1>22, <1>23 DEF OnTheWay
<1>25. Walking'
  <2>1. \A v \in Range(StateVars) : V(v) \in DOMAIN ctx'
    BY <1>1, <1>3 DEF Walking
  <2>2. \A j \in DOMAIN work' : GoodPath(work'[j].path) /\ (j > id => work'[j].start = 1)
    BY <1>11
  <2> QED BY <1>1, <1>13, <1>24, <2>1, <2>2 DEF Walking, V
<1> QED BY <1>1, <1>3, <1>15, <1>16, <1>25 DEF IInv

----------------------------------------------------------------------------
(* From one path to the next, and from one function to the next.            *)

\* Every state variable gets a context; those of others may go.
LEMMA RenamedTyped ==
  ASSUME NEW S, heap \in Seq(Locations), \A x \in DOMAIN ctx : ctx[x] \in DOMAIN heap, Renamed(S)
  PROVE  /\ heap' \in Seq(Locations) /\ DOMAIN heap \subseteq DOMAIN heap'
         /\ \A x \in DOMAIN ctx' : ctx'[x] \in DOMAIN heap'
         /\ \A v \in Range(StateVars) : V(v) \in DOMAIN ctx'
         /\ Range(heap') \subseteq Range(StateVars) \cup {NoLoc}
<1> DEFINE own == {V(v) : v \in Range(StateVars)}
           X == Locations
           Place(x) == CHOOSE i \in DOMAIN StateVars : V(StateVars[i]) = x
<1>1. /\ heap' = heap \o StateVars
      /\ ctx' = [x \in own \cup (DOMAIN ctx \ S) |-> IF x \in own THEN Len(heap) + Place(x) ELSE ctx[x]]
  BY DEF Renamed
<1>2. StateVars \in Seq(X)
  <2>1. StateVars \in Seq(STRING)
    BY EntriesAssumption
  <2>2. \A i \in 1..Len(StateVars) : StateVars[i] \in X
    BY <2>1 DEF Locations, Range
  <2> HIDE DEF X
  <2> QED BY <2>1, <2>2
<1>3. heap \in Seq(X)
  OBVIOUS
<1> HIDE DEF X
<1>4. /\ heap \o StateVars \in Seq(X) /\ Len(heap \o StateVars) = Len(heap) + Len(StateVars)
  BY <1>2, <1>3, OneMore
<1>5. /\ Len(heap) \in Nat /\ Len(StateVars) \in Nat /\ DOMAIN StateVars = 1..Len(StateVars)
      /\ DOMAIN heap = 1..Len(heap) /\ DOMAIN (heap \o StateVars) = 1..(Len(heap) + Len(StateVars))
  BY <1>2, <1>3, <1>4
<1>6. heap' \in Seq(X) /\ DOMAIN heap' = 1..(Len(heap) + Len(StateVars))
  BY <1>1, <1>4, <1>5
<1>7. DOMAIN heap \subseteq DOMAIN heap'
  BY <1>5, <1>6
<1>8. ASSUME NEW x \in own PROVE Len(heap) + Place(x) \in DOMAIN heap'
  <2>1. \E i \in DOMAIN StateVars : V(StateVars[i]) = x
    BY DEF Range
  <2>2. Place(x) \in DOMAIN StateVars
    BY <2>1
  <2> HIDE DEF Place
  <2>3. Len(heap) + Place(x) \in 1..(Len(heap) + Len(StateVars))
    BY <1>5, <2>2
  <2> QED BY <1>6, <2>3
<1> HIDE DEF Place
<1>9. DOMAIN ctx' = own \cup (DOMAIN ctx \ S)
  BY <1>1
<1>10. \A x \in DOMAIN ctx' : ctx'[x] \in DOMAIN heap'
  BY <1>1, <1>7, <1>8
<1>11. \A v \in Range(StateVars) : V(v) \in DOMAIN ctx'
  BY <1>9
<1>12. Range(heap') \subseteq X
  <2>1. \A i \in DOMAIN heap' : heap'[i] \in X
    BY <1>6
  <2> QED BY <2>1 DEF Range
<1> QED BY <1>6, <1>7, <1>10, <1>11, <1>12 DEF X, Locations

\* The lists of paths stay as they are typed.
LEMMA ListsKept ==
  ASSUME code' = code, DOMAIN heap \subseteq DOMAIN heap', NEW w \in Seq([start : Nat \ {0}, path : Seq(Items)])
  PROVE  w \in Seq([start : Nat \ {0}, path : Seq(Items')])
<1>1. Seq(Items) \subseteq Seq(Items')
  BY PathsKept
<1>2. [start : Nat \ {0}, path : Seq(Items)] \subseteq [start : Nat \ {0}, path : Seq(Items')]
  BY <1>1
<1> QED BY <1>2, SeqMonotonic

\* At the beginning of a path nothing has been executed.
LEMMA AtStart ==
  ASSUME code' = code, at' = 1, pos' = 1, trace' = <<>>, GoodPath(Path)'
  PROVE  OnTheWay'
<1> DEFINE p == Path'
<1>1. Len(p) \in Nat /\ Len(p) # 0
  <2>1. p \in Seq(Items') /\ p # <<>>
    BY DEF GoodPath
  <2> HIDE DEF p
  <2> QED BY <2>1
<1>2. PICK st : Stacked(Path, st)'
  BY DEF GoodPath
<1>3. st[1] = <<>>
  BY <1>2 DEF Stacked
<1>4. Marked'
  <2> HIDE DEF p
  <2>1. 1 \in 1..(Len(p) + 1)
    BY <1>1
  <2> QED BY <2>1 DEF Marked, p
<1>5. Noted'
  <2>1. <<>> \in Seq(Events')
    OBVIOUS
  <2>2. Ordered(trace)'
    BY DEF Ordered
  <2> QED BY <2>1, <2>2 DEF Noted
<1>6. Held(st)'
  <2>1. Here(st)' = <<>>
    BY <1>3 DEF Here
  <2>2. Recorded(<<>>, <<>>)'
    <3> DEFINE run == [k \in 0..0 |-> <<>>]
    <3>1. <<>> \in Stacks'
      BY DEF Stacks
    <3>2. Len(<<>>) = 0
      OBVIOUS
    <3>3. run \in [0..Len(<<>>) -> Stacks'] /\ run[0] = <<>> /\ run[Len(<<>>)] = <<>> /\ 1..Len(<<>>) = {}
      BY <3>1, <3>2
    <3> HIDE DEF run
    <3> QED BY <3>3 DEF Recorded
  <2>3. Recorded(trace, Here(st))'
    BY <2>1, <2>2 DEF Recorded
  <2>4. Given(Here(st))'
    BY <2>1 DEF Given
  <2> QED BY <1>2, <2>3, <2>4 DEF Held
<1> QED BY <1>4, <1>5, <1>6 DEF OnTheWay

\* A path ends.
LEMMA PathEndsStep ==
  ASSUME IInv, PathEnds
  PROVE  IInv'
<1> DEFINE S == UNION {Cleared(ir) : ir \in IrsOf(Path)}
<1>1. /\ pc = "walking" /\ id <= Len(work) /\ Renamed(S)
      /\ id' = id + 1 /\ pos' = 1 /\ trace' = <<>>
      /\ at' = IF id < Len(work) THEN work[id + 1].start ELSE 1
      /\ UNCHANGED <<code, todo, pc, work, parsed, written, repeats>>
  BY DEF PathEnds
<1>2. TypeOK /\ Typed /\ Walking
  BY <1>1 DEF IInv
<1> HIDE DEF S
<1>3. /\ heap' \in Seq(Locations) /\ DOMAIN heap \subseteq DOMAIN heap'
      /\ \A x \in DOMAIN ctx' : ctx'[x] \in DOMAIN heap'
      /\ \A v \in Range(StateVars) : V(v) \in DOMAIN ctx'
      /\ Range(heap') \subseteq Range(StateVars) \cup {NoLoc}
  BY <1>1, <1>2, RenamedTyped DEF TypeOK, Typed
<1>4. work \in Seq([start : Nat \ {0}, path : Seq(Items)])
  BY <1>2 DEF Typed
<1>5. Len(work) \in Nat /\ DOMAIN work = 1..Len(work) /\ id \in 1..Len(work) /\ id + 1 \in 1..(Len(work) + 1)
  <2>1. Len(work) \in Nat /\ DOMAIN work = 1..Len(work)
    BY <1>4
  <2>2. id \in 1..(Len(work) + 1)
    BY <1>2 DEF TypeOK
  <2> QED BY <1>1, <2>1, <2>2
<1>6. TypeOK'
  BY <1>1, <1>2, <1>3, <1>5 DEF TypeOK, NoLoc
<1>7. Typed'
  <2>1. work' \in Seq([start : Nat \ {0}, path : Seq(Items')])
    BY <1>1, <1>3, <1>4, ListsKept
  <2> QED BY <1>1, <1>2, <1>3, <2>1 DEF Typed, Locations, NoLoc
<1>8. \A p : GoodPath(p) => GoodPath(p)'
  BY <1>1, <1>3, PathsKept
<1>9. \A j \in DOMAIN work : GoodPath(work[j].path) /\ (j > id => work[j].start = 1)
  BY <1>2 DEF Walking
<1>10. \A j \in DOMAIN work : j > id + 1 => j > id
  BY <1>5
<1>11. id' <= Len(work') => OnTheWay'
  <2> SUFFICES ASSUME id' <= Len(work') PROVE OnTheWay'
    OBVIOUS
  <2>1. id + 1 \in DOMAIN work /\ id + 1 > id /\ id < Len(work)
    BY <1>1, <1>5
  <2>2. at' = 1
    BY <1>1, <1>9, <2>1
  <2>3. GoodPath(work[id + 1].path)
    BY <1>9, <2>1
  <2>4. Path' = work[id + 1].path
    BY <1>1 DEF Path
  <2>5. GoodPath(Path)'
    BY <1>8, <2>3, <2>4 DEF GoodPath, Stacked, None
  <2> QED BY <1>1, <2>2, <2>5, AtStart
<1>12. Walking'
  <2>1. \A j \in DOMAIN work' : GoodPath(work'[j].path) /\ (j > id' => work'[j].start = 1)
    BY <1>1, <1>9, <1>10
  <2> QED BY <1>1, <1>3, <1>8, <1>11, <2>1 DEF Walking, V
<1> QED BY <1>6, <1>7, <1>12 DEF IInv

\* A function of the entry points begins.
LEMMA BeginStep ==
  ASSUME IInv, BeginFunction
  PROVE  IInv'
<1> DEFINE f == Entries[todo]
           n == Len(code[f].paths)
<1>1. /\ pc = "next" /\ todo <= Len(Entries) /\ pc' = "walking"
      /\ work' = [i \in DOMAIN code[f].paths |-> [start |-> 1, path |-> PathsOf(f, 0, NoIr)[i]]]
      /\ id' = 1 /\ at' = 1 /\ pos' = 1 /\ written' = {} /\ trace' = <<>> /\ Renamed({})
      /\ UNCHANGED <<code, todo, parsed>>
  BY DEF BeginFunction
<1>2. TypeOK /\ Typed /\ code \in Programs
  BY DEF IInv, Typed
<1>3. f \in Functions /\ f \in Range(Entries)
  <2>1. Entries \in Seq(Functions)
    BY EntriesAssumption
  <2>2. todo \in 1..Len(Entries)
    BY <1>1, <1>2, <2>1 DEF TypeOK
  <2> QED BY <2>1, <2>2 DEF Range
<1> HIDE DEF f
<1>4. /\ heap' \in Seq(Locations) /\ DOMAIN heap \subseteq DOMAIN heap'
      /\ \A x \in DOMAIN ctx' : ctx'[x] \in DOMAIN heap'
      /\ \A v \in Range(StateVars) : V(v) \in DOMAIN ctx'
      /\ Range(heap') \subseteq Range(StateVars) \cup {NoLoc}
  BY <1>1, <1>2, RenamedTyped DEF TypeOK, Typed
<1>5. /\ n \in Nat /\ n # 0 /\ DOMAIN code[f].paths = 1..n
  <2>1. code[f].paths \in Seq(Seq(Nat)) /\ code[f].paths # <<>>
    BY <1>2, <1>3, Program
  <2> QED BY <2>1
<1>6. ASSUME NEW i \in 1..n
      PROVE  GoodPath(PathsOf(f, 0, NoIr)[i]) /\ Len(PathsOf(f, 0, NoIr)[i]) <= MaxItems
  <2> DEFINE c == PathsOf(f, 0, NoIr)[i]
             m == Len(code[f].paths[i])
  <2>1. StartNode(f, 0) \in Starts
    BY <1>3 DEF Starts, StartNode
  <2>2. i \in DOMAIN code[f].paths /\ NoIr \in IrIds \cup {NoIr}
    BY <1>5
  <2>3. Shape(c, f, i, 0, NoIr)
    BY <1>2, <1>3, <2>1, <2>2, PathShape
  <2> HIDE DEF c
  <2>4. <<>> \in Stacks /\ None.kind # "start"
    BY DEF Stacks, None
  <2>5. \E st : Strung(c, None, st) /\ st[1] = <<>> /\ st[Len(c) + 1] = <<>>
    BY <1>2, <1>3, <2>2, <2>3, <2>4, Called
  <2>6. c \in Seq(Items) /\ Len(c) = m + 2 /\ c[1] = StartNode(f, 0)
    BY <2>3 DEF Shape
  <2>7. m \in Nat /\ m + 2 <= MaxItems
    <3>1. code[f].paths[i] \in Seq(Nat)
      BY <1>2, <1>3, <2>2, Program
    <3> QED BY <1>2, <1>3, <2>2, <3>1, BoundAssumption
  <2> HIDE DEF m
  <2>8. c # <<>> /\ c[1].kind = "start"
    <3>1. Len(c) # 0
      BY <2>6, <2>7
    <3> QED BY <2>6, <3>1 DEF StartNode
  <2>9. GoodPath(c)
    BY <2>5, <2>6, <2>8 DEF GoodPath, Stacked
  <2> QED BY <2>6, <2>7, <2>9 DEF c
<1> DEFINE T == [start : Nat \ {0}, path : Seq(Items)]
<1> HIDE DEF n
<1>7. /\ work' \in Seq(T) /\ DOMAIN work' = 1..n /\ Len(work') = n
      /\ \A j \in DOMAIN work' : /\ work'[j].start = 1 /\ work'[j].path \in Seq(Items)
                                 /\ GoodPath(work'[j].path) /\ Len(work'[j].path) <= MaxItems
  <2> DEFINE c(j) == PathsOf(f, 0, NoIr)[j]
  <2>1. DOMAIN work' = 1..n /\ \A j \in 1..n : work'[j] = [start |-> 1, path |-> c(j)]
    BY <1>1, <1>5
  <2>2. \A j \in 1..n : c(j) \in Seq(Items) /\ GoodPath(c(j)) /\ Len(c(j)) <= MaxItems
    BY <1>6 DEF GoodPath
  <2> HIDE DEF c
  <2>3. \A j \in 1..n : work'[j] \in T
    <3>1. ASSUME NEW j \in 1..n PROVE [start |-> 1, path |-> c(j)] \in T
      <4>1. c(j) \in Seq(Items)
        BY <2>2
      <4> QED BY <4>1
    <3> HIDE DEF T
    <3> QED BY <2>1, <3>1
  <2>4. work' = [j \in 1..n |-> work'[j]]
    <3>1. work' = [j \in 1..n |-> [start |-> 1, path |-> PathsOf(f, 0, NoIr)[j]]]
      BY <1>1, <1>5
    <3> QED BY <3>1
  <2>5. \A j \in 1..n : /\ work'[j].start = 1 /\ work'[j].path \in Seq(Items)
                        /\ GoodPath(work'[j].path) /\ Len(work'[j].path) <= MaxItems
    <3>1. ASSUME NEW j \in 1..n PROVE work'[j].start = 1 /\ work'[j].path = c(j)
      BY <2>1
    <3> QED BY <2>2, <3>1
  <2> HIDE DEF T
  <2>6. work' \in Seq(T) /\ Len(work') = n
    BY <1>5, <2>3, <2>4
  <2> QED BY <2>1, <2>5, <2>6
<1>8. \A p : GoodPath(p) => GoodPath(p)'
  BY <1>1, <1>4, PathsKept
<1>9. TypeOK'
  <2>1. \A j \in DOMAIN work' : work'[j].start \in DOMAIN work'[j].path /\ Len(work'[j].path) <= MaxItems
    <3>1. ASSUME NEW c \in Seq(Items), c # <<>> PROVE 1 \in DOMAIN c
      BY <3>1
    <3> QED BY <1>7, <3>1 DEF GoodPath
  <2>2. id' \in 1..(Len(work') + 1)
    BY <1>1, <1>5, <1>7
  <2>3. todo' \in 1..(Len(Entries) + 1) /\ pc' \in {"next", "walking", "done"} /\ pos' \in Nat \ {0}
    BY <1>1, <1>2 DEF TypeOK
  <2>4. written' \subseteq Range(StateVars)
    BY <1>1
  <2> QED BY <1>4, <2>1, <2>2, <2>3, <2>4 DEF TypeOK, NoLoc
<1>10. Typed'
  <2>1. work' \in Seq([start : Nat \ {0}, path : Seq(Items')])
    <3>1. Seq(Items) \subseteq Seq(Items')
      BY <1>1, <1>4, PathsKept
    <3>2. T \subseteq [start : Nat \ {0}, path : Seq(Items')]
      BY <3>1
    <3> QED BY <1>7, <3>2, SeqMonotonic
  <2> QED BY <1>1, <1>2, <1>4, <2>1 DEF Typed, Locations, NoLoc
<1>11. OnTheWay'
  <2>1. 1 \in DOMAIN work'
    BY <1>5, <1>7
  <2>2. GoodPath(work'[1].path)
    BY <1>7, <2>1
  <2>3. Path' = work'[1].path
    BY <1>1 DEF Path
  <2>4. GoodPath(Path)'
    BY <1>8, <2>2, <2>3 DEF GoodPath, Stacked, None
  <2> QED BY <1>1, <2>4, AtStart
<1>12. Walking'
  <2>1. \A j \in DOMAIN work' : GoodPath(work'[j].path) /\ (j > id' => work'[j].start = 1)
    BY <1>7
  <2> QED BY <1>4, <1>8, <1>11, <2>1 DEF Walking, V
<1> QED BY <1>9, <1>10, <1>12 DEF IInv

\* Between functions, and at the end of the walk.
LEMMA RestStep ==
  ASSUME IInv, UNCHANGED <<code, work, id, pos, ctx, heap, written>>,
         todo' \in 1..(Len(Entries) + 1), pc' \in {"next", "done"}
  PROVE  IInv'
<1>1. TypeOK /\ Typed
  BY DEF IInv
<1>2. TypeOK'
  BY <1>1 DEF TypeOK, NoLoc
<1>3. Typed'
  <2>1. work' \in Seq([start : Nat \ {0}, path : Seq(Items')])
    BY <1>1, ListsKept DEF Typed
  <2> QED BY <1>1, <2>1 DEF Typed, Locations, NoLoc
<1> QED BY <1>2, <1>3 DEF IInv

\* The paths of a function are all walked.
LEMMA EndFunctionStep ==
  ASSUME IInv, EndFunction
  PROVE  IInv'
<1>1. pc = "walking" /\ pc' = "next" /\ todo' = todo + 1 /\ UNCHANGED <<code, work, id, pos, ctx, heap, written>>
  BY DEF EndFunction
<1>2. todo \in 1..(Len(Entries) + 1) /\ todo <= Len(Entries)
  BY <1>1 DEF IInv, TypeOK, Typed
<1>3. Len(Entries) \in Nat
  BY EntriesAssumption
<1>4. todo' \in 1..(Len(Entries) + 1)
  BY <1>1, <1>2, <1>3
<1> QED BY <1>1, <1>4, RestStep

\* The functions are all walked.
LEMMA WalkDoneStep ==
  ASSUME IInv, WalkDone
  PROVE  IInv'
<1>1. pc' = "done" /\ UNCHANGED <<code, todo, work, id, pos, ctx, heap, written>>
  BY DEF WalkDone
<1>2. todo' \in 1..(Len(Entries) + 1)
  BY <1>1 DEF IInv, TypeOK
<1> QED BY <1>1, <1>2, RestStep

\* Nothing happens.
LEMMA StutterStep ==
  ASSUME IInv, UNCHANGED vars
  PROVE  IInv'
<1>1. UNCHANGED <<code, todo, pc, work, id, at, pos, ctx, heap, written, trace>>
  BY DEF vars
<1>2. TypeOK /\ Typed
  BY DEF IInv
<1>3. TypeOK'
  BY <1>1, <1>2 DEF TypeOK, NoLoc
<1>4. Typed'
  <2>1. work' \in Seq([start : Nat \ {0}, path : Seq(Items')])
    BY <1>1, <1>2, ListsKept DEF Typed
  <2> QED BY <1>1, <1>2, <2>1 DEF Typed, Locations, NoLoc
<1>5. ASSUME pc = "walking" PROVE Walking'
  <2>1. Walking
    BY <1>5 DEF IInv
  <2>2. /\ \A p : GoodPath(p) => GoodPath(p)'
        /\ \A p, u : Stacked(p, u)' <=> Stacked(p, u)
    BY <1>1, PathsKept
  <2>3. id <= Len(work) => OnTheWay'
    <3> SUFFICES ASSUME id <= Len(work) PROVE OnTheWay'
      OBVIOUS
    <3>1. Marked /\ Noted /\ \E st : Held(st)
      BY <2>1 DEF Walking, OnTheWay
    <3>2. PICK st : Held(st)
      BY <3>1
    <3>3. Path' = Path /\ Item' = Item
      BY <1>1 DEF Path, Item
    <3>4. \A ir : Op(ir)' = Op(ir)
      BY <1>1 DEF Op
    <3>5. Marked'
      BY <1>1, <3>1, <3>3, <3>4 DEF Marked
    <3>6. Noted'
      <4>1. Entering' <=> Entering
        BY <1>1, <3>3 DEF Entering
      <4>2. Ordered(trace)' <=> Ordered(trace)
        BY <1>1 DEF Ordered, Calling, Op
      <4>3. Calling(Last(trace))' <=> Calling(Last(trace))
        BY <1>1 DEF Calling, Op
      <4>4. (Op(Last(trace).ir).f)' = Op(Last(trace).ir).f
        BY <1>1 DEF Op
      <4> QED BY <1>1, <3>1, <3>3, <4>1, <4>2, <4>3, <4>4, SameIrs DEF Noted
    <3>7. Held(st)'
      <4>1. Here(st)' = Here(st)
        BY <1>1 DEF Here, Ahead
      <4>2. Stacked(Path, st)'
        BY <2>2, <3>2, <3>3 DEF Held, Stacked, None
      <4>3. Recorded(trace, Here(st))'
        <5>1. \A tr, c : Recorded(tr, c)' <=> Recorded(tr, c)
          BY <1>1, SamePaths
        <5> DEFINE c == Here(st)
        <5>2. Recorded(trace', c) /\ Here(st)' = c
          BY <1>1, <3>2, <4>1 DEF Held
        <5> HIDE DEF c
        <5> QED BY <5>1, <5>2 DEF Recorded
      <4>4. Given(Here(st))'
        BY <1>1, <3>2, <4>1 DEF Held, Given, P
      <4> QED BY <4>2, <4>3, <4>4 DEF Held
    <3> QED BY <3>5, <3>6, <3>7 DEF OnTheWay
  <2>4. \A v \in Range(StateVars) : V(v) \in DOMAIN ctx'
    BY <1>1, <2>1 DEF Walking
  <2>5. \A j \in DOMAIN work' : GoodPath(work'[j].path) /\ (j > id' => work'[j].start = 1)
    BY <1>1, <2>1 DEF Walking
  <2> QED BY <1>1, <2>2, <2>3, <2>4, <2>5 DEF Walking, V
<1> QED BY <1>1, <1>3, <1>4, <1>5 DEF IInv

----------------------------------------------------------------------------
(* The invariant, and what it gives.                                        *)

\* The walk begins with nothing to hold.
LEMMA InitHolds ==
  ASSUME Init
  PROVE  IInv
<1>1. /\ code \in Programs /\ todo = 1 /\ pc = "next" /\ work = <<>> /\ id = 1 /\ pos = 1
      /\ ctx = <<>> /\ heap = <<>> /\ written = {}
  BY DEF Init
<1>2. Len(Entries) \in Nat
  BY EntriesAssumption
<1>3. todo \in 1..(Len(Entries) + 1) /\ id \in 1..(Len(work) + 1)
  BY <1>1, <1>2
<1>4. /\ DOMAIN work = {} /\ DOMAIN ctx = {} /\ Range(heap) = {}
  BY <1>1 DEF Range
<1>5. TypeOK
  BY <1>1, <1>3, <1>4 DEF TypeOK
<1>6. Typed
  BY <1>1 DEF Typed
<1> QED BY <1>1, <1>5, <1>6 DEF IInv

\* Every step of ContractWalker.walk keeps the invariant.
LEMMA NextKeeps ==
  ASSUME IInv, [Next]_vars
  PROVE  IInv'
<1>1. CASE BeginFunction
  BY <1>1, BeginStep
<1>2. CASE Enter
  BY <1>2, EnterStep
<1>3. CASE Exit
  BY <1>3, ExitStep
<1>4. CASE LeaveNode
  BY <1>4, LeaveStep
<1>5. CASE Read
  BY <1>5, ReadStep
<1>6. CASE Write
  BY <1>6, WriteStep
<1>7. CASE Point
  BY <1>7, PointStep
<1>8. CASE Take
  BY <1>8, TakeStep
<1>9. CASE Ret
  BY <1>9, RetStep
<1>10. CASE Hop
  BY <1>10, HopStep
<1>11. CASE Expand
  BY <1>11, ExpandStep
<1>12. CASE PathEnds
  BY <1>12, PathEndsStep
<1>13. CASE EndFunction
  BY <1>13, EndFunctionStep
<1>14. CASE WalkDone
  BY <1>14, WalkDoneStep
<1>15. CASE UNCHANGED vars
  BY <1>15, StutterStep
<1> QED BY <1>1, <1>2, <1>3, <1>4, <1>5, <1>6, <1>7, <1>8, <1>9, <1>10, <1>11, <1>12, <1>13, <1>14, <1>15 DEF Next

\* The invariant of the walk: each path that waits, the expanded ones too, goes
\* from an empty stack of activations to an empty one, and what was executed on
\* the path under way comes to the stack at which the walk stands.
THEOREM Inductive == Spec => []IInv
<1>1. Init => IInv
  BY InitHolds
<1>2. IInv /\ [Next]_vars => IInv'
  BY NextKeeps
<1> QED BY <1>1, <1>2, PTL DEF Spec

\* The indices of walk_path stay in their lists, every path keeps within the
\* bound, every context has an object, and only storage variables are collected.
THEOREM TypeCorrect == Spec => []TypeOK
<1>1. IInv => TypeOK
  BY DEF IInv
<1> QED BY <1>1, Inductive, PTL

\* Whatever the program, its calls and its paths: what walk_path executes along
\* a path, with each call replaced by its callee's path where it is met, is one
\* run of the program.
THEOREM WalkIsARun == Spec => []TraceIsARun
<1>1. IInv => TraceIsARun
  <2> SUFFICES ASSUME IInv, pc = "walking", id <= Len(work), at > Len(Path)
               PROVE  /\ <<>> \in Activations[Len(trace)]
                      /\ Ordered(trace)
    BY DEF TraceIsARun, Ordered
  <2>1. code \in Programs /\ Marked /\ Noted /\ \E st : Held(st)
    BY DEF IInv, Typed, Walking, OnTheWay
  <2>2. PICK st : Held(st)
    BY <2>1
  <2>3. Len(Path) \in Nat
    <3>1. id \in DOMAIN work
      <4>1. work \in Seq([start : Nat \ {0}, path : Seq(Items)]) /\ id \in 1..(Len(work) + 1)
        BY DEF IInv, Typed, TypeOK
      <4>2. Len(work) \in Nat /\ DOMAIN work = 1..Len(work)
        BY <4>1
      <4> QED BY <4>1, <4>2
    <3>2. Path \in Seq(Items)
      BY <3>1 DEF IInv, Walking, GoodPath, Path
    <3> QED BY <3>2
  <2>4. at = Len(Path) + 1 /\ pos = 1
    BY <2>1, <2>3 DEF Marked
  <2>5. Here(st) = <<>>
    BY <2>2, <2>4 DEF Here, Held, Stacked
  <2>6. trace \in Seq(Events) /\ Recorded(trace, <<>>) /\ Ordered(trace)
    BY <2>1, <2>2, <2>5 DEF Held, Noted
  <2>7. <<>> \in Activations[Len(trace)]
    BY <2>1, <2>6, RunFound
  <2> QED BY <2>6, <2>7
<1> QED BY <1>1, Inductive, PTL

=============================================================================
