----------------------------- MODULE MCPathWalk -----------------------------
(* Programs of two outer functions and two internal ones, f and g.          *)
EXTENDS PathWalk

MCEntries == <<"main", "other">>
MCStateVars == <<"a", "b">>

W  == [op |-> "write"]
R  == [op |-> "read"]
T  == [op |-> "take"]
Z  == [op |-> "ret"]
B  == [op |-> "point", v |-> "b"]
C(f, v) == [op |-> "call", f |-> f, v |-> v]

Straight(n)       == [nodes |-> <<n>>, paths |-> << <<1>> >>]
Fork(n, m, k) == [nodes |-> <<n, m, k>>, paths |-> << <<1, 2>>, <<1, 3>> >>]

Mains == {Straight(n) : n \in {<<C("f", "a")>>, <<C("f", "a"), T>>, <<C("f", "a"), C("f", "b")>>,
                           <<C("f", "a"), C("g", "b")>>}}
           \cup {Fork(<<C("g", "a")>>, <<C("f", "a")>>, <<C("f", "b"), T>>)}

Others == {Straight(<<C("f", "b")>>)}

Fs == {Straight(n) : n \in {<<W, Z>>, <<C("g", "p"), R, Z>>, <<C("g", "p"), T>>, <<B, W, Z>>, <<C("g", "p"), C("g", "p"), Z>>}}
        \cup {Fork(n, m, k) : n \in {<<>>, <<R>>, <<C("g", "p")>>},
                              m \in {<<W, Z>>, <<C("f", "p"), Z>>},
                              k \in {<<Z>>, <<C("g", "p"), T, Z>>, <<C("f", "p"), Z>>}}

Gs == {Straight(n) : n \in {<<Z>>, <<R, Z>>}}
        \cup {Fork(n, m, k) : n \in {<<>>, <<R>>}, m \in {<<Z>>, <<>>, <<B, Z>>}, k \in {<<W, Z>>, <<W>>}}

MCPrograms == {[main |-> m, other |-> o, f |-> x, g |-> y] : m \in Mains, o \in Others, x \in Fs, y \in Gs}

=============================================================================
