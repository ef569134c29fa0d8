---------------------------- MODULE ChainMirror ----------------------------
(* What the transaction service promises, without saying how: the stored    *)
(* transactions are at every moment the contract's history from its         *)
(* deployment up to some block, with nothing missing in between and nothing *)
(* from outside.  TransactionSync implements this specification.            *)
EXTENDS Chain

VARIABLE stored      \* hashes of the transactions in the database

mirrorVars == <<head, mined, stored>>

History(t) == MinedIn(Deploy, t)

Init == ChainInit /\ stored = {}

Extend == \E t \in Blocks : /\ t <= head
                            /\ stored \subseteq History(t)
                            /\ stored' = History(t)
                            /\ UNCHANGED chainVars

Next == \/ Mine /\ UNCHANGED stored
        \/ Extend

Spec == Init /\ [][Next]_mirrorVars

=============================================================================
