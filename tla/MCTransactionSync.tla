-------------------------- MODULE MCTransactionSync --------------------------
(* TransactionSync on a chain of four blocks with three transactions: one   *)
(* that only txlist names, one that only txlistinternal names, one in both. *)
EXTENDS TransactionSync

CONSTANTS h1, h2, h3

MCHashes   == {h1, h2, h3}
MCNormal   == {h1, h2}
MCInternal == {h2, h3}

=============================================================================
