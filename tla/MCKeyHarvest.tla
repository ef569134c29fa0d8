---------------------------- MODULE MCKeyHarvest -----------------------------
(* KeyHarvest with three transactions: one yields a key, one a pair and one *)
(* a value that no dump takes; the last two tie when they are in one block. *)
EXTENDS KeyHarvest, TLC

CONSTANTS h1, h2, h3

MCHashes == {h1, h2, h3}
MCIndex  == (h1 :> 0) @@ (h2 :> 9) @@ (h3 :> 9)
MCPairs  == {h2}
MCBytes  == {h3}

=============================================================================
