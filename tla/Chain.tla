------------------------------- MODULE Chain -------------------------------
(* The chain as Etherscan reports it to the tool: the latest block number,  *)
(* and the block in which each transaction that touches the contract was    *)
(* mined.  A hash names a transaction; block 0 stands for "not mined yet".  *)
(* External to the repository: this is what transaction_info.py asks for    *)
(* with eth_blockNumber, txlist and txlistinternal.  Blocks that have been  *)
(* reported are final: the code has no answer to a reorganisation           *)
(* (revert_threshold is assigned and never read).                           *)
EXTENDS Naturals

CONSTANTS Hashes,    \* the transactions that will ever touch the contract
          Deploy,    \* the block the contract was created in
          MaxBlock   \* bound: the chain stops growing here

ASSUME DeployAssumption   == Deploy \in Nat \ {0}
ASSUME MaxBlockAssumption == MaxBlock \in Nat /\ MaxBlock >= Deploy

VARIABLES head,      \* latest block number
          mined      \* [Hashes -> block], 0 while pending

chainVars == <<head, mined>>

Blocks == 0..MaxBlock

MinedIn(lo, hi) == {h \in Hashes : mined[h] >= lo /\ mined[h] <= hi}

ChainTypeOK == /\ head \in Deploy..MaxBlock
               /\ mined \in [Hashes -> Blocks]

ChainInit == /\ head \in Deploy..MaxBlock
             /\ mined \in [Hashes -> 0..head]

\* One more block, holding any of the pending transactions.
Mine == /\ head < MaxBlock
        /\ head' = head + 1
        /\ \E S \in SUBSET {h \in Hashes : mined[h] = 0} :
             mined' = [h \in Hashes |-> IF h \in S THEN head + 1 ELSE mined[h]]

=============================================================================
