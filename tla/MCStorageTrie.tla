--------------------------- MODULE MCStorageTrie ----------------------------
(* Two objects that share a row.                                            *)
EXTENDS StorageTrie

CONSTANTS o1, o2

MCKeyOf == [o \in {o1, o2} |-> "k"]

=============================================================================
