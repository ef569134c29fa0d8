--------------------------- MODULE MCDatabaseSetup ---------------------------
(* DatabaseSetup with three spellings of one name.                          *)
EXTENDS DatabaseSetup

MCNames == {"tx", "Tx", "TX"}
MCLower == [n \in MCNames |-> "tx"]

=============================================================================
