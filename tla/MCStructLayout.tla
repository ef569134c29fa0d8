--------------------------- MODULE MCStructLayout ---------------------------
(* StructLayout with slots of four bytes.                                   *)
EXTENDS StructLayout

MCFields == [kind : {"packed"}, size : {1, 3, 4}]
              \cup [kind : {"string", "mapping"}, size : {1}]
              \cup [kind : {"array"}, size : {1, 2}]

=============================================================================
