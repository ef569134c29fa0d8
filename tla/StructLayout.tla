---------------------------- MODULE StructLayout ----------------------------
(* Where the fields of a struct lie, twice: Entity.get_slot_info_for_structure *)
(* of contract_abstract, and the packing rule of Slither itself             *)
(* (UserDefinedType.storage_size, the same as for state variables), which   *)
(* is that of Solidity.  Both are loops over the fields; Declare is one     *)
(* turn of both.  A struct may be a field of a later one: for such a field  *)
(* either calls itself, and since the answer depends on nothing but the     *)
(* type, structs keeps it from the time the inner struct was gone through.  *)
EXTENDS Integers, Sequences, FiniteSets

CONSTANTS Word,        \* bytes of a slot (32)
          Fields,      \* the fields a struct may have, besides structs
          MaxFields,   \* bound: fields of a struct
          MaxStructs   \* bound: structs to be fields of others

\* A packed field has a size in bytes; a string, a mapping and a dynamic array
\* take a slot; a static array some slots.
Field == [kind : {"packed"}, size : 1..Word]
           \cup [kind : {"string", "mapping"}, size : {1}]
           \cup [kind : {"array"}, size : Nat \ {0}]

\* A struct has the slots Slither finds and the slots Entity counts; sound is a
\* history: whether Entity is known to pass by all its fields as Slither does.
Struct == [kind : {"struct"}, size : Nat, count : Nat, sound : BOOLEAN]

ASSUME StructLayoutAssumption == /\ Word \in Nat \ {0}
                                 /\ Fields \subseteq Field
                                 /\ MaxFields \in Nat /\ MaxStructs \in Nat

VARIABLES structs,         \* the structs gone through
          fields,          \* elems_ordered of the next one, as far as declared
          slot, offset,    \* Entity: the loop's variables, a field passed by
          placed,          \* Entity: the answer for each field
          rslot, roffset,  \* Slither: the loop's variables
          ref,             \* Slither: the place of each field
          harmless         \* history: for each field, whether Entity's loop is
                           \* known to pass it as Slither's does

vars == <<structs, fields, slot, offset, placed, rslot, roffset, ref, harmless>>

Place == Nat \X Nat

TypeOK == /\ structs \subseteq Struct /\ fields \in Seq(Field \cup Struct)
          /\ slot \in Nat /\ offset \in 0..Word
          /\ rslot \in Nat /\ roffset \in 0..Word
          /\ placed \in Seq(Place) /\ ref \in Seq(Place) /\ harmless \in Seq(BOOLEAN)
          /\ Len(placed) = Len(fields) /\ Len(ref) = Len(fields) /\ Len(harmless) = Len(fields)

Init == /\ structs = {} /\ fields = <<>> /\ placed = <<>> /\ ref = <<>> /\ harmless = <<>>
        /\ slot = 0 /\ offset = 0 /\ rslot = 0 /\ roffset = 0

----------------------------------------------------------------------------
(* Entity.  A string has an elementary type there, of a whole slot.         *)

Elementary(f) == f.kind \in {"packed", "string"}
Bytes(f)      == IF f.kind = "packed" THEN f.size ELSE Word

\* Mutant: a field that fills the slot to the brim goes to the next one.
Fits_Strictly(f) == Bytes(f) < Word - offset

Fits(f) == Bytes(f) <= Word - offset

\* The field asked for.
PlaceOf(f) == IF Elementary(f)
              THEN IF Fits(f) THEN <<slot, offset>> ELSE <<slot + 1, 0>>
              ELSE IF offset > 0 THEN <<slot + 1, 0>> ELSE <<slot, 0>>

\* Mutant: the offset goes on over the end of the slot.
PassedBy_Overruns(f) == <<slot, offset + Bytes(f)>>

\* Another field: the loop goes on after it, after a struct by what it counted
\* for it itself, after an array by one.
PassedBy(f) == IF Elementary(f)
               THEN IF Fits(f) THEN <<slot, offset + Bytes(f)>> ELSE <<slot + 1, Bytes(f)>>
               ELSE <<slot + (IF f.kind = "struct" THEN f.count ELSE 1), 0>>

\* Mutant: the last slot is not counted.
TotalSlots_NotRounded == slot

\* The answer for no field: the slots of the struct.
TotalSlots == IF offset > 0 THEN slot + 1 ELSE slot

----------------------------------------------------------------------------
(* Slither.                                                                 *)

NewSlot(f) == f.kind # "packed"

RefPlaceOf(f) == IF (IF NewSlot(f) THEN roffset > 0 ELSE roffset + f.size > Word)
                 THEN <<rslot + 1, 0>> ELSE <<rslot, roffset>>

RefPassedBy(f) == LET p == RefPlaceOf(f)
                  IN  IF NewSlot(f) THEN <<p[1] + f.size, 0>> ELSE <<p[1], p[2] + f.size>>

RefTotalSlots == IF roffset > 0 THEN rslot + 1 ELSE rslot

----------------------------------------------------------------------------
\* Every field before the i-th is passed as Slither passes it.
Trusted(i) == \A j \in 1..(i - 1) : harmless[j]

\* What is passed where it has its place, and by its own length.
Harmless(f) == \/ Elementary(f)
               \/ /\ offset = 0
                  /\ f.kind = "array" => f.size = 1
                  /\ f.kind = "struct" => f.sound

Declare(f) == /\ Len(fields) < MaxFields
              /\ fields' = Append(fields, f)
              /\ placed' = Append(placed, PlaceOf(f))
              /\ slot'   = PassedBy(f)[1] /\ offset' = PassedBy(f)[2]
              /\ ref'    = Append(ref, RefPlaceOf(f))
              /\ rslot'  = RefPassedBy(f)[1] /\ roffset' = RefPassedBy(f)[2]
              /\ harmless' = Append(harmless, Harmless(f))
              /\ UNCHANGED structs

\* The end of a struct that others will have as a field.
Close == /\ fields # <<>> /\ Cardinality(structs) < MaxStructs
         /\ structs' = structs \cup {[kind |-> "struct", size |-> RefTotalSlots, count |-> TotalSlots,
                                      sound |-> Trusted(Len(fields) + 1)]}
         /\ fields' = <<>> /\ placed' = <<>> /\ ref' = <<>> /\ harmless' = <<>>
         /\ slot' = 0 /\ offset' = 0 /\ rslot' = 0 /\ roffset' = 0

Next == Close \/ \E f \in Fields \cup structs : Declare(f)

Spec == Init /\ [][Next]_vars

----------------------------------------------------------------------------
\* Up to the first array, mapping or struct that does not begin a slot of
\* Entity's count, the first array of several slots, and the first struct that
\* has a field of these kinds itself, at any depth, Entity finds every field
\* where Slither and Solidity put it.
LayoutAgrees == \A i \in 1..Len(fields) : Trusted(i) => placed[i] = ref[i]

\* And the struct takes as many slots.
SizeAgrees == Trusted(Len(fields) + 1) => TotalSlots = RefTotalSlots

\* Until then the two loops stand at the same byte: a slot filled to the brim by
\* a string is the beginning of the next one for Slither.
SameByte == Trusted(Len(fields) + 1) =>
              \/ slot = rslot /\ offset = roffset
              \/ slot + 1 = rslot /\ offset = Word /\ roffset = 0

\* The recursive call counts a sound struct as Slither does.
StructsCounted == \A s \in structs : s.sound => s.count = s.size

\* The structs among the fields have been gone through.
FieldsKnown == \A i \in 1..Len(fields) : fields[i] \in Fields \cup structs

IInv == TypeOK /\ LayoutAgrees /\ SameByte /\ StructsCounted /\ FieldsKnown

Start(p)  == p[1] * Word + p[2]
Length(f) == IF f.kind = "packed" THEN f.size ELSE f.size * Word

\* Up to the first field passed by wrongly no two fields share a byte.
TrustedApart == \A i, j \in 1..Len(fields) :
                  i < j /\ Trusted(j) => Start(placed[i]) + Length(fields[i]) <= Start(placed[j])

\* No two fields share a byte.
FieldsApart == \A i, j \in 1..Len(fields) :
                 i < j => Start(placed[i]) + Length(fields[i]) <= Start(placed[j])

=============================================================================
