------------------------- MODULE StructLayoutProofs -------------------------
(* What StructLayout's runs check, for every slot size and every struct.    *)
EXTENDS StructLayout, TLAPS

\* A field has one of the five shapes.
LEMMA FieldShape ==
  ASSUME NEW f \in Field \cup Struct
  PROVE  /\ f.kind \in {"packed", "string", "mapping", "array", "struct"}
         /\ f.kind = "packed" => f.size \in 1..Word
         /\ f.kind \in {"string", "mapping"} => f.size = 1
         /\ f.kind = "struct" => f \in Struct /\ f.count \in Nat
         /\ f.size \in Nat
  BY StructLayoutAssumption DEF Field, Struct

\* What can be declared is a field.
LEMMA Declarable ==
  ASSUME TypeOK, NEW f \in Fields \cup structs
  PROVE  f \in Field \cup Struct
  BY StructLayoutAssumption DEF TypeOK

\* Whether a field is passed by harmlessly is a truth value.
LEMMA HarmlessType ==
  ASSUME NEW f \in Field \cup Struct
  PROVE  Harmless(f) \in BOOLEAN
  BY DEF Harmless, Elementary, Field, Struct

\* One turn of Entity's loop: the place it answers and where it goes on.
LEMMA EntityTurn ==
  ASSUME TypeOK, NEW f \in Field \cup Struct
  PROVE  /\ PlaceOf(f) \in Place
         /\ PassedBy(f) \in Nat \X (0..Word)
  <1>1. /\ slot \in Nat /\ offset \in 0..Word /\ Word \in Nat \ {0}
    BY StructLayoutAssumption DEF TypeOK
  <1>2. PlaceOf(f) \in Place
    BY <1>1 DEF PlaceOf, Place
  <1>3. PassedBy(f) \in Nat \X (0..Word)
    <2>1. CASE Elementary(f)
      <3>1. Bytes(f) \in 1..Word
        BY <1>1, <2>1, FieldShape DEF Elementary, Bytes
      <3>2. Fits(f) => offset + Bytes(f) \in 0..Word
        BY <1>1, <3>1 DEF Fits
      <3> QED
        BY <1>1, <2>1, <3>1, <3>2 DEF PassedBy
    <2>2. CASE ~Elementary(f)
      BY <1>1, <2>2, FieldShape DEF PassedBy, Elementary
    <2> QED BY <2>1, <2>2
  <1> QED BY <1>2, <1>3

\* One turn of Slither's loop.
LEMMA SlitherTurn ==
  ASSUME TypeOK, NEW f \in Field \cup Struct
  PROVE  /\ RefPlaceOf(f) \in Place
         /\ RefPassedBy(f) \in Nat \X (0..Word)
  <1>1. /\ rslot \in Nat /\ roffset \in 0..Word /\ Word \in Nat \ {0}
    BY StructLayoutAssumption DEF TypeOK
  <1>2. RefPlaceOf(f) \in Place
    BY <1>1 DEF RefPlaceOf, Place
  <1>3. RefPassedBy(f) \in Nat \X (0..Word)
    <2>1. CASE NewSlot(f)
      BY <1>1, <1>2, <2>1, FieldShape DEF RefPassedBy, Place
    <2>2. CASE ~NewSlot(f)
      BY <1>1, <2>2, FieldShape DEF RefPassedBy, RefPlaceOf, NewSlot
    <2> QED BY <2>1, <2>2
  <1> QED BY <1>2, <1>3

\* From the same byte both loops give a field the same place, and if Entity's
\* passes it harmlessly they meet again.
LEMMA SameTurn ==
  ASSUME TypeOK, StructsCounted, NEW f \in Fields \cup structs,
         \/ slot = rslot /\ offset = roffset
         \/ slot + 1 = rslot /\ offset = Word /\ roffset = 0
  PROVE  /\ PlaceOf(f) = RefPlaceOf(f)
         /\ Harmless(f) =>
              LET p == PassedBy(f)
                  r == RefPassedBy(f)
              IN  \/ p[1] = r[1] /\ p[2] = r[2]
                  \/ p[1] + 1 = r[1] /\ p[2] = Word /\ r[2] = 0
  <1>1. /\ slot \in Nat /\ offset \in 0..Word /\ rslot \in Nat /\ roffset \in 0..Word
        /\ Word \in Nat \ {0}
    BY StructLayoutAssumption DEF TypeOK
  <1>2. f \in Field \cup Struct
    BY Declarable
  <1>3. CASE f.kind = "packed"
    BY <1>1, <1>2, <1>3, FieldShape
    DEF PlaceOf, RefPlaceOf, PassedBy, RefPassedBy, Elementary, Fits, Bytes, NewSlot
  <1>4. CASE f.kind = "string"
    BY <1>1, <1>2, <1>4, FieldShape
    DEF PlaceOf, RefPlaceOf, PassedBy, RefPassedBy, Elementary, Fits, Bytes, NewSlot
  <1>5. CASE f.kind \in {"mapping", "array"}
    BY <1>1, <1>2, <1>5, FieldShape
    DEF PlaceOf, RefPlaceOf, PassedBy, RefPassedBy, Elementary, Fits, Bytes, NewSlot, Harmless
  <1>6. CASE f.kind = "struct"
    <2>1. f.sound => f.count = f.size
      BY <1>6, StructLayoutAssumption DEF StructsCounted, Field
    <2> QED
      BY <1>1, <1>2, <1>6, <2>1, FieldShape
      DEF PlaceOf, RefPlaceOf, PassedBy, RefPassedBy, Elementary, Fits, Bytes, NewSlot, Harmless
  <1> QED BY <1>2, <1>3, <1>4, <1>5, <1>6, FieldShape

\* Every declaration keeps the inductive invariant.
LEMMA DeclareInductive ==
  ASSUME IInv, NEW f \in Fields \cup structs, Declare(f)
  PROVE  IInv'
  <1> USE DEF IInv
  <1>0. f \in Field \cup Struct
    BY Declarable
  <1>1. TypeOK'
    <2>1. /\ PlaceOf(f) \in Place /\ RefPlaceOf(f) \in Place
          /\ PassedBy(f) \in Nat \X (0..Word) /\ RefPassedBy(f) \in Nat \X (0..Word)
      BY <1>0, EntityTurn, SlitherTurn
    <2>2. /\ slot' \in Nat /\ offset' \in 0..Word /\ rslot' \in Nat /\ roffset' \in 0..Word
      BY <2>1 DEF Declare
    <2>3. /\ fields' \in Seq(Field \cup Struct) /\ Len(fields') = Len(fields) + 1
          /\ placed' \in Seq(Place) /\ Len(placed') = Len(fields) + 1
          /\ ref' \in Seq(Place) /\ Len(ref') = Len(fields) + 1
          /\ harmless' \in Seq(BOOLEAN) /\ Len(harmless') = Len(fields) + 1
      BY <1>0, <2>1, HarmlessType DEF Declare, TypeOK
    <2>4. structs' \subseteq Struct
      BY DEF Declare, TypeOK
    <2> QED BY <2>2, <2>3, <2>4 DEF TypeOK
  <1> DEFINE n == Len(fields)
             h == Harmless(f)
  <1>2. /\ n \in Nat /\ Len(fields') = n + 1
        /\ \A i \in 1..n : /\ placed'[i] = placed[i] /\ ref'[i] = ref[i]
                           /\ harmless'[i] = harmless[i]
        /\ placed'[n + 1] = PlaceOf(f) /\ ref'[n + 1] = RefPlaceOf(f)
        /\ harmless'[n + 1] = h
    <2>1. /\ n \in Nat /\ fields' = Append(fields, f) /\ fields \in Seq(Field \cup Struct)
          /\ placed' = Append(placed, PlaceOf(f)) /\ placed \in Seq(Place) /\ Len(placed) = n
          /\ ref' = Append(ref, RefPlaceOf(f)) /\ ref \in Seq(Place) /\ Len(ref) = n
          /\ harmless \in Seq(BOOLEAN) /\ Len(harmless) = n
      BY DEF TypeOK, Declare
    <2>2. harmless' = Append(harmless, h) /\ h \in BOOLEAN
      BY HarmlessType, <1>0 DEF Declare
    <2> HIDE DEF n, h
    <2>3. Len(fields') = n + 1
      BY <2>1 DEF n
    <2>4. /\ placed'[n + 1] = PlaceOf(f)
          /\ \A i \in 1..n : placed'[i] = placed[i]
      BY <2>1
    <2>5. /\ ref'[n + 1] = RefPlaceOf(f)
          /\ \A i \in 1..n : ref'[i] = ref[i]
      BY <2>1
    <2>6. /\ harmless'[n + 1] = h
          /\ \A i \in 1..n : harmless'[i] = harmless[i]
      BY <2>1, <2>2
    <2> QED BY <2>1, <2>3, <2>4, <2>5, <2>6
  <1>3. \A i \in 1..(n + 1) : Trusted(i)' => Trusted(i)
    BY <1>2 DEF Trusted
  <1>4. ASSUME Trusted(n + 1)
        PROVE  /\ PlaceOf(f) = RefPlaceOf(f)
               /\ h => \/ slot' = rslot' /\ offset' = roffset'
                       \/ slot' + 1 = rslot' /\ offset' = Word /\ roffset' = 0
    BY <1>4, SameTurn DEF SameByte, Declare
  <1>5. LayoutAgrees'
    <2> SUFFICES ASSUME NEW i \in 1..(n + 1), Trusted(i)'
                 PROVE  placed'[i] = ref'[i]
      BY <1>2 DEF LayoutAgrees
    <2>1. CASE i \in 1..n
      BY <1>2, <1>3, <2>1 DEF LayoutAgrees
    <2>2. CASE i = n + 1
      BY <1>2, <1>3, <1>4, <2>2
    <2> QED BY <1>2, <2>1, <2>2
  <1>6. SameByte'
    <2>1. ASSUME \A j \in 1..(n + 1) : harmless'[j]
          PROVE  \/ slot' = rslot' /\ offset' = roffset'
                 \/ slot' + 1 = rslot' /\ offset' = Word /\ roffset' = 0
      <3> HIDE DEF n, h
      <3>1. \A j \in 1..n : harmless[j]
        BY <1>2, <2>1
      <3>2. harmless'[n + 1]
        BY <1>2, <2>1
      <3>3. Trusted(n + 1)
        BY <1>2, <3>1 DEF Trusted
      <3>4. h
        BY <1>2, <3>2, Zenon
      <3> QED BY <1>4, <3>3, <3>4
    <2>2. 1..(Len(fields') + 1 - 1) = 1..(n + 1)
      BY <1>2
    <2>3. Trusted(Len(fields) + 1)' => \A j \in 1..(n + 1) : harmless'[j]
      <3> HIDE DEF n
      <3> SUFFICES ASSUME Trusted(Len(fields) + 1)', NEW j \in 1..(n + 1)
                   PROVE  harmless'[j]
        OBVIOUS
      <3>1. j \in 1..(Len(fields') + 1 - 1)
        BY <2>2
      <3> QED BY <3>1 DEF Trusted
    <2> QED BY <2>1, <2>3, Zenon DEF SameByte
  <1>7. StructsCounted'
    BY DEF StructsCounted, Declare
  <1>8. FieldsKnown'
    <2>1. /\ n \in Nat /\ fields' = Append(fields, f) /\ fields \in Seq(Field \cup Struct)
          /\ structs' = structs
      BY DEF TypeOK, Declare
    <2>2. /\ fields'[n + 1] = f
          /\ \A i \in 1..n : fields'[i] = fields[i]
      BY <1>0, <2>1
    <2> SUFFICES ASSUME NEW i \in 1..(n + 1) PROVE fields'[i] \in Fields \cup structs
      BY <1>2, <2>1 DEF FieldsKnown
    <2>3. CASE i = n + 1
      BY <2>2, <2>3
    <2>4. CASE i \in 1..n
      BY <2>2, <2>4 DEF FieldsKnown
    <2> QED BY <2>1, <2>3, <2>4
  <1> QED BY <1>1, <1>5, <1>6, <1>7, <1>8

\* What the runs check of the size follows.
LEMMA SizesAgree ==
  ASSUME IInv
  PROVE  SizeAgrees
  BY StructLayoutAssumption DEF IInv, TypeOK, SameByte, SizeAgrees, TotalSlots, RefTotalSlots

\* So a struct that is to be a field of others is counted as it should be.
LEMMA CloseInductive ==
  ASSUME IInv, Close
  PROVE  IInv'
  <1> DEFINE new == [kind |-> "struct", size |-> RefTotalSlots, count |-> TotalSlots,
                     sound |-> Trusted(Len(fields) + 1)]
  <1>1. /\ structs' = structs \cup {new}
        /\ fields' = <<>> /\ placed' = <<>> /\ ref' = <<>> /\ harmless' = <<>>
        /\ slot' = 0 /\ offset' = 0 /\ rslot' = 0 /\ roffset' = 0
    BY DEF Close
  <1>2. RefTotalSlots \in Nat /\ TotalSlots \in Nat /\ Trusted(Len(fields) + 1) \in BOOLEAN
    BY DEF IInv, TypeOK, RefTotalSlots, TotalSlots, Trusted
  <1>3. new \in Struct /\ (new.sound => new.count = new.size)
    BY <1>2, SizesAgree DEF Struct, SizeAgrees
  <1> HIDE DEF new
  <1>4. TypeOK'
    BY <1>1, <1>3, StructLayoutAssumption DEF IInv, TypeOK
  <1>5. StructsCounted'
    BY <1>1, <1>3 DEF IInv, StructsCounted
  <1>6. Len(fields') = 0
    BY <1>1
  <1>7. LayoutAgrees' /\ FieldsKnown' /\ SameByte'
    BY <1>1, <1>6 DEF LayoutAgrees, FieldsKnown, SameByte
  <1> QED BY <1>4, <1>5, <1>7 DEF IInv

\* IInv holds of every struct.
THEOREM InductiveInvariant == Spec => []IInv
  <1>1. Init => IInv
    BY StructLayoutAssumption
    DEF Init, IInv, TypeOK, LayoutAgrees, SameByte, StructsCounted, FieldsKnown, Place
  <1>2. IInv /\ [Next]_vars => IInv'
    <2> SUFFICES ASSUME IInv, [Next]_vars
                 PROVE  IInv'
      OBVIOUS
    <2>1. CASE Next
      BY <2>1, DeclareInductive, CloseInductive DEF Next
    <2>2. CASE UNCHANGED vars
      BY <2>2 DEF vars, IInv, TypeOK, LayoutAgrees, SameByte, StructsCounted, FieldsKnown, Trusted
    <2> QED BY <2>1, <2>2
  <1> QED BY <1>1, <1>2, PTL DEF Spec

\* The numbers of bytes in front of a place.
LEMMA StartType ==
  ASSUME NEW p \in Place
  PROVE  Start(p) \in Nat
  <1>1. p[1] \in Nat /\ p[2] \in Nat /\ Word \in Nat
    BY StructLayoutAssumption DEF Place
  <1>2. p[1] * Word \in Nat
    BY <1>1
  <1> QED BY <1>1, <1>2 DEF Start

\* Slither's loop never goes back, and passes the whole field.
LEMMA SlitherAdvances ==
  ASSUME TypeOK, NEW f \in Field \cup Struct
  PROVE  /\ Start(<<rslot, roffset>>) <= Start(RefPlaceOf(f))
         /\ Start(RefPlaceOf(f)) + Length(f) = Start(RefPassedBy(f))
  <1>1. /\ rslot \in Nat /\ roffset \in 0..Word /\ Word \in Nat \ {0}
    BY StructLayoutAssumption DEF TypeOK
  <1>2. rslot * Word \in Nat /\ (rslot + 1) * Word = rslot * Word + Word
    BY <1>1
  <1>3. /\ Start(<<rslot, roffset>>) = rslot * Word + roffset
        /\ Start(<<rslot + 1, 0>>) = rslot * Word + Word
    BY <1>1, <1>2 DEF Start
  <1>4. Start(<<rslot, roffset>>) <= Start(RefPlaceOf(f))
    BY <1>1, <1>2, <1>3 DEF RefPlaceOf
  <1>5. Start(RefPlaceOf(f)) + Length(f) = Start(RefPassedBy(f))
    <2> DEFINE p == RefPlaceOf(f)
    <2>1. p \in Place /\ p[1] \in Nat /\ p[2] \in Nat
      BY SlitherTurn DEF Place
    <2> HIDE DEF p
    <2>2. CASE NewSlot(f)
      <3>1. p[2] = 0
        BY <1>1, <2>2 DEF p, RefPlaceOf
      <3>2. RefPassedBy(f) = <<p[1] + f.size, 0>> /\ Length(f) = f.size * Word
        BY <2>2 DEF p, RefPassedBy, Length, NewSlot
      <3>3. f.size \in Nat /\ (p[1] + f.size) * Word = p[1] * Word + f.size * Word
        BY <1>1, <2>1, FieldShape
      <3> QED BY <1>1, <2>1, <3>1, <3>2, <3>3 DEF Start, p
    <2>3. CASE ~NewSlot(f)
      <3>1. RefPassedBy(f) = <<p[1], p[2] + f.size>> /\ Length(f) = f.size /\ f.size \in Nat
        BY <2>3, FieldShape DEF p, RefPassedBy, Length, NewSlot
      <3>2. p[1] * Word \in Nat
        BY <1>1, <2>1
      <3> QED BY <2>1, <3>1, <3>2 DEF Start, p
    <2> QED BY <2>2, <2>3
  <1> QED BY <1>4, <1>5

\* The fields Slither has placed lie apart, and before its loop's place.
RefApart == \A i \in 1..Len(fields) :
  /\ Start(ref[i]) + Length(fields[i]) <= Start(<<rslot, roffset>>)
  /\ \A j \in 1..Len(fields) : i < j => Start(ref[i]) + Length(fields[i]) <= Start(ref[j])

\* One more field.
LEMMA RefApartStep ==
  ASSUME TypeOK, RefApart, NEW f \in Field \cup Struct, Declare(f)
  PROVE  RefApart'
  <1> DEFINE n == Len(fields)
             End(i) == Start(ref[i]) + Length(fields[i])
             here == Start(<<rslot, roffset>>)
             place == Start(RefPlaceOf(f))
  <1>1. /\ n \in Nat /\ Len(fields') = n + 1
        /\ \A i \in 1..n : ref'[i] = ref[i] /\ fields'[i] = fields[i]
        /\ ref'[n + 1] = RefPlaceOf(f) /\ fields'[n + 1] = f
    <2>1. /\ fields' = Append(fields, f) /\ fields \in Seq(Field \cup Struct)
          /\ ref' = Append(ref, RefPlaceOf(f)) /\ ref \in Seq(Place) /\ Len(ref) = Len(fields)
      BY DEF Declare, TypeOK
    <2> QED BY <2>1
  <1>2. Start(<<rslot', roffset'>>) = place + Length(f) /\ here <= place
    <2>1. Start(RefPassedBy(f)) = Start(<<rslot', roffset'>>)
      BY DEF Declare, Start
    <2> QED BY <2>1, SlitherAdvances
  <1>3. here \in Nat /\ place \in Nat /\ Length(f) \in Nat
    <2>1. <<rslot, roffset>> \in Place
      BY StructLayoutAssumption DEF TypeOK, Place
    <2>2. Length(f) \in Nat
      BY FieldShape, StructLayoutAssumption DEF Length
    <2> QED BY <2>1, <2>2, StartType, SlitherTurn
  <1>4. \A i \in 1..n : End(i) \in Nat /\ End(i) <= here
    <2> SUFFICES ASSUME NEW i \in 1..n PROVE End(i) \in Nat /\ End(i) <= here
      OBVIOUS
    <2>1. ref[i] \in Place /\ fields[i] \in Field \cup Struct
      BY DEF TypeOK
    <2>2. Length(fields[i]) \in Nat
      BY <2>1, FieldShape, StructLayoutAssumption DEF Length
    <2> QED BY <2>1, <2>2, StartType DEF RefApart
  <1> SUFFICES ASSUME NEW i \in 1..(n + 1)
               PROVE  /\ Start(ref'[i]) + Length(fields'[i]) <= Start(<<rslot', roffset'>>)
                      /\ \A j \in 1..(n + 1) : i < j =>
                           Start(ref'[i]) + Length(fields'[i]) <= Start(ref'[j])
    BY <1>1 DEF RefApart, Start, Length
  <1>5. CASE i = n + 1
    BY <1>1, <1>2, <1>3, <1>5
  <1>6. CASE i \in 1..n
    <2>1. Start(ref'[i]) + Length(fields'[i]) = End(i)
      BY <1>1, <1>6
    <2>2. End(i) <= place /\ End(i) <= place + Length(f)
      <3>1. End(i) \in Nat /\ End(i) <= here
        BY <1>4, <1>6
      <3>2. here <= place
        BY <1>2
      <3> HIDE DEF End, here, place
      <3> QED BY <1>3, <3>1, <3>2
    <2>3. ASSUME NEW j \in 1..(n + 1), i < j PROVE End(i) <= Start(ref'[j])
      <3>1. CASE j = n + 1
        BY <1>1, <2>2, <3>1
      <3>2. CASE j \in 1..n
        BY <1>1, <1>6, <2>3, <3>2 DEF RefApart
      <3> QED BY <1>1, <3>1, <3>2
    <2> QED BY <1>2, <2>1, <2>2, <2>3
  <1> QED BY <1>1, <1>5, <1>6

\* Every variable keeps its type: no offset lies past the end of a slot.
THEOREM TypeCorrect == Spec => []TypeOK
  <1>1. IInv => TypeOK
    BY DEF IInv
  <1> QED BY <1>1, InductiveInvariant, PTL

\* Up to the first field its loop mishandles, Entity finds every field where
\* Slither and Solidity put it.
THEOREM LayoutCorrect == Spec => []LayoutAgrees
  <1>1. IInv => LayoutAgrees
    BY DEF IInv
  <1> QED BY <1>1, InductiveInvariant, PTL

\* Up to there, Entity counts the slots of a struct as Slither does; its recursive
\* calls for the structs among the fields do too.
THEOREM SizeCorrect == Spec => []SizeAgrees
  <1>1. IInv => SizeAgrees
    BY SizesAgree
  <1> QED BY <1>1, InductiveInvariant, PTL

\* Slither's layout, and with it Solidity's, never lets two fields share a byte.
THEOREM ReferenceApart == Spec => []RefApart
  <1>1. Init => RefApart
    BY DEF Init, RefApart
  <1>2. TypeOK /\ RefApart /\ [Next]_vars => RefApart'
    <2>1. RefApart /\ UNCHANGED vars => RefApart'
      BY DEF vars, RefApart, Start, Length
    <2>2. TypeOK /\ RefApart /\ Close => RefApart'
      BY DEF Close, RefApart
    <2> QED BY <2>1, <2>2, Declarable, RefApartStep DEF Next
  <1> QED BY <1>1, <1>2, TypeCorrect, PTL DEF Spec

\* Up to the first field its loop mishandles, Entity never gives a byte to two
\* fields.
THEOREM EntityApart == Spec => []TrustedApart
  <1>1. IInv /\ RefApart => TrustedApart
    <2> SUFFICES ASSUME IInv, RefApart, NEW i \in 1..Len(fields), NEW j \in 1..Len(fields),
                        i < j, Trusted(j)
                 PROVE  Start(placed[i]) + Length(fields[i]) <= Start(placed[j])
      BY DEF TrustedApart
    <2>1. Trusted(i)
      BY DEF Trusted, IInv, TypeOK
    <2>2. placed[i] = ref[i] /\ placed[j] = ref[j]
      BY <2>1 DEF IInv, LayoutAgrees
    <2> QED BY <2>2 DEF RefApart
  <1> QED BY <1>1, InductiveInvariant, ReferenceApart, PTL

=============================================================================
