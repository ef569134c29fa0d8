\* Structs of up to four fields, two of which may be fields of later ones.
CONSTANTS
  Word = 4
  Fields <- MCFields
  MaxFields = 4
  MaxStructs = 2
SPECIFICATION Spec
INVARIANTS LayoutAgrees SizeAgrees TrustedApart
CHECK_DEADLOCK FALSE
