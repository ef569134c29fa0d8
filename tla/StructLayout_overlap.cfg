\* A mapping, a struct or an array after a packed field.
CONSTANTS
  Word = 4
  Fields <- MCFields
  MaxFields = 3
  MaxStructs = 1
SPECIFICATION Spec
INVARIANTS FieldsApart
CHECK_DEADLOCK FALSE
