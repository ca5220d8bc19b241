SPECIFICATION Spec
CONSTANTS
  Guests <- OneGuest
  Names = {b1, b2}
  Values = {a1, a2}
  Unknown = Unknown
  None = None
  MaxIds = 1
  MaxEdits = 2
  MaxPasses = 5
  Direct = TRUE
SYMMETRY Symmetry
PROPERTY HandEditsKept
CHECK_DEADLOCK FALSE
