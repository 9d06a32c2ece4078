SPECIFICATION Spec
CONSTANTS
  Base <- MCBase
  Variants <- MCVariants
  MaxEdits = 2
INVARIANTS
  ServesSound
PROPERTIES
  ReloadLoadsAgree
CHECK_DEADLOCK FALSE
