SPECIFICATION ParserSpec
CONSTANTS
  Bases = {0}
  FlagSets <- MCSets
  EmptyStacks = FALSE
  UserRegs = 3
  IntrRegs = 2
  Kinds <- MCKinds
  Lengths = {1, 3, 7, 8, 9}
  NamespacesWithId = TRUE
INVARIANT FieldsAreExact
CHECK_DEADLOCK FALSE
