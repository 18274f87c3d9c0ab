SPECIFICATION ParserSpec
CONSTANTS
  Bases = {0}
  FlagSets <- MCSets
  EmptyStacks = TRUE
  UserRegs = 3
  IntrRegs = 2
  Kinds <- MCKinds
  Lengths = {1, 3, 7, 8, 9}
  NamespacesWithId = FALSE
INVARIANT FieldsAreExact
CHECK_DEADLOCK FALSE
