SPECIFICATION Spec
CONSTANTS
  Kinds <- MCKinds
  OutcomeOf <- MCOutcomeOf
  Streams <- MCStreams
  Bodies = {0, 1}
INVARIANTS
  TypeOK
  Conservation
  PacedIntact
PROPERTIES
  Implements
  FreshRead
  SessionEnds
  HeadsHandled
CHECK_DEADLOCK FALSE
