CONSTANTS
  Channels = {c1, c2, c3, c4}
  Events = {read, write}
  None = none
SPECIFICATION Spec
INVARIANT PollerInStep
PROPERTY ImplementsRegistry
SYMMETRY Symmetry
