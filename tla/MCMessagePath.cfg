\* Two records in the callbacks at once, and two disruptions.
SPECIFICATION Spec
CONSTANTS
  LogSize = 2
  MaxDisruptions = 2
INVARIANTS
  NothingSkipped
  ReasonTellsWhy
  TraitsMarkSuccess
PROPERTIES
  AllCommitted
  ImplementsAtLeastOnce
\* A process that committed everything has nothing left to do.
CHECK_DEADLOCK FALSE
