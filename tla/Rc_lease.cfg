SPECIFICATION Spec
CONSTANTS
  NoConsole = TRUE
  MaxSignals = 0
  MaxNotes = 2
INVARIANT
  LeaseRequestSafe
