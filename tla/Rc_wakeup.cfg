SPECIFICATION Spec
CONSTANTS
  NoConsole = TRUE
  MaxSignals = 1
  MaxNotes = 0
INVARIANT
  WakesForStateChange
