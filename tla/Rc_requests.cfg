SPECIFICATION FairSpec
CONSTANTS
  NoConsole = FALSE
  MaxSignals = 3
  MaxNotes = 3
INVARIANTS
  TypeOK
  RecordedKept
  LayersSound
  SettledAsAsked
PROPERTY
  ReturnsToIdle
