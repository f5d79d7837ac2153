SPECIFICATION FairSpec
CONSTANTS
  Table <- ShortTable
  ReadBack <- DacControl
  MaxRestarts = 2
  Nacks = TRUE
INVARIANTS
  TypeOK
  ConfiguredBeforeEnable
  NoStrayWrite
  ReadsBack
PROPERTY Finishes
CHECK_DEADLOCK FALSE
