SPECIFICATION FairSpec
CONSTANTS
  MaxRestarts = 2
  MaxEvents = 2
  MaxCalls = 1
CONSTRAINT BeforeRace
INVARIANTS
  TypeOK
  UndefinedOnlyByRace
  OneRecorder
  DownIsQuiet
  FlagsAgree
PROPERTIES
  DeinitReturns
