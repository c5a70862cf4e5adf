SPECIFICATION MCSpec
CONSTANTS
  UNUSED = UNUSED
  ABSENT = ABSENT
  NO_REPORT = NO_REPORT
  NO_MANIFEST = NO_MANIFEST
  NO_OWNER = NO_OWNER
  Symbols <- MCSymbols
  Inputs <- MCInputs
  RebuiltNeeds = {{}, {1}}
  MaxStack = 5
  MaxRounds = 2
  Archives <- MCArchives
  Names <- MCNames
  Builds = {1, 2}
  ArgumentLists <- MCArgumentLists
  MaxDirectoryReplaced = 1
  MaxRuns = 3
  ParityInputs <- MCParityInputs
  Profiles <- MCArchiveProfiles
  Contents <- MCContents
  MaxReplaced = 2
  TaskInputs <- MCRuns
  IdLimit = 4
INVARIANT FailsClosed
