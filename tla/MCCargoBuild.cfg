SPECIFICATION MCSpec
CONSTANTS
  UNUSED = UNUSED
  ABSENT = ABSENT
  PARTIAL = PARTIAL
  first = first
  second = second
  Worlds <- MCWorlds
  Edited <- MCEdited
  Pinned <- MCPinned
  PatchCount = 2
  MaxEdits = 2
  Process <- Commands
  Supplicant <- MCSupplicant
  Authenticator <- MCAuthenticator
  MaxSourceEdits = 1
  MaxCrashes = 2
  Cargo = TRUE
  NoWorld <- MCNoWorld
  RomTables <- MCTables
  Placements <- MCPlacements
  WordLimit = 256
  Page = 16
  ROM_START = 32
  ROM_END = 64
  PATCH_VMA = 64
  DATA_PATCH_ENTRY_COUNT = 2
  INSTRUCTION_COMPARE_COUNT = 3
  COMPARE_HEADER_WORDS = 3
  NO_ARCHIVE = NO_ARCHIVE
SYMMETRY MCSymmetry
INVARIANTS
  LinkedIsPinned
  OutputIsFresh
  OneHostap
  TableRight
  OkIsReproducible
  OnlyReleased
