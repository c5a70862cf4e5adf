SPECIFICATION FairSpec
CONSTANTS
  Handlers = {f}
  Contexts = {c}
  AllContexts = AllContexts
  Delays = {0, 1, 3}
  Budgets = {0, 1, 2}
  Forever = Forever
  PerMs = 2
  U64Max = 99
  WaitMax = 3
  OsMayFail = FALSE
  MaxTime = 5
  MaxInsertions = 2
PROPERTIES
  NothingDueLeftBehind
  TimersResolve
