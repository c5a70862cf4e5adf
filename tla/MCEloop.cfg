SPECIFICATION Spec
CONSTANTS
  Handlers = {f, g}
  Contexts = {c}
  AllContexts = AllContexts
  Delays = {0, 1, 3, 8, 98}
  Budgets = {0, 1}
  Forever = Forever
  PerMs = 3
  U64Max = 99
  WaitMax = 3
  OsMayFail = TRUE
  MaxTime = 3
  MaxInsertions = 3
INVARIANTS
  ListSound
  EachTimerOnce
  SleepMeetsDeadline
