SPECIFICATION FairSpec
CONSTANTS
  States = {"INTERFACE_DISABLED", "DISCONNECTED", "SCANNING", "ASSOCIATING", "ASSOCIATED", "COMPLETED"}
  Room = 1
  CountMax = 1
  FirstEapolDelay = 1
  FallbackDelay = 1
  HostapDelays = {1}
  ConsumerReads = TRUE
  Budgets = {0, 1}
  AllocMayFail = FALSE
  MaxInputs = 3
INVARIANT ConsumerCurrent
PROPERTY RetriesResolve
