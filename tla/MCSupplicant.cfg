SPECIFICATION Spec
CONSTANTS
  States = {"INTERFACE_DISABLED", "DISCONNECTED", "SCANNING", "ASSOCIATING", "ASSOCIATED", "COMPLETED"}
  Room = 1
  CountMax = 1
  FirstEapolDelay = 2
  FallbackDelay = 1
  HostapDelays = {1}
  ConsumerReads = FALSE
  Budgets = {0, 2}
  AllocMayFail = TRUE
  MaxInputs = 4
INVARIANTS
  RecoveryDriven
  QuietAfterDisconnect
PROPERTIES
  CachedRetryIsSafe
  ImplementsFirstEapolRetry
  ImplementsTempRejectRetry
