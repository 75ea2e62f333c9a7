SPECIFICATION FairLifecycle
CONSTANTS
  Clients = {c1, c2, c3}
  AppTokens = {app}
  WindowLimit = 2
  MaxWindows = 3
  MaxTokens = 3
INVARIANTS TaskFindsItsWindow PointersAgree TokensAgree OwnTokensAreUsed
PROPERTIES RemovedGoes
CHECK_DEADLOCK FALSE
