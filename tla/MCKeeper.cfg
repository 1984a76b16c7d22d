SPECIFICATION MCSpec
CONSTANTS
  hub = hub
  spoke = spoke
  hubVault = hubVault
  hubTwin = hubTwin
  spokeVault = spokeVault
  Chain = {hub, spoke}
  Vault = {hubVault, hubTwin, spokeVault}
  Account = {wallet, other}
  Wallet = wallet
  Staleness = {1, 2}
  Slot = {1, 2}
  Hub = {hub}
  Relayed = {hub, spoke}
  Contexts <- BothOrHub
  Home <- MCHome
  Interval = 1
  RunOnce = FALSE
  MinWeight = 1000
  Amount = {1}
  PnL <- MCPnL
  MaxIdle = 2
  MaxPending = 1
  MaxTime = 2
  Recording = TRUE
  MaxChanges = 2
INVARIANTS
  TypeOK
  OnlyStaleReverts
  OneReading
  SameTimeSameTable
PROPERTY
  ForwardUnlessOverlapped
CHECK_DEADLOCK FALSE
