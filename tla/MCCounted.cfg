SPECIFICATION MCSpec
CONSTANTS
  hub = hub
  spoke = spoke
  hubVault = hubVault
  hubTwin = hubTwin
  spokeVault = spokeVault
  Chain = {hub, spoke}
  Vault = {hubVault, spokeVault}
  Account = {wallet, other}
  Wallet = wallet
  Staleness = {1, 2}
  Slot = {1, 2}
  Hub = {hub}
  Relayed = {hub, spoke}
  Contexts <- Both
  Home <- MCHome
  Interval = 1
  RunOnce = FALSE
  MinWeight = 1000
  Amount = {1, 2}
  PnL <- MCPnL
  MaxIdle = 2
  MaxPending = 1
  MaxTime = 2
  Recording = FALSE
  MaxChanges = 0
INVARIANT
  PnLCountedOnce
CHECK_DEADLOCK FALSE
