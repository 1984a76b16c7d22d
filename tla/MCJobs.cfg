SPECIFICATION JobsSpec
CONSTANTS
  Wallet = {w}
  Device = {phone}
  Chain = {c1, c2}
  Job = {j, k}
  First = j
  Main = c1
  Choice <- MCChoice
  PageLimit = 2
  Cooldown = 2
  MaxTime = 3
  MaxRows = 3
  MaxDeaths = 1
  Agent = {miner, treasurer}
  Context = {sepolia, fuji}
  Hub = {sepolia}
  WriteLists <- MCWriteLists
  Direction <- MCDirection
  OpenCap = 2
  ShortCap = 1
  MaxEnforced = 1
  MaxTurns = 2
  MaxCalls = 2
  MaxVaults = 3
  MaxTrainings = 2
INVARIANTS
  TypeOK
  ToldAsLogged
  NothingPassed
  OwnVault
  OneVault
  TurnsInOrder
PROPERTIES
  EveryRowWorked
