SPECIFICATION MCSpec
CONSTANTS
  Wallet = {w}
  Device = {phone}
  Chain = {c1, c2}
  Job = {j, k}
  First = j
  Main = c1
  Choice <- MCChoice
  PageLimit = 2
  Cooldown = 2
  MaxTime = 3
  MaxRows = 3
  MaxDeaths = 1
INVARIANTS
  DepositConfirmed
