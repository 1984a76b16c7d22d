SPECIFICATION MCSpec
CONSTANTS
  u1 = u1
  u2 = u2
  Setups = {"hub", "queue", "policy", "fills", "rwa"}
  Self = self
  User = {u1, u2}
  Deposits = {20, 40}
  ShareAmount = {13, 19, 25, 38}
  PerpAmount = {10, 20, 30}
  Payback = {0, 20, 40}
  Mark <- MCMark
  FeeBps = {500}
  Bps = {5000}
  Cap = {10}
  Weight = {0, 5000, 10000}
  MaxQueue = 3
  MaxUsdc = 60
  StartWallet = 40
  Collateral = {10, 20}
  Bridged = {5, 20}
  MaxFills = 3
  Funds = 2
  ReserveAmount = {6}
  TokenPrice = {3, 4, 5}
  E12 = 2
  ORACLE_PRECISION = 4
  MaxHeld = 14
CHECK_DEADLOCK FALSE
INVARIANTS
  TypeOK
  QueueExact
PROPERTIES
  CapitalKept
  NoDilution
  RedemptionPaid
  FillsArrive
  ReserveKeepsWorth
