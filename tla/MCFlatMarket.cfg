SPECIFICATION MCSpec
CONSTANTS
  v1 = v1
  v2 = v2
  va = va
  out = out
  t1 = t1
  Setups = {"flat"}
  NoToken = NoToken
  Vault = {v1, v2}
  VA = va
  Account = {va, v1, v2, out}
  Asset = {a1}
  IndexToken = {t1}
  Amount = {0, 1, 2}
  Size = {1, 2}
  CollateralDelta = {0, 1}
  Cap = {0, 1}
  MaxDeposited = 2
  Fee = {0, 1}
  Move <- MCMove
  LiqFee = 1
  MaxUsdg = 2
  StartUsdc <- MCStartUsdc
  s1 = s1
  c1 = c1
  p1 = p1
  Chain = {c1, c2, c3}
  Symbol = {s1, s2}
  Params = {p1, p2}
  Feed = {f}
  NoFeed = NoFeed
  None = None
  MaxListed = 3
  Ttl = {1, 2}
  MaxTime = 3
  MaxProposals = 4
  MaxEdits = 2
CHECK_DEADLOCK FALSE
INVARIANT
  FlatMarketNoPnL
