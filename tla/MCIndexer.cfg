SPECIFICATION MCSpec
CONSTANTS
  Asset = {a, b}
  User = {u, v}
  Day = {1, 2}
  Relay = {hub, spoke}
  Selector = {x, y}
  MaxAssets = 2
  MaxBlock = 4
  MaxEpoch = 2
  MaxStarts = 2
SYMMETRY Identities
CHECK_DEADLOCK FALSE
INVARIANTS
  TypeOK
  RowsExact
  BasketFresh
  PoolConverges
