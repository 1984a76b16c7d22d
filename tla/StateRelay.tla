----------------------------- MODULE StateRelay -----------------------------
(***************************************************************************)
(* src/src/coordination/StateRelay.sol, one instance on each chain: the    *)
(* routing table and the PnL adjustments that the keeper posts, and the    *)
(* local weight that BasketVault.deposit is guarded by.                    *)
(*                                                                         *)
(* Every variable is a function of the chain.  An update is a record of    *)
(* the arguments of updateState: the table (chains, weights, amounts, in   *)
(* the same order), the listed vaults with their adjustments, the time,    *)
(* and who signed it.  A revert is the absence of a step.                  *)
(***************************************************************************)
EXTENDS RoutingMath

CONSTANTS
  Chain,
  Vault,      \* baskets of all chains
  Account,    \* who may sign an update
  Staleness   \* values of maxStaleness the owner may choose

VARIABLES
  keeper,
  lastUpdateTime,
  maxStaleness,
  table,                \* _chainSelectors, _weights and _amounts
  localWeight,
  globalPnLAdjustment,
  pnlUpdateTime

settings == <<keeper, maxStaleness>>
posted == <<lastUpdateTime, table, localWeight, globalPnLAdjustment, pnlUpdateTime>>
relay == <<settings, posted>>

EmptyTable == [chains |-> <<>>, weights |-> <<>>, amounts |-> <<>>]

RelayInit ==
  /\ keeper \in [Chain -> Account]
  /\ maxStaleness \in [Chain -> Staleness]
  /\ lastUpdateTime = [c \in Chain |-> 0]
  /\ table = [c \in Chain |-> EmptyTable]
  /\ localWeight = [c \in Chain |-> 0]
  /\ globalPnLAdjustment = [c \in Chain |-> [v \in Vault |-> 0]]
  /\ pnlUpdateTime = [c \in Chain |-> [v \in Vault |-> 0]]

-----------------------------------------------------------------------------
(* Owner.                                                                  *)

setKeeper(c, account) ==
  /\ keeper' = [keeper EXCEPT ![c] = account]
  /\ UNCHANGED <<maxStaleness, posted>>

setMaxStaleness(c, seconds) ==
  /\ maxStaleness' = [maxStaleness EXCEPT ![c] = seconds]
  /\ UNCHANGED <<keeper, posted>>

-----------------------------------------------------------------------------
(* Keeper.                                                                 *)

\* _validateWeights and the lengths: what an update needs besides its time.
WellFormed(u) ==
  /\ Len(u.table.weights) = Len(u.table.chains)
  /\ Len(u.table.amounts) = Len(u.table.chains)
  /\ Total(u.table.weights) = BPS

\* updateState would not revert with OnlyKeeper or StaleTimestamp.
InTurn(c, u) == u.signer = keeper[c] /\ u.ts > lastUpdateTime[c]

\* The weight of the first entry for this chain, and 0 if there is none.
WeightOf(c, t) ==
  LET places == {i \in DOMAIN t.chains : t.chains[i] = c}
  IN  IF places = {} THEN 0
      ELSE t.weights[CHOOSE i \in places : \A j \in places : i <= j]

\* Mutation: a table that did not change keeps its adjustments.
AdjustedByTable(c, u) ==
  [v \in Vault |-> IF v \in u.vaults /\ u.table # table[c]
                   THEN u.pnl[v] ELSE globalPnLAdjustment[c][v]]

\* Mutation: an adjustment that did not change keeps its time.
StampedIfChanged(c, u) ==
  [v \in Vault |-> IF v \in u.vaults /\ u.pnl[v] # globalPnLAdjustment[c][v]
                   THEN u.ts ELSE pnlUpdateTime[c][v]]

\* The adjustments of the listed vaults, and their time.
Adjusted(c, u) ==
  [v \in Vault |-> IF v \in u.vaults THEN u.pnl[v] ELSE globalPnLAdjustment[c][v]]

Stamped(c, u) ==
  [v \in Vault |-> IF v \in u.vaults THEN u.ts ELSE pnlUpdateTime[c][v]]

updateState(c, u) ==
  /\ InTurn(c, u)
  /\ WellFormed(u)
  /\ table' = [table EXCEPT ![c] = u.table]
  /\ localWeight' = [localWeight EXCEPT ![c] = WeightOf(c, u.table)]
  /\ globalPnLAdjustment' = [globalPnLAdjustment EXCEPT ![c] = Adjusted(c, u)]
  /\ pnlUpdateTime' = [pnlUpdateTime EXCEPT ![c] = Stamped(c, u)]
  /\ lastUpdateTime' = [lastUpdateTime EXCEPT ![c] = u.ts]
  /\ UNCHANGED settings

-----------------------------------------------------------------------------
(* getGlobalPnLAdjustment as _pricingNav uses it: nothing when stale.      *)

IsStale(c, v, time) ==
  pnlUpdateTime[c][v] = 0 \/ time - pnlUpdateTime[c][v] > maxStaleness[c]

LiveAdjustment(c, v, time) ==
  IF IsStale(c, v, time) THEN 0 ELSE globalPnLAdjustment[c][v]
=============================================================================
