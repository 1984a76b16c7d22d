-------------------------- MODULE VaultAccounting --------------------------
(***************************************************************************)
(* src/src/perp/VaultAccounting.sol: the one trader that all basket vaults *)
(* share in the GMX vault.  It keeps, per vault, deposited capital,        *)
(* realised profit, open interest and locked collateral, and per           *)
(* (vault, asset, side) a tracked position, while GMX keeps one aggregated *)
(* leg per (index token, side).  It is composed with GmxVault: every open, *)
(* close, seed and unseed is one step of both, and other traders,          *)
(* liquidity providers and liquidators move GMX in between.                *)
(*                                                                         *)
(* Left out: the average price and funding snapshots of a tracked position *)
(* (only getVaultPnL reads them), the deprecated PositionTracking          *)
(* collateral field, the registeredVaults history, and who owns the        *)
(* contract; the caller checks are noted at each action.                   *)
(***************************************************************************)
EXTENDS GmxVault, Sequences

CONSTANTS
  Vault,           \* basket vaults, accounts themselves
  VA,              \* the account of this contract
  Asset,           \* oracle asset ids
  NoToken,         \* assetTokens[asset] before mapAssetToken
  Size,            \* sizes a caller may pass
  CollateralDelta, \* collateral a caller may ask back from a close
  Cap,             \* limits, caps and floors the owner may set
  MaxDeposited     \* bound of the model: the total ever credited at a time

ASSUME AccountingConstants ==
  /\ Vault \subseteq Account /\ VA \in Account \ Vault
  /\ IsFiniteSet(Vault) /\ IsFiniteSet(Asset)
  /\ NoToken \notin IndexToken
  /\ Size \subseteq Nat /\ CollateralDelta \subseteq Nat /\ Cap \subseteq Nat
  /\ MaxDeposited \in Nat
  /\ StartUsdc[VA] = 0

PosKey == Vault \X Asset \X Side
VaultOf(k) == k[1]
AssetOf(k) == k[2]

VARIABLES
  registered,         \* _vaultStates[vault], one variable per field
  depositedCapital,
  realisedPnL,
  openInterest,
  collateralLocked,
  positionCount,
  totalDeposited,
  tracking,           \* _positions
  openKeys,           \* _openPositionKeys
  keyIndex,           \* _openKeyIndex, 1-based, 0 for absent
  assetToken,         \* assetTokens
  maxOpenInterest, maxPositionSize, paused,
  seedCapPerEpoch, seedCapRemaining, unseedCapPerEpoch, unseedCapRemaining,
  minPoolFloor

capital == <<depositedCapital, realisedPnL, collateralLocked, totalDeposited>>
book == <<openInterest, positionCount, tracking, openKeys, keyIndex>>
settings == <<assetToken, maxOpenInterest, maxPositionSize, paused>>
seeding == <<seedCapPerEpoch, seedCapRemaining, unseedCapPerEpoch,
             unseedCapRemaining, minPoolFloor>>
vaVars == <<registered, capital, book, settings, seeding>>
vars == <<gmxVars, vaVars>>

\* GMX is not called: only USDC changes hands.
GmxIdle == UNCHANGED <<position, poolAmount, reservedAmount, guaranteedUsd,
                       globalShortSize, feeReserve, balance, usdgHeld, usdgIn>>

Untracked == [size |-> 0, collateralUsdc |-> 0, exists |-> FALSE]
ZeroEach == [v \in Vault |-> 0]

Init ==
  /\ GmxInit
  /\ registered = [v \in Vault |-> FALSE]
  /\ depositedCapital = ZeroEach /\ realisedPnL = ZeroEach
  /\ openInterest = ZeroEach /\ collateralLocked = ZeroEach
  /\ positionCount = ZeroEach
  /\ totalDeposited = 0
  /\ tracking = [k \in PosKey |-> Untracked]
  /\ openKeys = [v \in Vault |-> <<>>]
  /\ keyIndex = [k \in PosKey |-> 0]
  /\ assetToken = [a \in Asset |-> NoToken]
  /\ maxOpenInterest = ZeroEach /\ maxPositionSize = ZeroEach
  /\ paused = FALSE
  /\ seedCapPerEpoch = 0 /\ seedCapRemaining = 0
  /\ unseedCapPerEpoch = 0 /\ unseedCapRemaining = 0
  /\ minPoolFloor = 0

-----------------------------------------------------------------------------
(* Registration and settings (owner, or a wirer for the first two).        *)

\* The struct starts from zero, also when the vault was registered before;
\* its tracked positions are not in the struct.
RegisterVault(v) ==
  /\ ~ registered[v]
  /\ registered' = [registered EXCEPT ![v] = TRUE]
  /\ depositedCapital' = [depositedCapital EXCEPT ![v] = 0]
  /\ realisedPnL' = [realisedPnL EXCEPT ![v] = 0]
  /\ openInterest' = [openInterest EXCEPT ![v] = 0]
  /\ collateralLocked' = [collateralLocked EXCEPT ![v] = 0]
  /\ positionCount' = [positionCount EXCEPT ![v] = 0]
  /\ UNCHANGED <<gmxVars, totalDeposited, tracking, openKeys, keyIndex, settings,
                 seeding>>

MapAssetToken(a, t) ==
  /\ assetToken' = [assetToken EXCEPT ![a] = t]
  /\ UNCHANGED <<gmxVars, registered, capital, book, maxOpenInterest,
                 maxPositionSize, paused, seeding>>

\* Mutation: no look at the open interest.
DeregisterAnyVault(v) ==
  /\ registered[v]
  /\ registered' = [registered EXCEPT ![v] = FALSE]
  /\ UNCHANGED <<gmxVars, capital, book, settings, seeding>>

\* Mutation: the principal taken off the total and left on the vault's books.
DeregisterHalfway(v) ==
  /\ registered[v]
  /\ openInterest[v] = 0
  /\ registered' = [registered EXCEPT ![v] = FALSE]
  /\ totalDeposited' = totalDeposited - depositedCapital[v]
  /\ UNCHANGED <<gmxVars, depositedCapital, realisedPnL, collateralLocked, book,
                 settings, seeding>>

DeregisterVault(v) ==
  /\ registered[v]
  /\ openInterest[v] = 0
  /\ registered' = [registered EXCEPT ![v] = FALSE]
  /\ UNCHANGED <<gmxVars, capital, book, settings, seeding>>

SetMaxOpenInterest(v, cap) ==
  /\ maxOpenInterest' = [maxOpenInterest EXCEPT ![v] = cap]
  /\ UNCHANGED <<gmxVars, registered, capital, book, assetToken, maxPositionSize,
                 paused, seeding>>

SetMaxPositionSize(v, cap) ==
  /\ maxPositionSize' = [maxPositionSize EXCEPT ![v] = cap]
  /\ UNCHANGED <<gmxVars, registered, capital, book, assetToken, maxOpenInterest,
                 paused, seeding>>

WhenNotPaused == ~ paused

SetPaused(flag) ==
  /\ paused' = flag
  /\ UNCHANGED <<gmxVars, registered, capital, book, assetToken, maxOpenInterest,
                 maxPositionSize, seeding>>

-----------------------------------------------------------------------------
(* Capital.  Neither call checks its caller.                               *)

Free(v) == depositedCapital[v] + realisedPnL[v] - collateralLocked[v]

\* Mutation: locked collateral still counted as available.
AvailableWithLocked(v) == depositedCapital[v] + realisedPnL[v]

\* _availableCapital: floored at zero.
Available(v) == IF Free(v) > 0 THEN Free(v) ELSE 0

DepositCapital(from, v, amount) ==
  /\ registered[v] /\ WhenNotPaused
  /\ 0 < amount /\ amount <= wallet[from]
  /\ totalDeposited + amount <= MaxDeposited
  /\ wallet' = [wallet EXCEPT ![from] = @ - amount, ![VA] = @ + amount]
  /\ depositedCapital' = [depositedCapital EXCEPT ![v] = @ + amount]
  /\ totalDeposited' = totalDeposited + amount
  /\ GmxIdle
  /\ UNCHANGED <<registered, realisedPnL, collateralLocked, book, settings, seeding>>

\* Mutation: a withdrawal of profit not split from the principal.
PrincipalUnsplit(v, amount) == amount

\* Principal goes first, then realised profit.
Principal(v, amount) ==
  IF amount > depositedCapital[v] THEN depositedCapital[v] ELSE amount

WithdrawCapital(v, amount) ==
  LET principal == Principal(v, amount) IN
  /\ registered[v] /\ WhenNotPaused
  /\ amount <= Available(v)
  /\ principal <= totalDeposited
  /\ amount <= wallet[VA]
  /\ depositedCapital' = [depositedCapital EXCEPT ![v] = @ - principal]
  /\ totalDeposited' = totalDeposited - principal
  /\ realisedPnL' = [realisedPnL EXCEPT ![v] = @ - (amount - principal)]
  /\ wallet' = [wallet EXCEPT ![VA] = @ - amount, ![v] = @ + amount]
  /\ GmxIdle
  /\ UNCHANGED <<registered, collateralLocked, book, settings, seeding>>

-----------------------------------------------------------------------------
(* Positions (the vault itself or the owner calls).                        *)

Leg(k) == <<VA, assetToken[AssetOf(k)], k[3]>>

WithinLimits(v, size) ==
  /\ maxOpenInterest[v] > 0 => openInterest[v] + size <= maxOpenInterest[v]
  /\ maxPositionSize[v] > 0 => size <= maxPositionSize[v]

PushKey(k) ==
  /\ openKeys' = [openKeys EXCEPT ![VaultOf(k)] = Append(@, k)]
  /\ keyIndex' = [keyIndex EXCEPT ![k] = Len(openKeys[VaultOf(k)]) + 1]

OpenPosition(k, size, collateral, fee) ==
  LET v == VaultOf(k)
      p == tracking[k]
  IN
  /\ registered[v] /\ WhenNotPaused
  /\ assetToken[AssetOf(k)] # NoToken
  /\ collateral <= Available(v)
  /\ WithinLimits(v, size)
  /\ IncreasePosition(Leg(k), collateral, size, fee)
  /\ tracking' = [tracking EXCEPT ![k] = [size |-> p.size + size,
                                          collateralUsdc |-> p.collateralUsdc + collateral,
                                          exists |-> TRUE]]
  /\ \/ /\ p.exists
        /\ p.size + size > 0     \* the divisor of the blended entry price
        /\ UNCHANGED <<openKeys, keyIndex, positionCount>>
     \/ /\ ~ p.exists
        /\ PushKey(k)
        /\ positionCount' = [positionCount EXCEPT ![v] = @ + 1]
  /\ openInterest' = [openInterest EXCEPT ![v] = @ + size]
  /\ collateralLocked' = [collateralLocked EXCEPT ![v] = @ + collateral]
  /\ UNCHANGED <<registered, depositedCapital, realisedPnL, totalDeposited, settings,
                 seeding>>

\* Mutation: the key that takes the freed place keeps its old index.
RemoveKeyOnly(k) ==
  LET keys == openKeys[VaultOf(k)]
  IN /\ openKeys' = [openKeys EXCEPT ![VaultOf(k)] =
           [i \in 1..(Len(keys) - 1) |-> IF i = keyIndex[k] THEN keys[Len(keys)]
                                         ELSE keys[i]]]
     /\ keyIndex' = [keyIndex EXCEPT ![k] = 0]

\* Swap-remove: the last key takes the place of the one that goes.
RemoveKey(k) ==
  LET v     == VaultOf(k)
      keys  == openKeys[v]
      idx   == keyIndex[k]
      moved == keys[Len(keys)]
  IN \/ /\ idx = 0
        /\ UNCHANGED <<openKeys, keyIndex>>
     \/ /\ idx # 0 /\ Len(keys) > 0
        /\ openKeys' = [openKeys EXCEPT ![v] =
              [i \in 1..(Len(keys) - 1) |-> IF i = idx THEN moved ELSE keys[i]]]
        /\ keyIndex' = [j \in PosKey |-> IF j = k THEN 0
                                         ELSE IF j = moved /\ idx # Len(keys) THEN idx
                                         ELSE keyIndex[j]]

\* Mutation: the share taken of the shared leg instead of the vault's size.
CollateralAtRiskOfLeg(k, sizeDelta) ==
  (tracking[k].collateralUsdc * sizeDelta) \div position[Leg(k)].size

\* The collateral a close takes off the books of its vault.
CollateralAtRisk(k, sizeDelta) ==
  IF sizeDelta = tracking[k].size THEN tracking[k].collateralUsdc
  ELSE (tracking[k].collateralUsdc * sizeDelta) \div tracking[k].size

\* Mutation: the collateral that comes back booked as profit.
PnlGross(returned, atRisk) == returned

Pnl(returned, atRisk) == returned - atRisk

\* What GMX pays back is measured as the change of the balance and compared
\* with the collateral at risk; sizes are the vault's own, not the leg's.
ClosePosition(k, sizeDelta, collateralDelta, move, fee) ==
  LET v        == VaultOf(k)
      p        == tracking[k]
      atRisk   == CollateralAtRisk(k, sizeDelta)
      returned == Reduced(Leg(k), collateralDelta, sizeDelta, move, fee).out
  IN
  /\ registered[v] /\ WhenNotPaused
  /\ p.exists /\ sizeDelta <= p.size
  /\ assetToken[AssetOf(k)] # NoToken
  /\ DecreasePosition(Leg(k), collateralDelta, sizeDelta, move, fee, VA)
  /\ sizeDelta <= openInterest[v] /\ atRisk <= collateralLocked[v]
  /\ openInterest' = [openInterest EXCEPT ![v] = @ - sizeDelta]
  /\ collateralLocked' = [collateralLocked EXCEPT ![v] = @ - atRisk]
  /\ realisedPnL' = [realisedPnL EXCEPT ![v] = @ + Pnl(returned, atRisk)]
  /\ \/ /\ sizeDelta = p.size
        /\ 0 < positionCount[v]
        /\ tracking' = [tracking EXCEPT ![k] = Untracked]
        /\ RemoveKey(k)
        /\ positionCount' = [positionCount EXCEPT ![v] = @ - 1]
     \/ /\ sizeDelta # p.size
        /\ tracking' = [tracking EXCEPT ![k] =
                          [size |-> p.size - sizeDelta,
                           collateralUsdc |-> p.collateralUsdc - atRisk,
                           exists |-> TRUE]]
        /\ UNCHANGED <<openKeys, keyIndex, positionCount>>
  /\ UNCHANGED <<registered, depositedCapital, totalDeposited, settings, seeding>>

-----------------------------------------------------------------------------
(* Governance seeding of the GMX pool (owner).                             *)

SeedPool(from, amount) ==
  /\ WhenNotPaused
  /\ amount <= seedCapRemaining
  /\ DirectPoolDeposit(from, amount)
  /\ seedCapRemaining' = seedCapRemaining - amount
  /\ UNCHANGED <<registered, capital, book, settings, seedCapPerEpoch,
                 unseedCapPerEpoch, unseedCapRemaining, minPoolFloor>>

\* sellUSDG is not given the amount: it redeems the USDG already sent in.
UnseedPool(amount, fee) ==
  /\ WhenNotPaused
  /\ 0 < amount /\ amount <= unseedCapRemaining
  /\ amount <= poolAmount /\ minPoolFloor <= poolAmount - amount
  /\ SellUSDG(VA, fee)
  /\ unseedCapRemaining' = unseedCapRemaining - amount
  /\ UNCHANGED <<registered, capital, book, settings, seedCapPerEpoch,
                 seedCapRemaining, unseedCapPerEpoch, minPoolFloor>>

\* What the setters of this section leave alone.
SeedingOnly == UNCHANGED <<gmxVars, registered, capital, book, settings>>

ResetSeedCap ==
  /\ seedCapRemaining' = seedCapPerEpoch
  /\ unseedCapRemaining' = unseedCapPerEpoch
  /\ UNCHANGED <<seedCapPerEpoch, unseedCapPerEpoch, minPoolFloor>>
  /\ SeedingOnly

SetSeedCapPerEpoch(cap) ==
  /\ seedCapPerEpoch' = cap
  /\ UNCHANGED <<seedCapRemaining, unseedCapPerEpoch, unseedCapRemaining, minPoolFloor>>
  /\ SeedingOnly

SetUnseedCapPerEpoch(cap) ==
  /\ unseedCapPerEpoch' = cap
  /\ UNCHANGED <<seedCapPerEpoch, seedCapRemaining, unseedCapRemaining, minPoolFloor>>
  /\ SeedingOnly

SetMinPoolFloor(floor) ==
  /\ minPoolFloor' = floor
  /\ UNCHANGED <<seedCapPerEpoch, seedCapRemaining, unseedCapPerEpoch, unseedCapRemaining>>
  /\ SeedingOnly

-----------------------------------------------------------------------------
(* The next-state relation.                                                *)

Others == Account \ {VA}

RegistryStep == \E v \in Vault : RegisterVault(v) \/ DeregisterVault(v)

SettingStep ==
  \/ \E a \in Asset, t \in IndexToken : MapAssetToken(a, t)
  \/ \E v \in Vault, cap \in Cap : SetMaxOpenInterest(v, cap)
  \/ \E v \in Vault, cap \in Cap : SetMaxPositionSize(v, cap)
  \/ \E flag \in BOOLEAN : SetPaused(flag)

SeedStep ==
  \/ \E a \in Others, amount \in Amount : SeedPool(a, amount)
  \/ \E amount \in Amount, fee \in Fee : UnseedPool(amount, fee)
  \/ ResetSeedCap
  \/ \E cap \in Cap : SetSeedCapPerEpoch(cap)
  \/ \E cap \in Cap : SetUnseedCapPerEpoch(cap)
  \/ \E cap \in Cap : SetMinPoolFloor(cap)

TradeStep ==
  \/ \E a \in Others, v \in Vault, amount \in Amount : DepositCapital(a, v, amount)
  \/ \E v \in Vault, amount \in Amount : WithdrawCapital(v, amount)
  \/ \E k \in PosKey, size \in Size, collateral \in Amount, fee \in Fee :
        OpenPosition(k, size, collateral, fee)
  \/ \E k \in PosKey, size \in Size, out \in CollateralDelta, move \in Move, fee \in Fee :
        ClosePosition(k, size, out, move, fee)

\* GMX moves on its own: other accounts trade and provide liquidity, and
\* anybody liquidates.  VaultAccounting has no hook into any of it.
MarketStep == GmxStep(Others) /\ UNCHANGED vaVars

Next == RegistryStep \/ SettingStep \/ SeedStep \/ TradeStep \/ MarketStep

Spec == Init /\ [][Next]_vars

-----------------------------------------------------------------------------
(* Properties.                                                             *)

BookTypeOK ==
  /\ openInterest \in [Vault -> Nat] /\ positionCount \in [Vault -> Nat]
  /\ tracking \in [PosKey -> [size : Nat, collateralUsdc : Nat, exists : BOOLEAN]]
  /\ openKeys \in [Vault -> Seq(PosKey)]
  /\ keyIndex \in [PosKey -> Nat]

CapitalTypeOK ==
  /\ depositedCapital \in [Vault -> Nat] /\ realisedPnL \in [Vault -> Int]
  /\ collateralLocked \in [Vault -> Nat]
  /\ totalDeposited \in Nat

SettingsTypeOK ==
  /\ registered \in [Vault -> BOOLEAN]
  /\ assetToken \in [Asset -> IndexToken \cup {NoToken}]
  /\ maxOpenInterest \in [Vault -> Nat] /\ maxPositionSize \in [Vault -> Nat]
  /\ paused \in BOOLEAN
  /\ seedCapPerEpoch \in Nat /\ seedCapRemaining \in Nat
  /\ unseedCapPerEpoch \in Nat /\ unseedCapRemaining \in Nat
  /\ minPoolFloor \in Nat

TypeOK == GmxTypeOK /\ BookTypeOK /\ CapitalTypeOK /\ SettingsTypeOK

\* No vault ever owes more collateral and losses than it deposited and won:
\* the floor at zero in _availableCapital never hides a debt.
NoVaultInDebt == \A v \in Vault : Free(v) >= 0

\* The contract holds at least the free capital of all vaults together, so
\* every vault can withdraw whatever the others do: losses of one, payouts
\* of the shared GMX leg and re-registrations never spend another's USDC.
Solvent == SumFunctionOnSet([v \in Vault |-> Free(v)], Vault) <= wallet[VA]

\* The contract is a segregated ledger of its vaults: a call made for one
\* vault moves that vault's free capital by exactly the USDC that moved and
\* touches no other vault's, although they share one GMX position, and no
\* step of the market ever does.
Ledger == INSTANCE SegregatedLedger WITH
            Client <- Vault, held <- wallet[VA], free <- [v \in Vault |-> Free(v)]
LedgerSpec == Ledger!Spec

\* Seen from one vault, the contract is that vault's own account: what other
\* vaults, traders and liquidators do to the shared leg reaches it only as the
\* amount a close of its own pays back.
Seen(v) == INSTANCE PerpAccount WITH deposited <- depositedCapital[v],
             realised <- realisedPnL[v], locked <- collateralLocked[v]
AccountsSpec ==
  /\ \A v \in Vault : Seen(v)!NewAccount
  /\ [][\A v \in Vault : UNCHANGED Seen(v)!account \/ Seen(v)!AccountNext]_capital

KeysOf(v) == {k \in PosKey : VaultOf(k) = v}

\* openInterest is the size of the vault's tracked positions, also after a
\* deregistration and a new registration.
OpenInterestExact ==
  \A v \in Vault : openInterest[v] =
     SumFunctionOnSet([k \in PosKey |-> tracking[k].size], KeysOf(v))

\* The swap-remove list and its index agree: every listed key is open, is the
\* vault's own and knows its place, and every open key is listed.
KeyListExact ==
  /\ \A v \in Vault : \A i \in 1..Len(openKeys[v]) :
        /\ VaultOf(openKeys[v][i]) = v
        /\ keyIndex[openKeys[v][i]] = i
  /\ \A k \in PosKey :
        /\ tracking[k].exists <=> keyIndex[k] # 0
        /\ keyIndex[k] # 0 => /\ keyIndex[k] \in 1..Len(openKeys[VaultOf(k)])
                              /\ openKeys[VaultOf(k)][keyIndex[k]] = k

\* collateralLocked is the collateral of the vault's tracked positions and
\* positionCount their number.
BookMatchesPositions ==
  \A v \in Vault :
    /\ collateralLocked[v] =
          SumFunctionOnSet([k \in PosKey |-> tracking[k].collateralUsdc], KeysOf(v))
    /\ positionCount[v] = Len(openKeys[v])

\* totalDeposited is at least the capital on the books of the vaults, so a
\* withdrawal never underflows it.
DepositsWithinTotal ==
  SumFunctionOnSet(depositedCapital, Vault)
     <= totalDeposited

\* The books of every vault agree with each other, whoever closes, deregisters
\* or registers again, and in whatever order.
BooksExact ==
  OpenInterestExact /\ KeyListExact /\ BookMatchesPositions /\ DepositsWithinTotal

-----------------------------------------------------------------------------
(* What the comments say and the code does not keep; see README.           *)

\* A close realises the vault's own result "when multiple vaults share the same
\* GMX position" (VaultAccounting.sol:355): in a market that never moves and
\* charges nothing, a vault without positions has neither won nor lost.
FlatMarketNoPnL ==
  \A v \in Vault : openKeys[v] = <<>> => realisedPnL[v] = 0
=============================================================================
