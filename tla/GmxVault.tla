------------------------------ MODULE GmxVault ------------------------------
(***************************************************************************)
(* The money side of the GMX v1 fork (src/src/gmx/core): one collateral    *)
(* token, USDC, that is the liquidity pool, the collateral of every        *)
(* position and the currency of every payout.  Longs carry stable          *)
(* collateral, which this fork allows, and shorts do too.                  *)
(*                                                                         *)
(* Prices do not appear.  What a price decides is which profit or loss a   *)
(* decrease realises, and that is chosen freely from Move; what the        *)
(* funding and margin rates decide is the fee, chosen freely from Fee.  A  *)
(* USD is a USDC, so the reserve of a position equals its size.  A revert  *)
(* is the absence of a step.                                               *)
(***************************************************************************)
EXTENDS Integers, Functions, FiniteSets

CONSTANTS
  Account,      \* whoever may hold USDC and open positions
  IndexToken,   \* markets
  Amount,       \* USDC amounts and sizes a caller may pass
  Fee,          \* margin, funding and swap fees a call may be charged
  Move,         \* profit (> 0) or loss (< 0) a decrease or a liquidation finds
  LiqFee,       \* liquidationFeeUsd
  MaxUsdg,      \* maxUsdgAmounts[usdc], 0 for no limit
  StartUsdc     \* USDC each account holds before anything happens

Side == {"long", "short"}
Key == Account \X IndexToken \X Side

ASSUME GmxConstants ==
  /\ IsFiniteSet(Account) /\ IsFiniteSet(IndexToken)
  /\ Amount \subseteq Nat
  /\ Fee \subseteq Nat
  /\ Move \subseteq Int
  /\ LiqFee \in Nat /\ MaxUsdg \in Nat
  /\ StartUsdc \in [Account -> Nat]

VARIABLES
  wallet,          \* USDC of each account
  position,        \* positions[key], size and collateral
  poolAmount,      \* poolAmounts[usdc]
  reservedAmount,  \* reservedAmounts[usdc]
  guaranteedUsd,   \* guaranteedUsd[usdc]
  globalShortSize, \* globalShortSizes[token]
  feeReserve,      \* feeReserves[usdc]
  balance,         \* usdc.balanceOf(vault)
  usdgHeld,        \* USDG in circulation outside the vault
  usdgIn           \* USDG sent to the vault and not yet redeemed

gmxVars == <<wallet, position, poolAmount, reservedAmount, guaranteedUsd,
             globalShortSize, feeReserve, balance, usdgHeld, usdgIn>>

NoPosition == [size |-> 0, collateral |-> 0]
Owner(k) == k[1]
TokenOf(k) == k[2]
IsLong(k) == k[3] = "long"

GmxInit ==
  /\ wallet = StartUsdc
  /\ position = [k \in Key |-> NoPosition]
  /\ poolAmount = 0
  /\ reservedAmount = 0
  /\ guaranteedUsd = 0
  /\ globalShortSize = [t \in IndexToken |-> 0]
  /\ feeReserve = 0
  /\ balance = 0
  /\ usdgHeld = 0
  /\ usdgIn = 0

\* What _validatePosition and validateLiquidation(raise) demand of a position
\* that stays open, at the price most favourable to it.
Healthy(p) == p.size > 0 /\ LiqFee <= p.collateral /\ p.collateral <= p.size

Pay(a, amount) == wallet' = [wallet EXCEPT ![a] = @ + amount]

\* Mutation: the check (error 50) of _decreasePoolAmount dropped.
ReserveUnchecked == TRUE

\* _decreasePoolAmount lets no payout touch what open positions reserved.
PoolCoversReserve == reservedAmount' <= poolAmount'

-----------------------------------------------------------------------------
(* Liquidity providers.  With one token, usdgAmounts[usdc] is the supply   *)
(* of USDG.                                                                *)

BuyUSDG(a, paid, fee) ==
  /\ 0 < paid /\ paid <= wallet[a] /\ fee <= paid
  /\ MaxUsdg = 0 \/ usdgHeld + usdgIn + paid - fee <= MaxUsdg
  /\ Pay(a, -paid)
  /\ balance' = balance + paid
  /\ feeReserve' = feeReserve + fee
  /\ poolAmount' = poolAmount + paid - fee
  /\ usdgHeld' = usdgHeld + paid - fee
  /\ UNCHANGED <<position, reservedAmount, guaranteedUsd, globalShortSize, usdgIn>>

\* USDG reaches the vault by a plain token transfer, before sellUSDG.
SendUSDG(amount) ==
  /\ 0 < amount /\ amount <= usdgHeld
  /\ usdgHeld' = usdgHeld - amount
  /\ usdgIn' = usdgIn + amount
  /\ UNCHANGED <<wallet, position, poolAmount, reservedAmount, guaranteedUsd,
                 globalShortSize, feeReserve, balance>>

\* Redeems all the USDG that was sent in, whatever its sender had in mind.
SellUSDG(receiver, fee) ==
  /\ fee < usdgIn
  /\ usdgIn <= poolAmount
  /\ poolAmount' = poolAmount - usdgIn
  /\ usdgIn - fee <= balance
  /\ balance' = balance - (usdgIn - fee)
  /\ feeReserve' = feeReserve + fee
  /\ Pay(receiver, usdgIn - fee)
  /\ usdgIn' = 0
  /\ UNCHANGED <<position, reservedAmount, guaranteedUsd, globalShortSize, usdgHeld>>
  /\ PoolCoversReserve

DirectPoolDeposit(a, paid) ==
  /\ 0 < paid /\ paid <= wallet[a]
  /\ Pay(a, -paid)
  /\ balance' = balance + paid
  /\ poolAmount' = poolAmount + paid
  /\ UNCHANGED <<position, reservedAmount, guaranteedUsd, globalShortSize,
                 feeReserve, usdgHeld, usdgIn>>

WithdrawFees(receiver) ==
  /\ 0 < feeReserve /\ feeReserve <= balance
  /\ Pay(receiver, feeReserve)
  /\ balance' = balance - feeReserve
  /\ feeReserve' = 0
  /\ UNCHANGED <<position, poolAmount, reservedAmount, guaranteedUsd,
                 globalShortSize, usdgHeld, usdgIn>>

-----------------------------------------------------------------------------
(* Positions.                                                              *)

\* Mutation: the fee counted but not taken from the collateral.
GrownFeeFree(k, paid, sizeDelta, fee) ==
  [size       |-> position[k].size + sizeDelta,
   collateral |-> position[k].collateral + paid]

Grown(k, paid, sizeDelta, fee) ==
  [size       |-> position[k].size + sizeDelta,
   collateral |-> position[k].collateral + paid - fee]

\* The reserve is checked against the pool as it was before the collateral of
\* a long joins it; _decreasePoolAmount checks it again after the fee.
IncreasePosition(k, paid, sizeDelta, fee) ==
  LET q == Grown(k, paid, sizeDelta, fee) IN
  /\ paid <= wallet[Owner(k)]
  /\ fee <= position[k].collateral + paid
  /\ Healthy(q)
  /\ reservedAmount + sizeDelta <= poolAmount
  /\ position' = [position EXCEPT ![k] = q]
  /\ reservedAmount' = reservedAmount + sizeDelta
  /\ feeReserve' = feeReserve + fee
  /\ Pay(Owner(k), -paid)
  /\ balance' = balance + paid
  /\ \/ /\ IsLong(k)
        /\ paid <= guaranteedUsd + sizeDelta + fee
        /\ guaranteedUsd' = guaranteedUsd + sizeDelta + fee - paid
        /\ poolAmount' = poolAmount + paid - fee
        /\ PoolCoversReserve
        /\ UNCHANGED globalShortSize
     \/ /\ ~ IsLong(k)
        /\ globalShortSize' = [globalShortSize EXCEPT ![TokenOf(k)] = @ + sizeDelta]
        /\ UNCHANGED <<guaranteedUsd, poolAmount>>
  /\ UNCHANGED <<usdgHeld, usdgIn>>

Profit(move) == IF move > 0 THEN move ELSE 0
Loss(move) == IF move < 0 THEN -move ELSE 0

\* Mutation: the fee always deducted from the payout, also a smaller one.
ReducedBelowFee(k, collateralDelta, sizeDelta, move, fee) ==
  LET left   == position[k].collateral - Loss(move) - collateralDelta
      full   == sizeDelta = position[k].size
      usdOut == Profit(move) + collateralDelta + (IF full THEN left ELSE 0)
  IN [left |-> left, usdOut |-> usdOut, out |-> usdOut - fee,
      stays |-> IF full THEN 0 ELSE left]

\* _reduceCollateral: what leaves the position, what its owner receives, and
\* the collateral that stays.  A fee larger than the payout is taken from the
\* collateral that stays instead.
Reduced(k, collateralDelta, sizeDelta, move, fee) ==
  LET p      == position[k]
      left   == p.collateral - Loss(move) - collateralDelta
      full   == sizeDelta = p.size
      usdOut == Profit(move) + collateralDelta + (IF full THEN left ELSE 0)
      kept   == IF full THEN 0 ELSE left
  IN [left   |-> left,
      usdOut |-> usdOut,
      out    |-> IF usdOut > fee THEN usdOut - fee ELSE usdOut,
      stays  |-> IF usdOut > fee THEN kept ELSE kept - fee]

\* Mutation: the fee left in the pool although feeReserves was credited.
LongDrawFeeFree(r, fee) == r.usdOut

\* What a long takes out of the pool: its payout, and the fee if that came
\* from the collateral, which is part of the pool.
LongDraw(r, fee) == r.usdOut + (IF r.usdOut > fee THEN 0 ELSE fee)

\* Mutation: the comparison the wrong way round.
LessSwapped(total, part) == IF part > total THEN total - part ELSE 0

\* _decreaseGlobalShortSize stops at zero.
Less(total, part) == IF part > total THEN 0 ELSE total - part

DecreasePosition(k, collateralDelta, sizeDelta, move, fee, receiver) ==
  LET p == position[k]
      r == Reduced(k, collateralDelta, sizeDelta, move, fee)
      q == [size |-> p.size - sizeDelta, collateral |-> r.stays]
  IN
  /\ 0 < p.size /\ sizeDelta <= p.size
  /\ collateralDelta <= p.collateral
  /\ sizeDelta = 0 => move = 0
  /\ 0 <= r.left /\ 0 <= r.stays
  /\ q = NoPosition \/ Healthy(q)
  /\ sizeDelta <= reservedAmount
  /\ reservedAmount' = reservedAmount - sizeDelta
  /\ position' = [position EXCEPT ![k] = q]
  /\ feeReserve' = feeReserve + fee
  /\ r.out <= balance
  /\ balance' = balance - r.out
  /\ Pay(receiver, r.out)
  /\ \/ /\ IsLong(k)
        /\ r.stays + sizeDelta <= guaranteedUsd + p.collateral
        /\ guaranteedUsd' = guaranteedUsd + p.collateral - r.stays - sizeDelta
        /\ poolAmount' = poolAmount - LongDraw(r, fee)
        /\ UNCHANGED globalShortSize
     \/ /\ ~ IsLong(k)
        /\ poolAmount' = poolAmount - Profit(move) + Loss(move)
        /\ globalShortSize' = [globalShortSize EXCEPT ![TokenOf(k)] = Less(@, sizeDelta)]
        /\ UNCHANGED guaranteedUsd
  /\ PoolCoversReserve
  /\ UNCHANGED <<usdgHeld, usdgIn>>

\* validateLiquidation(raise = false) and the fees it caps.
UnderWater(k, move, fee) == position[k].collateral + move < fee + LiqFee

CappedFee(k, move, fee) ==
  LET remaining == position[k].collateral + move
  IN IF 0 <= remaining /\ remaining < fee THEN remaining ELSE fee

\* liquidationState 1: the collateral stays in the pool, the liquidator gets
\* the liquidation fee, the owner gets nothing and is not told.
SeizePosition(k, move, fee, feeReceiver) ==
  LET p    == position[k]
      paid == CappedFee(k, move, fee)
      rest == IF ~ IsLong(k) /\ paid < p.collateral THEN p.collateral - paid ELSE 0
  IN
  /\ 0 < p.size
  /\ UnderWater(k, move, fee)
  /\ feeReserve' = feeReserve + paid
  /\ p.size <= reservedAmount
  /\ reservedAmount' = reservedAmount - p.size
  /\ position' = [position EXCEPT ![k] = NoPosition]
  /\ LiqFee <= balance
  /\ balance' = balance - LiqFee
  /\ Pay(feeReceiver, LiqFee)
  /\ \/ /\ IsLong(k)
        /\ p.size - p.collateral <= guaranteedUsd
        /\ guaranteedUsd' = guaranteedUsd - (p.size - p.collateral)
        /\ poolAmount' = poolAmount - paid - LiqFee
        /\ UNCHANGED globalShortSize
     \/ /\ ~ IsLong(k)
        /\ poolAmount' = poolAmount + rest - LiqFee
        /\ globalShortSize' = [globalShortSize EXCEPT ![TokenOf(k)] = Less(@, p.size)]
        /\ UNCHANGED guaranteedUsd
  /\ PoolCoversReserve
  /\ UNCHANGED <<usdgHeld, usdgIn>>

\* liquidationState 2: the leverage limit is exceeded, the position is closed
\* and what is left of it is sent to its owner.
DeleveragePosition(k, move, fee) ==
  /\ ~ UnderWater(k, move, fee)
  /\ DecreasePosition(k, 0, position[k].size, move, fee, Owner(k))

-----------------------------------------------------------------------------
LiquidityStep(Who) ==
  \/ \E a \in Who, paid \in Amount, fee \in Fee : BuyUSDG(a, paid, fee)
  \/ \E amount \in Amount : SendUSDG(amount)
  \/ \E a \in Account, fee \in Fee : SellUSDG(a, fee)
  \/ \E a \in Who, paid \in Amount : DirectPoolDeposit(a, paid)
  \/ \E a \in Account : WithdrawFees(a)

PositionStep(Who) ==
  \/ \E k \in Key, paid, sizeDelta \in Amount, fee \in Fee :
        Owner(k) \in Who /\ IncreasePosition(k, paid, sizeDelta, fee)
  \/ \E k \in Key, out, sizeDelta \in Amount, move \in Move, fee \in Fee :
        Owner(k) \in Who /\ DecreasePosition(k, out, sizeDelta, move, fee, Owner(k))

\* liquidatePosition may be called by anybody, on anybody's position.
LiquidationStep ==
  \/ \E k \in Key, move \in Move, fee \in Fee, a \in Account :
        SeizePosition(k, move, fee, a)
  \/ \E k \in Key, move \in Move, fee \in Fee : DeleveragePosition(k, move, fee)

GmxStep(Who) == LiquidityStep(Who) \/ PositionStep(Who) \/ LiquidationStep

GmxNext == GmxStep(Account)

GmxSpec == GmxInit /\ [][GmxNext]_gmxVars

-----------------------------------------------------------------------------
(* Properties.                                                             *)

GmxTypeOK ==
  /\ wallet \in [Account -> Nat]
  /\ position \in [Key -> [size : Nat, collateral : Nat]]
  /\ poolAmount \in Nat /\ reservedAmount \in Nat /\ guaranteedUsd \in Nat
  /\ globalShortSize \in [IndexToken -> Nat]
  /\ feeReserve \in Nat /\ balance \in Nat /\ usdgHeld \in Nat /\ usdgIn \in Nat

ShortCollateral ==
  SumFunctionOnSet([k \in Key |-> IF IsLong(k) THEN 0 ELSE position[k].collateral], Key)

TotalSize == SumFunctionOnSet([k \in Key |-> position[k].size], Key)

LongLeverage ==
  SumFunctionOnSet([k \in Key |-> IF IsLong(k)
                                  THEN position[k].size - position[k].collateral
                                  ELSE 0], Key)

ShortSize(t) ==
  SumFunctionOnSet([k \in Key |-> IF ~ IsLong(k) /\ TokenOf(k) = t
                                  THEN position[k].size ELSE 0], Key)

\* The vault's USDC less the pool, the fees it owes the governor and the
\* collateral of every short, which is not part of the pool.
Unclaimed == balance - poolAmount - feeReserve - ShortCollateral

\* liquidatePosition collects more from a short than its collateral, which may
\* be all there is: fees of a losing position are not capped, those of a winning
\* one by collateral and profit, and the profit is in the pool.
Overcharged(k, move, fee) == ~ IsLong(k) /\ position[k].collateral < CappedFee(k, move, fee)
OverchargeOf(k, move, fee) == CappedFee(k, move, fee) - position[k].collateral

OverchargeStep ==
  \E k \in Key, move \in Move, fee \in Fee, a \in Account :
    /\ SeizePosition(k, move, fee, a) /\ Overcharged(k, move, fee)
    /\ Unclaimed' = Unclaimed - OverchargeOf(k, move, fee)

\* Long collateral, short collateral, profits, losses and fees move through
\* different counters in _increase/_decreasePosition and liquidatePosition: no
\* USDC is counted twice or paid out uncounted, by any call but the liquidation
\* of an overcharged short, which books exactly what it overcharges.
BackingStep == UNCHANGED gmxVars \/ Unclaimed' = Unclaimed \/ OverchargeStep
BackingKept == [][BackingStep]_gmxVars

\* The vault's USDC covers what its counters promise.
PoolBacked == 0 <= Unclaimed

\* reservedAmounts is the size of all open positions, and the pool covers it.
ReserveCovered == reservedAmount = TotalSize /\ reservedAmount <= poolAmount

\* guaranteedUsd is the sum of size - collateral over all open longs (comment
\* at Vault.sol:74), through partial closes, losses, fees and liquidations.
GuaranteedExact == guaranteedUsd = LongLeverage

\* globalShortSizes[t] is the sum of the open shorts on t, so the floor at
\* zero in _decreaseGlobalShortSize is never what decides it.
ShortSizeExact == \A t \in IndexToken : globalShortSize[t] = ShortSize(t)

\* The running totals, which increases, decreases and liquidations move by
\* three different formulas, are at every moment what the open positions add
\* up to, and the pool covers what is reserved.
TotalsExact == ReserveCovered /\ GuaranteedExact /\ ShortSizeExact

\* What every step leaves of a position, on which the invariants above rest:
\* size covers collateral (error 40), collateral covers the liquidation fee.
OpenPositionsHealthy == \A k \in Key : position[k] = NoPosition \/ Healthy(position[k])
=============================================================================
