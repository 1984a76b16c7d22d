----------------------- MODULE VaultAccountingProofs -----------------------
(***************************************************************************)
(* First the GMX vault alone: its types and the totals it keeps.  Then     *)
(* VaultAccounting above it, where these hold too: it is type correct,     *)
(* never lets a vault into debt, is a segregated ledger of its vaults and, *)
(* seen from one of them, that vault's own account; it is solvent, and the *)
(* books of a vault agree with each other.  Last the settings of the       *)
(* oracle adapters the prices come from (OracleConfigQuorum), for any      *)
(* chains, assets, settings and TTLs and any number of votes: types, the   *)
(* settings hash, that the settings a quorum gave were proposed by that    *)
(* many chains, and that chains which voted the same have the same.        *)
(***************************************************************************)
EXTENDS VaultAccounting, OracleConfigQuorum, SumLemmas

-----------------------------------------------------------------------------
(* The GMX vault.                                                          *)

\* A key names an account and a market.
LEMMA KeyParts ==
  ASSUME NEW k \in Key
  PROVE  Owner(k) \in Account /\ TokenOf(k) \in IndexToken
BY DEF Key, Owner, TokenOf

\* What a decrease takes from a position and what it pays are amounts.
LEMMA ReducedType ==
  ASSUME GmxTypeOK, NEW k \in Key, NEW out \in Nat, NEW sizeDelta \in Nat,
         NEW move \in Int, NEW fee \in Nat,
         0 <= Reduced(k, out, sizeDelta, move, fee).left,
         0 <= Reduced(k, out, sizeDelta, move, fee).stays
  PROVE  Reduced(k, out, sizeDelta, move, fee)
           \in [left : Nat, usdOut : Nat, out : Nat, stays : Nat]
<1> DEFINE r == Reduced(k, out, sizeDelta, move, fee)
<1>1. position[k].size \in Nat /\ position[k].collateral \in Nat
  BY DEF GmxTypeOK
<1>2. Profit(move) \in Nat /\ Loss(move) \in Nat
  BY DEF Profit, Loss
<1>3. r.left \in Nat
  BY <1>1, <1>2 DEF Reduced
<1>4. r.usdOut \in Nat
  BY <1>2, <1>3 DEF Reduced
<1>5. r.out \in Nat
  BY <1>4 DEF Reduced
<1>6. r.stays \in Nat
  BY <1>3, <1>4 DEF Reduced
<1> QED
  BY <1>3, <1>4, <1>5, <1>6 DEF Reduced

-----------------------------------------------------------------------------
(* One lemma per action: it keeps the types, and says whose USDC moves.    *)

\* A payment that leaves its account at or above zero keeps all wallets there.
LEMMA PayType ==
  ASSUME wallet \in [Account -> Nat], NEW a \in Account, NEW n \in Int,
         0 <= wallet[a] + n, Pay(a, n)
  PROVE  wallet' \in [Account -> Nat]
BY DEF Pay

\* Liquidity calls keep every counter at or above zero.
LEMMA LiquidityType ==
  ASSUME GmxTypeOK, NEW Who, Who \subseteq Account, LiquidityStep(Who)
  PROVE  GmxTypeOK'
<1> USE GmxConstants DEF GmxTypeOK
<1>1. ASSUME NEW a \in Who, NEW paid \in Amount, NEW fee \in Fee, BuyUSDG(a, paid, fee)
      PROVE  GmxTypeOK'
  BY <1>1, PayType DEF BuyUSDG
<1>2. ASSUME NEW amount \in Amount, SendUSDG(amount)
      PROVE  GmxTypeOK'
  BY <1>2 DEF SendUSDG
<1>3. ASSUME NEW a \in Account, NEW fee \in Fee, SellUSDG(a, fee)
      PROVE  GmxTypeOK'
  BY <1>3, PayType DEF SellUSDG, PoolCoversReserve
<1>4. ASSUME NEW a \in Who, NEW paid \in Amount, DirectPoolDeposit(a, paid)
      PROVE  GmxTypeOK'
  BY <1>4, PayType DEF DirectPoolDeposit
<1>5. ASSUME NEW a \in Account, WithdrawFees(a)
      PROVE  GmxTypeOK'
  BY <1>5, PayType DEF WithdrawFees
<1> QED
  BY <1>1, <1>2, <1>3, <1>4, <1>5 DEF LiquidityStep

\* increasePosition keeps every counter at or above zero.
LEMMA IncreaseType ==
  ASSUME GmxTypeOK, NEW k \in Key, NEW paid \in Nat, NEW sizeDelta \in Nat,
         NEW fee \in Nat, IncreasePosition(k, paid, sizeDelta, fee)
  PROVE  GmxTypeOK'
<1>1. Grown(k, paid, sizeDelta, fee) \in [size : Nat, collateral : Nat]
  BY DEF GmxTypeOK, IncreasePosition, Grown
<1>2. position' \in [Key -> [size : Nat, collateral : Nat]]
  BY <1>1 DEF GmxTypeOK, IncreasePosition
<1>3. wallet' \in [Account -> Nat]
  BY KeyParts, PayType DEF GmxTypeOK, IncreasePosition
<1>4. poolAmount' \in Nat /\ reservedAmount' \in Nat /\ guaranteedUsd' \in Nat
  BY DEF GmxTypeOK, IncreasePosition, PoolCoversReserve
<1>5. globalShortSize' \in [IndexToken -> Nat]
  BY KeyParts DEF GmxTypeOK, IncreasePosition
<1>6. feeReserve' \in Nat /\ balance' \in Nat /\ usdgHeld' \in Nat /\ usdgIn' \in Nat
  BY DEF GmxTypeOK, IncreasePosition
<1> QED
  BY <1>2, <1>3, <1>4, <1>5, <1>6 DEF GmxTypeOK

\* decreasePosition does too, and never pays a negative amount.
LEMMA DecreaseType ==
  ASSUME GmxTypeOK, NEW k \in Key, NEW out \in Nat, NEW sizeDelta \in Nat,
         NEW move \in Int, NEW fee \in Nat, NEW receiver \in Account,
         DecreasePosition(k, out, sizeDelta, move, fee, receiver)
  PROVE  /\ GmxTypeOK'
         /\ Reduced(k, out, sizeDelta, move, fee).out \in Nat
<1> DEFINE r == Reduced(k, out, sizeDelta, move, fee)
<1>1. r \in [left : Nat, usdOut : Nat, out : Nat, stays : Nat]
  BY ReducedType DEF DecreasePosition
<1>2. position[k].size \in Nat /\ position[k].collateral \in Nat
  BY DEF GmxTypeOK
<1>3. position' \in [Key -> [size : Nat, collateral : Nat]]
  <2>1. position' = [position EXCEPT ![k] = [size |-> position[k].size - sizeDelta,
                                             collateral |-> r.stays]]
    BY DEF DecreasePosition
  <2>2. position[k].size - sizeDelta \in Nat /\ r.stays \in Nat
    BY <1>1, <1>2 DEF DecreasePosition
  <2> QED
    BY <2>1, <2>2 DEF GmxTypeOK
<1>4. wallet' \in [Account -> Nat]
  BY <1>1, PayType DEF GmxTypeOK, DecreasePosition
<1>5. reservedAmount' \in Nat /\ feeReserve' \in Nat /\ usdgHeld' \in Nat /\ usdgIn' \in Nat
  BY DEF GmxTypeOK, DecreasePosition
<1>6. balance' \in Nat
  BY <1>1 DEF GmxTypeOK, DecreasePosition
<1>7. guaranteedUsd' \in Nat
  BY <1>1, <1>2 DEF GmxTypeOK, DecreasePosition
<1>8. poolAmount' \in Nat
  <2>1. Profit(move) \in Nat /\ Loss(move) \in Nat /\ LongDraw(r, fee) \in Nat
    BY <1>1 DEF Profit, Loss, LongDraw
  <2> HIDE DEF r
  <2>2. poolAmount' \in Int
    BY <2>1 DEF GmxTypeOK, DecreasePosition, r
  <2>3. reservedAmount' <= poolAmount'
    BY DEF DecreasePosition, PoolCoversReserve
  <2> QED
    BY <1>5, <2>2, <2>3
<1>9. globalShortSize' \in [IndexToken -> Nat]
  BY KeyParts DEF GmxTypeOK, DecreasePosition, Less
<1> QED
  BY <1>1, <1>3, <1>4, <1>5, <1>6, <1>7, <1>8, <1>9 DEF GmxTypeOK

\* So does the liquidation that seizes the collateral.
LEMMA SeizeType ==
  ASSUME GmxTypeOK, NEW k \in Key, NEW move \in Int, NEW fee \in Nat,
         NEW a \in Account, SeizePosition(k, move, fee, a)
  PROVE  GmxTypeOK'
<1>1. position[k].size \in Nat /\ position[k].collateral \in Nat
  BY DEF GmxTypeOK
<1>2. CappedFee(k, move, fee) \in Nat
  BY <1>1 DEF CappedFee
<1>3. position' \in [Key -> [size : Nat, collateral : Nat]]
  BY DEF GmxTypeOK, SeizePosition, NoPosition
<1>4. wallet' \in [Account -> Nat]
  BY GmxConstants, PayType DEF GmxTypeOK, SeizePosition
<1>5. /\ reservedAmount' \in Nat /\ feeReserve' \in Nat /\ balance' \in Nat
      /\ usdgHeld' \in Nat /\ usdgIn' \in Nat
  BY <1>1, <1>2, GmxConstants DEF GmxTypeOK, SeizePosition
<1>6. guaranteedUsd' \in Nat
  BY <1>1 DEF GmxTypeOK, SeizePosition
<1>7. poolAmount' \in Nat
  <2>1. poolAmount' \in Int
    BY <1>1, <1>2, GmxConstants DEF GmxTypeOK, SeizePosition
  <2>2. reservedAmount' <= poolAmount'
    BY DEF SeizePosition, PoolCoversReserve
  <2> QED
    BY <1>5, <2>1, <2>2
<1>8. globalShortSize' \in [IndexToken -> Nat]
  BY <1>1, KeyParts DEF GmxTypeOK, SeizePosition, Less
<1> QED
  BY <1>3, <1>4, <1>5, <1>6, <1>7, <1>8 DEF GmxTypeOK

\* And so every step of the vault, whoever acts.
LEMMA StepType ==
  ASSUME GmxTypeOK, NEW Who, Who \subseteq Account, GmxStep(Who)
  PROVE  GmxTypeOK'
<1> USE GmxConstants
<1>1. ASSUME NEW k \in Key, NEW paid \in Amount, NEW sizeDelta \in Amount, NEW fee \in Fee,
             IncreasePosition(k, paid, sizeDelta, fee)
      PROVE  GmxTypeOK'
  BY <1>1, IncreaseType
<1>2. ASSUME NEW k \in Key, NEW out \in Amount, NEW sizeDelta \in Amount,
             NEW move \in Move, NEW fee \in Fee,
             DecreasePosition(k, out, sizeDelta, move, fee, Owner(k))
      PROVE  GmxTypeOK'
  BY <1>2, DecreaseType, KeyParts
<1>3. ASSUME NEW k \in Key, NEW move \in Move, NEW fee \in Fee, NEW a \in Account,
             SeizePosition(k, move, fee, a)
      PROVE  GmxTypeOK'
  BY <1>3, SeizeType
<1>4. ASSUME NEW k \in Key, NEW move \in Move, NEW fee \in Fee,
             DeleveragePosition(k, move, fee)
      PROVE  GmxTypeOK'
  <2>1. position[k].size \in Nat
    BY DEF GmxTypeOK
  <2> QED
    BY <1>4, <2>1, DecreaseType, KeyParts DEF DeleveragePosition
<1> QED
  BY <1>1, <1>2, <1>3, <1>4, LiquidityType
     DEF GmxStep, PositionStep, LiquidationStep

\* The vault starts with every counter at its type.
LEMMA InitType == GmxInit => GmxTypeOK
BY GmxConstants DEF GmxInit, GmxTypeOK, NoPosition

\* No counter of the vault and no wallet ever goes below zero, whatever the
\* amounts, fees, profits and losses are.
THEOREM GmxTyped == GmxSpec => []GmxTypeOK
<1>1. GmxTypeOK /\ [GmxNext]_gmxVars => GmxTypeOK'
  <2>1. ASSUME GmxTypeOK, GmxNext PROVE GmxTypeOK'
    BY <2>1, StepType DEF GmxNext
  <2>2. ASSUME GmxTypeOK, UNCHANGED gmxVars PROVE GmxTypeOK'
    BY <2>2 DEF gmxVars, GmxTypeOK
  <2> QED
    BY <2>1, <2>2
<1> QED
  BY <1>1, InitType, PTL DEF GmxSpec

-----------------------------------------------------------------------------
(* The totals.                                                             *)

\* There are finitely many positions, so their sizes can be summed.
LEMMA KeyFinite == IsFiniteSet(Key)
<1> DEFINE Pairs == Account \X IndexToken
           f == [x \in Pairs \X Side |-> <<x[1][1], x[1][2], x[2]>>]
<1>1. IsFiniteSet(Side)
  <2>1. IsFiniteSet({"long"}) /\ IsFiniteSet({"short"})
    BY FS_Singleton
  <2>2. Side = {"long"} \cup {"short"}
    BY DEF Side
  <2> QED
    BY <2>1, <2>2, FS_Union
<1>2. IsFiniteSet(Pairs \X Side)
  BY <1>1, GmxConstants, FS_Product
<1>3. f \in Surjection(Pairs \X Side, Key)
  <2>1. f \in [Pairs \X Side -> Key]
    BY DEF Key
  <2>2. ASSUME NEW k \in Key PROVE \E x \in Pairs \X Side : f[x] = k
    <3>1. PICK a \in Account, t \in IndexToken, s \in Side : k = <<a, t, s>>
      BY DEF Key
    <3>2. <<<<a, t>>, s>> \in Pairs \X Side /\ f[<<<<a, t>>, s>>] = k
      BY <3>1
    <3> QED
      BY <3>2
  <2> QED
    BY <2>1, <2>2 DEF Surjection
<1> QED
  BY <1>2, <1>3, FS_Surjection

ShortPart == [k \in Key |-> IF IsLong(k) THEN 0 ELSE position[k].collateral]
SizePart == [k \in Key |-> position[k].size]
LeveragePart == [k \in Key |-> IF IsLong(k)
                               THEN position[k].size - position[k].collateral ELSE 0]
ShortSizePart(t) == [k \in Key |-> IF ~ IsLong(k) /\ TokenOf(k) = t
                                   THEN position[k].size ELSE 0]

\* The totals are integers, and a short is part of its market's total.
LEMMA TotalsType ==
  ASSUME GmxTypeOK
  PROVE  /\ ShortCollateral \in Int /\ TotalSize \in Int /\ LongLeverage \in Int
         /\ \A t \in IndexToken : ShortSize(t) \in Nat
         /\ \A k \in Key : ~ IsLong(k) => position[k].size <= ShortSize(TokenOf(k))
<1>1. \A k \in Key : position[k].size \in Nat /\ position[k].collateral \in Nat
  BY DEF GmxTypeOK
<1>2. ShortCollateral \in Int
  <2>1. \A k \in Key : ShortPart[k] \in Int
    BY <1>1 DEF ShortPart
  <2> QED
    BY <2>1, KeyFinite, SumType DEF ShortCollateral, ShortPart
<1>3. TotalSize \in Int
  <2>1. \A k \in Key : SizePart[k] \in Int
    BY <1>1 DEF SizePart
  <2> QED
    BY <2>1, KeyFinite, SumType DEF TotalSize, SizePart
<1>4. LongLeverage \in Int
  <2>1. \A k \in Key : LeveragePart[k] \in Int
    BY <1>1 DEF LeveragePart
  <2> QED
    BY <2>1, KeyFinite, SumType DEF LongLeverage, LeveragePart
<1>5. ASSUME NEW t \in IndexToken
      PROVE  /\ ShortSize(t) \in Nat
             /\ \A k \in Key : ShortSizePart(t)[k] <= ShortSize(t)
  <2>1. \A k \in Key : ShortSizePart(t)[k] \in Nat
    BY <1>1 DEF ShortSizePart
  <2>2. ShortSize(t) = SumFunctionOnSet(ShortSizePart(t), Key)
    BY DEF ShortSize, ShortSizePart
  <2> QED
    BY <2>1, <2>2, KeyFinite, SumNat
<1>6. ASSUME NEW k \in Key, ~ IsLong(k) PROVE position[k].size <= ShortSize(TokenOf(k))
  <2>1. ShortSizePart(TokenOf(k))[k] = position[k].size
    BY <1>6 DEF ShortSizePart
  <2> QED
    BY <2>1, <1>5, KeyParts
<1> QED
  BY <1>2, <1>3, <1>4, <1>5, <1>6

\* A step that replaces one position moves each total by what it changed.
LEMMA TotalsMove ==
  ASSUME GmxTypeOK, NEW k \in Key, NEW q \in [size : Nat, collateral : Nat],
         position' = [position EXCEPT ![k] = q]
  PROVE  /\ TotalSize' = TotalSize + q.size - position[k].size
         /\ ShortCollateral' = ShortCollateral
              + (IF IsLong(k) THEN 0 ELSE q.collateral - position[k].collateral)
         /\ LongLeverage' = LongLeverage
              + (IF IsLong(k) THEN (q.size - q.collateral)
                                   - (position[k].size - position[k].collateral)
                 ELSE 0)
         /\ \A t \in IndexToken :
              ShortSize(t)' = ShortSize(t)
                + (IF ~ IsLong(k) /\ TokenOf(k) = t THEN q.size - position[k].size ELSE 0)
<1>1. \A j \in Key : position[j].size \in Nat /\ position[j].collateral \in Nat
  BY DEF GmxTypeOK
<1>2. /\ \A j \in Key : position'[j].size \in Nat /\ position'[j].collateral \in Nat
      /\ \A j \in Key \ {k} : position'[j] = position[j]
      /\ position'[k] = q
  BY <1>1 DEF GmxTypeOK
<1>3. TotalSize' = TotalSize + q.size - position[k].size
  <2>1. \A j \in Key : SizePart[j] \in Int /\ SizePart'[j] \in Int
    BY <1>1, <1>2 DEF SizePart
  <2>2. \A j \in Key \ {k} : SizePart'[j] = SizePart[j]
    BY <1>2 DEF SizePart
  <2>3. SizePart[k] = position[k].size /\ SizePart'[k] = q.size
    BY <1>2 DEF SizePart
  <2>4. SumFunctionOnSet(SizePart', Key) = SumFunctionOnSet(SizePart, Key) + SizePart'[k] - SizePart[k]
    BY <2>1, <2>2, KeyFinite, SumChange
  <2> QED
    BY <2>3, <2>4 DEF TotalSize, SizePart
<1>4. ShortCollateral' = ShortCollateral
        + (IF IsLong(k) THEN 0 ELSE q.collateral - position[k].collateral)
  <2>1. \A j \in Key : ShortPart[j] \in Int /\ ShortPart'[j] \in Int
    BY <1>1, <1>2 DEF ShortPart
  <2>2. \A j \in Key \ {k} : ShortPart'[j] = ShortPart[j]
    BY <1>2 DEF ShortPart
  <2>3. ShortPart'[k] - ShortPart[k]
          = (IF IsLong(k) THEN 0 ELSE q.collateral - position[k].collateral)
    BY <1>1, <1>2 DEF ShortPart
  <2>4. SumFunctionOnSet(ShortPart', Key) = SumFunctionOnSet(ShortPart, Key) + ShortPart'[k] - ShortPart[k]
    BY <2>1, <2>2, KeyFinite, SumChange
  <2>5. SumFunctionOnSet(ShortPart, Key) \in Int
    BY <2>1, KeyFinite, SumType
  <2>6. SumFunctionOnSet(ShortPart', Key) = SumFunctionOnSet(ShortPart, Key) + (ShortPart'[k] - ShortPart[k])
    BY <2>1, <2>4, <2>5
  <2> QED
    BY <2>3, <2>6 DEF ShortCollateral, ShortPart
<1>5. LongLeverage' = LongLeverage
        + (IF IsLong(k) THEN (q.size - q.collateral)
                             - (position[k].size - position[k].collateral)
           ELSE 0)
  <2>1. \A j \in Key : LeveragePart[j] \in Int /\ LeveragePart'[j] \in Int
    BY <1>1, <1>2 DEF LeveragePart
  <2>2. \A j \in Key \ {k} : LeveragePart'[j] = LeveragePart[j]
    BY <1>2 DEF LeveragePart
  <2>3. LeveragePart'[k] - LeveragePart[k]
          = (IF IsLong(k) THEN (q.size - q.collateral)
                               - (position[k].size - position[k].collateral)
             ELSE 0)
    BY <1>1, <1>2 DEF LeveragePart
  <2>4. SumFunctionOnSet(LeveragePart', Key)
          = SumFunctionOnSet(LeveragePart, Key) + LeveragePart'[k] - LeveragePart[k]
    BY <2>1, <2>2, KeyFinite, SumChange
  <2>5. SumFunctionOnSet(LeveragePart, Key) \in Int
    BY <2>1, KeyFinite, SumType
  <2>6. SumFunctionOnSet(LeveragePart', Key)
          = SumFunctionOnSet(LeveragePart, Key) + (LeveragePart'[k] - LeveragePart[k])
    BY <2>1, <2>4, <2>5
  <2> QED
    BY <2>3, <2>6 DEF LongLeverage, LeveragePart
<1>6. ASSUME NEW t \in IndexToken
      PROVE  ShortSize(t)' = ShortSize(t)
               + (IF ~ IsLong(k) /\ TokenOf(k) = t THEN q.size - position[k].size ELSE 0)
  <2>1. \A j \in Key : ShortSizePart(t)[j] \in Int /\ ShortSizePart(t)'[j] \in Int
    BY <1>1, <1>2 DEF ShortSizePart
  <2>2. \A j \in Key \ {k} : ShortSizePart(t)'[j] = ShortSizePart(t)[j]
    BY <1>2 DEF ShortSizePart
  <2>3. ShortSizePart(t)'[k] - ShortSizePart(t)[k]
          = (IF ~ IsLong(k) /\ TokenOf(k) = t THEN q.size - position[k].size ELSE 0)
    BY <1>1, <1>2 DEF ShortSizePart
  <2>4. SumFunctionOnSet(ShortSizePart(t)', Key)
          = SumFunctionOnSet(ShortSizePart(t), Key) + ShortSizePart(t)'[k] - ShortSizePart(t)[k]
    BY <2>1, <2>2, KeyFinite, SumChange
  <2>5. SumFunctionOnSet(ShortSizePart(t), Key) \in Int
    BY <2>1, KeyFinite, SumType
  <2>6. SumFunctionOnSet(ShortSizePart(t)', Key)
          = SumFunctionOnSet(ShortSizePart(t), Key) + (ShortSizePart(t)'[k] - ShortSizePart(t)[k])
    BY <2>1, <2>4, <2>5
  <2> QED
    BY <2>3, <2>6 DEF ShortSize, ShortSizePart
<1> QED
  BY <1>3, <1>4, <1>5, <1>6

-----------------------------------------------------------------------------
(* The inductive invariant: the totals equal what the positions say.  Each *)
(* call also leaves the USDC that no counter claims as it was, but for     *)
(* what a liquidation charges a short beyond its collateral.               *)

Totals == OpenPositionsHealthy /\ ReserveCovered /\ GuaranteedExact /\ ShortSizeExact

GmxInv == GmxTypeOK /\ Totals

\* Steps that leave the positions alone leave the sums over them alone.
LEMMA TotalsStay ==
  ASSUME GmxTypeOK, UNCHANGED position
  PROVE  /\ TotalSize' = TotalSize /\ ShortCollateral' = ShortCollateral
         /\ LongLeverage' = LongLeverage
         /\ \A t \in IndexToken : ShortSize(t)' = ShortSize(t)
BY DEF TotalSize, ShortCollateral, LongLeverage, ShortSize

\* Liquidity calls keep the totals: no position moves, and what joins or leaves
\* the pool or the fees joins or leaves the balance.
LEMMA LiquidityTotals ==
  ASSUME GmxInv, NEW Who, Who \subseteq Account, LiquidityStep(Who)
  PROVE  Totals' /\ Unclaimed' = Unclaimed
<1> USE GmxConstants DEF GmxInv, Totals, GmxTypeOK
<1>1. GmxTypeOK /\ GmxTypeOK'
  BY LiquidityType
<1>2. UNCHANGED <<position, reservedAmount, guaranteedUsd, globalShortSize>>
  BY DEF LiquidityStep, BuyUSDG, SendUSDG, SellUSDG, DirectPoolDeposit, WithdrawFees
<1>3. /\ TotalSize' = TotalSize /\ ShortCollateral' = ShortCollateral
      /\ LongLeverage' = LongLeverage
      /\ \A t \in IndexToken : ShortSize(t)' = ShortSize(t)
  BY <1>1, <1>2, TotalsStay
<1>4. OpenPositionsHealthy' /\ GuaranteedExact' /\ ShortSizeExact'
  BY <1>2, <1>3 DEF OpenPositionsHealthy, Healthy, GuaranteedExact, ShortSizeExact
<1>5. reservedAmount <= poolAmount' /\ reservedAmount' = TotalSize'
  BY <1>2, <1>3 DEF ReserveCovered, LiquidityStep, BuyUSDG, SendUSDG, SellUSDG,
                    DirectPoolDeposit, WithdrawFees, PoolCoversReserve
<1>6. Unclaimed' = Unclaimed
  <2> DEFINE pool == poolAmount'
             fees == feeReserve'
             held == balance'
  <2>1. pool \in Int /\ fees \in Int /\ held \in Int /\ ShortCollateral \in Int
    BY <1>1, TotalsType
  <2>2. held - pool - fees = balance - poolAmount - feeReserve
    BY DEF LiquidityStep, BuyUSDG, SendUSDG, SellUSDG, DirectPoolDeposit, WithdrawFees
  <2>3. Unclaimed' = held - pool - fees - ShortCollateral
    BY <1>3 DEF Unclaimed
  <2> HIDE DEF pool, fees, held
  <2> QED
    BY <2>1, <2>2, <2>3 DEF Unclaimed
<1> QED
  BY <1>2, <1>4, <1>5, <1>6 DEF ReserveCovered

\* increasePosition moves each total by as much as the position it grows.
LEMMA IncreaseTotals ==
  ASSUME GmxInv, NEW k \in Key, NEW paid \in Nat, NEW sizeDelta \in Nat,
         NEW fee \in Nat, IncreasePosition(k, paid, sizeDelta, fee)
  PROVE  Totals' /\ Unclaimed' = Unclaimed
<1> DEFINE p == position[k]
           q == Grown(k, paid, sizeDelta, fee)
<1>1. GmxTypeOK /\ GmxTypeOK' /\ Totals
  BY IncreaseType DEF GmxInv
<1>2. p.size \in Nat /\ p.collateral \in Nat
  BY <1>1 DEF GmxTypeOK
<1>3. /\ q \in [size : Nat, collateral : Nat]
      /\ q.size = p.size + sizeDelta /\ q.collateral = p.collateral + paid - fee
  BY <1>2 DEF IncreasePosition, Grown
<1>4. position' = [position EXCEPT ![k] = q] /\ Healthy(q)
  BY DEF IncreasePosition
<1> HIDE DEF q
<1>5. /\ TotalSize' = TotalSize + sizeDelta
      /\ ShortCollateral' = ShortCollateral + (IF IsLong(k) THEN 0 ELSE paid - fee)
      /\ LongLeverage' = LongLeverage + (IF IsLong(k) THEN sizeDelta - paid + fee ELSE 0)
      /\ \A t \in IndexToken :
           ShortSize(t)' = ShortSize(t)
             + (IF ~ IsLong(k) /\ TokenOf(k) = t THEN sizeDelta ELSE 0)
  <2>1. q.size - p.size = sizeDelta /\ q.collateral - p.collateral = paid - fee
    BY <1>2, <1>3
  <2>2. (q.size - q.collateral) - (p.size - p.collateral) = sizeDelta - paid + fee
    BY <1>2, <1>3
  <2>3. TotalSize \in Int
    BY <1>1, TotalsType
  <2>4. TotalSize' = TotalSize + q.size - p.size
    BY <1>1, <1>3, <1>4, TotalsMove
  <2>5. TotalSize' = TotalSize + sizeDelta
    BY <1>2, <1>3, <2>3, <2>4
  <2> QED
    BY <1>1, <1>3, <1>4, <2>1, <2>2, <2>5, TotalsMove
<1>6. TotalSize \in Int /\ ShortCollateral \in Int /\ LongLeverage \in Int
  BY <1>1, TotalsType
<1>7. OpenPositionsHealthy'
  <2>1. \A j \in Key : position'[j] = IF j = k THEN q ELSE position[j]
    BY <1>1, <1>4 DEF GmxTypeOK
  <2> QED
    BY <1>1, <1>4, <2>1 DEF Totals, OpenPositionsHealthy, Healthy
<1>8. ReserveCovered'
  <2>1. reservedAmount' = TotalSize'
    BY <1>1, <1>5, <1>6 DEF Totals, ReserveCovered, IncreasePosition
  <2>2. reservedAmount' <= poolAmount'
    BY <1>1 DEF IncreasePosition, PoolCoversReserve, GmxTypeOK
  <2> QED
    BY <2>1, <2>2 DEF ReserveCovered
<1>9. Unclaimed' = Unclaimed
  <2> DEFINE pool == poolAmount'
             fees == feeReserve'
             held == balance'
             shorts == ShortCollateral'
  <2>1. /\ fees = feeReserve + fee /\ held = balance + paid
        /\ \/ /\ pool = poolAmount + paid - fee /\ shorts = ShortCollateral
           \/ /\ pool = poolAmount /\ shorts = ShortCollateral + (paid - fee)
    BY <1>5, <1>6 DEF IncreasePosition
  <2>2. poolAmount \in Int /\ feeReserve \in Int /\ balance \in Int
    BY <1>1 DEF GmxTypeOK
  <2>3. Unclaimed' = held - pool - fees - shorts
    BY DEF Unclaimed
  <2> HIDE DEF pool, fees, held, shorts
  <2> QED
    BY <1>6, <2>1, <2>2, <2>3 DEF Unclaimed
<1>10. GuaranteedExact'
  BY <1>1, <1>5, <1>6 DEF Totals, GuaranteedExact, IncreasePosition, GmxTypeOK
<1>11. ShortSizeExact'
  BY <1>1, <1>5, KeyParts DEF Totals, ShortSizeExact, IncreasePosition, GmxTypeOK
<1> QED
  BY <1>7, <1>8, <1>9, <1>10, <1>11 DEF Totals

\* What a decrease pays out and what stays add up to what was there, the
\* result and the fee.
LEMMA ReducedSum ==
  ASSUME GmxTypeOK, NEW k \in Key, NEW out \in Nat, NEW sizeDelta \in Nat,
         NEW move \in Int, NEW fee \in Nat,
         0 <= Reduced(k, out, sizeDelta, move, fee).left,
         0 <= Reduced(k, out, sizeDelta, move, fee).stays
  PROVE  LET r == Reduced(k, out, sizeDelta, move, fee)
         IN  /\ r.out + r.stays + fee
                  = position[k].collateral + Profit(move) - Loss(move)
             /\ LongDraw(r, fee) = r.out + fee
             /\ sizeDelta = position[k].size => r.stays = 0
<1> DEFINE r == Reduced(k, out, sizeDelta, move, fee)
<1>1. position[k].size \in Nat /\ position[k].collateral \in Nat
  BY DEF GmxTypeOK
<1>2. Profit(move) \in Nat /\ Loss(move) \in Nat
  BY DEF Profit, Loss
<1>3. r.out + r.stays + fee = position[k].collateral + Profit(move) - Loss(move)
  BY <1>1, <1>2 DEF Reduced
<1>4. LongDraw(r, fee) = r.out + fee
  BY <1>1, <1>2 DEF Reduced, LongDraw
<1>5. sizeDelta = position[k].size => r.stays = 0
  BY <1>1, <1>2 DEF Reduced
<1> QED
  BY <1>3, <1>4, <1>5

\* decreasePosition moves each total by as much as the position it shrinks.
LEMMA DecreaseTotals ==
  ASSUME GmxInv, NEW k \in Key, NEW out \in Nat, NEW sizeDelta \in Nat,
         NEW move \in Int, NEW fee \in Nat, NEW receiver \in Account,
         DecreasePosition(k, out, sizeDelta, move, fee, receiver)
  PROVE  Totals' /\ Unclaimed' = Unclaimed
<1> DEFINE p == position[k]
           r == Reduced(k, out, sizeDelta, move, fee)
           q == [size |-> p.size - sizeDelta, collateral |-> r.stays]
<1>1. GmxTypeOK /\ GmxTypeOK' /\ Totals
  BY DecreaseType DEF GmxInv
<1>2. p.size \in Nat /\ p.collateral \in Nat
  BY <1>1 DEF GmxTypeOK
<1>3. /\ 0 <= r.left /\ 0 <= r.stays /\ sizeDelta <= p.size
      /\ position' = [position EXCEPT ![k] = q]
      /\ q = NoPosition \/ Healthy(q)
  BY DEF DecreasePosition
<1>4. r \in [left : Nat, usdOut : Nat, out : Nat, stays : Nat]
  BY <1>1, <1>3, ReducedType
<1>5. /\ r.out + r.stays + fee = p.collateral + Profit(move) - Loss(move)
      /\ LongDraw(r, fee) = r.out + fee
  BY <1>1, <1>3, ReducedSum
<1>6. Profit(move) \in Nat /\ Loss(move) \in Nat
  BY DEF Profit, Loss
<1>7. /\ reservedAmount' = reservedAmount - sizeDelta
      /\ feeReserve' = feeReserve + fee
      /\ balance' = balance - r.out
      /\ \/ /\ IsLong(k)
            /\ guaranteedUsd' = guaranteedUsd + p.collateral - r.stays - sizeDelta
            /\ poolAmount' = poolAmount - LongDraw(r, fee)
            /\ UNCHANGED globalShortSize
         \/ /\ ~ IsLong(k)
            /\ poolAmount' = poolAmount - Profit(move) + Loss(move)
            /\ globalShortSize' = [globalShortSize EXCEPT
                                     ![TokenOf(k)] = Less(@, sizeDelta)]
            /\ UNCHANGED guaranteedUsd
      /\ reservedAmount' <= poolAmount'
  BY DEF DecreasePosition, PoolCoversReserve
<1>8. /\ q \in [size : Nat, collateral : Nat]
      /\ q.size - p.size = 0 - sizeDelta
      /\ q.collateral - p.collateral = r.stays - p.collateral
      /\ (q.size - q.collateral) - (p.size - p.collateral)
            = p.collateral - r.stays - sizeDelta
  BY <1>2, <1>3, <1>4
<1> HIDE DEF q, r
<1>9. /\ TotalSize' = TotalSize - sizeDelta
      /\ ShortCollateral' = ShortCollateral
           + (IF IsLong(k) THEN 0 ELSE r.stays - p.collateral)
      /\ LongLeverage' = LongLeverage
           + (IF IsLong(k) THEN p.collateral - r.stays - sizeDelta ELSE 0)
      /\ \A t \in IndexToken :
           ShortSize(t)' = ShortSize(t)
             + (IF ~ IsLong(k) /\ TokenOf(k) = t THEN 0 - sizeDelta ELSE 0)
  <2>1. TotalSize \in Int
    BY <1>1, TotalsType
  <2>2. TotalSize' = TotalSize + q.size - p.size
    BY <1>1, <1>3, <1>8, TotalsMove
  <2>3. TotalSize' = TotalSize - sizeDelta
    BY <1>2, <1>8, <2>1, <2>2
  <2> QED
    BY <1>1, <1>3, <1>8, <2>3, TotalsMove
<1>10. TotalSize \in Int /\ ShortCollateral \in Int /\ LongLeverage \in Int
  BY <1>1, TotalsType
<1>11. OpenPositionsHealthy'
  <2>1. \A j \in Key : position'[j] = IF j = k THEN q ELSE position[j]
    BY <1>1, <1>3 DEF GmxTypeOK
  <2> QED
    BY <1>1, <1>3, <2>1 DEF Totals, OpenPositionsHealthy, Healthy, NoPosition
<1>12. ReserveCovered'
  BY <1>1, <1>7, <1>9, <1>10 DEF Totals, ReserveCovered
<1>13. Unclaimed' = Unclaimed
  <2> DEFINE pool == poolAmount'
             fees == feeReserve'
             held == balance'
             shorts == ShortCollateral'
  <2>1. /\ fees = feeReserve + fee /\ held = balance - r.out
        /\ \/ /\ pool = poolAmount - (r.out + fee) /\ shorts = ShortCollateral
           \/ /\ pool = poolAmount - Profit(move) + Loss(move)
              /\ shorts = ShortCollateral + (r.stays - p.collateral)
    BY <1>5, <1>7, <1>9, <1>10
  <2>2. poolAmount \in Int /\ feeReserve \in Int /\ balance \in Int
    BY <1>1 DEF GmxTypeOK
  <2>3. r.out \in Nat /\ r.stays \in Nat
    BY <1>4
  <2>4. /\ Unclaimed' = held - pool - fees - shorts
        /\ Unclaimed = balance - poolAmount - feeReserve - ShortCollateral
    BY DEF Unclaimed
  <2> HIDE DEF pool, fees, held, shorts
  <2>5. CASE pool = poolAmount - (r.out + fee) /\ shorts = ShortCollateral
    BY <1>10, <2>1, <2>2, <2>3, <2>4, <2>5
  <2>6. CASE /\ pool = poolAmount - Profit(move) + Loss(move)
             /\ shorts = ShortCollateral + (r.stays - p.collateral)
    <3>1. r.out + r.stays + fee = p.collateral + Profit(move) - Loss(move)
      BY <1>5
    <3> QED
      BY <1>2, <1>6, <1>10, <2>1, <2>2, <2>3, <2>4, <2>6, <3>1
  <2> QED
    BY <2>1, <2>5, <2>6
<1>14. GuaranteedExact'
  <2>1. r.stays \in Nat
    BY <1>4
  <2> QED
    BY <1>1, <1>2, <1>7, <1>9, <1>10, <2>1 DEF Totals, GuaranteedExact
<1>15. ShortSizeExact'
  <2>1. CASE IsLong(k)
    <3>1. UNCHANGED globalShortSize
      BY <1>7, <2>1
    <3>2. \A t \in IndexToken : ShortSize(t)' = ShortSize(t)
      BY <1>1, <1>9, <2>1, TotalsType
    <3> QED
      BY <1>1, <3>1, <3>2 DEF Totals, ShortSizeExact
  <2>2. CASE ~ IsLong(k)
    <3>1. p.size <= ShortSize(TokenOf(k)) /\ TokenOf(k) \in IndexToken
      BY <1>1, <2>2, TotalsType, KeyParts
    <3>2. ShortSize(TokenOf(k)) \in Nat /\ sizeDelta <= ShortSize(TokenOf(k))
      BY <1>1, <1>2, <1>3, <3>1, TotalsType
    <3>3. \A t \in IndexToken : globalShortSize[t] = ShortSize(t)
      BY <1>1 DEF Totals, ShortSizeExact
    <3>4. \A t \in IndexToken : globalShortSize'[t]
            = IF t = TokenOf(k) THEN ShortSize(t) - sizeDelta ELSE ShortSize(t)
      BY <1>1, <1>7, <2>2, <3>1, <3>2, <3>3 DEF GmxTypeOK, Less
    <3>5. \A t \in IndexToken : ShortSize(t)'
            = IF t = TokenOf(k) THEN ShortSize(t) - sizeDelta ELSE ShortSize(t)
      BY <1>1, <1>9, <2>2, TotalsType
    <3> QED
      BY <3>4, <3>5 DEF ShortSizeExact
  <2> QED
    BY <2>1, <2>2
<1> QED
  BY <1>11, <1>12, <1>13, <1>14, <1>15 DEF Totals

\* A seized position leaves every total; a short may leave more fees than its
\* collateral.
LEMMA SeizeTotals ==
  ASSUME GmxInv, NEW k \in Key, NEW move \in Int, NEW fee \in Nat,
         NEW a \in Account, SeizePosition(k, move, fee, a)
  PROVE  /\ Totals'
         /\ Unclaimed' = IF Overcharged(k, move, fee)
                         THEN Unclaimed - OverchargeOf(k, move, fee) ELSE Unclaimed
<1> DEFINE p == position[k]
           paid == CappedFee(k, move, fee)
<1>1. GmxTypeOK /\ GmxTypeOK' /\ Totals
  BY SeizeType DEF GmxInv
<1>2. p.size \in Nat /\ p.collateral \in Nat
  BY <1>1 DEF GmxTypeOK
<1>3. paid \in Nat
  BY <1>2 DEF CappedFee
<1>4. /\ feeReserve' = feeReserve + paid
      /\ reservedAmount' = reservedAmount - p.size
      /\ position' = [position EXCEPT ![k] = NoPosition]
      /\ balance' = balance - LiqFee
      /\ \/ /\ IsLong(k)
            /\ guaranteedUsd' = guaranteedUsd - (p.size - p.collateral)
            /\ poolAmount' = poolAmount - paid - LiqFee
            /\ UNCHANGED globalShortSize
         \/ /\ ~ IsLong(k)
            /\ poolAmount' = poolAmount + (IF paid < p.collateral THEN p.collateral - paid ELSE 0)
                             - LiqFee
            /\ globalShortSize' = [globalShortSize EXCEPT
                                     ![TokenOf(k)] = Less(@, p.size)]
            /\ UNCHANGED guaranteedUsd
      /\ reservedAmount' <= poolAmount'
  BY <1>2, <1>3 DEF SeizePosition, PoolCoversReserve
<1> HIDE DEF paid
<1>5. NoPosition \in [size : Nat, collateral : Nat]
      /\ NoPosition.size = 0 /\ NoPosition.collateral = 0
  BY DEF NoPosition
<1>6. /\ TotalSize' = TotalSize - p.size
      /\ ShortCollateral' = ShortCollateral + (IF IsLong(k) THEN 0 ELSE 0 - p.collateral)
      /\ LongLeverage' = LongLeverage
           + (IF IsLong(k) THEN 0 - (p.size - p.collateral) ELSE 0)
      /\ \A t \in IndexToken :
           ShortSize(t)' = ShortSize(t)
             + (IF ~ IsLong(k) /\ TokenOf(k) = t THEN 0 - p.size ELSE 0)
  <2>1. TotalSize \in Int
    BY <1>1, TotalsType
  <2>2. TotalSize' = TotalSize + 0 - p.size
    BY <1>1, <1>4, <1>5, TotalsMove
  <2>3. TotalSize' = TotalSize - p.size
    BY <1>2, <2>1, <2>2
  <2>4. (0 - 0) - (p.size - p.collateral) = 0 - (p.size - p.collateral)
    BY <1>2
  <2> QED
    BY <1>1, <1>4, <1>5, <2>3, <2>4, TotalsMove
<1>7. TotalSize \in Int /\ ShortCollateral \in Int /\ LongLeverage \in Int
  BY <1>1, TotalsType
<1>8. OpenPositionsHealthy'
  <2>1. \A j \in Key : position'[j] = IF j = k THEN NoPosition ELSE position[j]
    BY <1>1, <1>4 DEF GmxTypeOK
  <2> QED
    BY <1>1, <2>1 DEF Totals, OpenPositionsHealthy, Healthy, NoPosition
<1>9. ReserveCovered'
  BY <1>1, <1>4, <1>6, <1>7 DEF Totals, ReserveCovered
<1>10. Unclaimed' = IF Overcharged(k, move, fee)
                    THEN Unclaimed - OverchargeOf(k, move, fee) ELSE Unclaimed
  <2> DEFINE pool == poolAmount'
             fees == feeReserve'
             held == balance'
             shorts == ShortCollateral'
             rest == IF paid < p.collateral THEN p.collateral - paid ELSE 0
  <2>1. /\ fees = feeReserve + paid /\ held = balance - LiqFee
        /\ \/ /\ IsLong(k)
              /\ pool = poolAmount - paid - LiqFee /\ shorts = ShortCollateral
           \/ /\ ~ IsLong(k)
              /\ pool = poolAmount + rest - LiqFee
              /\ shorts = ShortCollateral + (0 - p.collateral)
    BY <1>4, <1>6, <1>7
  <2>2. poolAmount \in Int /\ feeReserve \in Int /\ balance \in Int /\ LiqFee \in Int
    BY <1>1, GmxConstants DEF GmxTypeOK
  <2>3. Unclaimed' = held - pool - fees - shorts
    BY DEF Unclaimed
  <2>4. /\ Overcharged(k, move, fee) <=> ~ IsLong(k) /\ p.collateral < paid
        /\ OverchargeOf(k, move, fee) = paid - p.collateral
    BY DEF Overcharged, OverchargeOf, paid
  <2> HIDE DEF pool, fees, held, shorts
  <2> QED
    BY <1>2, <1>3, <1>7, <2>1, <2>2, <2>3, <2>4 DEF Unclaimed
<1>11. GuaranteedExact'
  BY <1>1, <1>2, <1>4, <1>6, <1>7 DEF Totals, GuaranteedExact
<1>12. ShortSizeExact'
  <2>1. CASE IsLong(k)
    <3>1. UNCHANGED globalShortSize
      BY <1>4, <2>1
    <3>2. \A t \in IndexToken : ShortSize(t)' = ShortSize(t)
      BY <1>1, <1>6, <2>1, TotalsType
    <3> QED
      BY <1>1, <3>1, <3>2 DEF Totals, ShortSizeExact
  <2>2. CASE ~ IsLong(k)
    <3>1. p.size <= ShortSize(TokenOf(k)) /\ TokenOf(k) \in IndexToken
      BY <1>1, <2>2, TotalsType, KeyParts
    <3>2. ShortSize(TokenOf(k)) \in Nat
      BY <1>1, <3>1, TotalsType
    <3>3. \A t \in IndexToken : globalShortSize[t] = ShortSize(t)
      BY <1>1 DEF Totals, ShortSizeExact
    <3>4. \A t \in IndexToken : globalShortSize'[t]
            = IF t = TokenOf(k) THEN ShortSize(t) - p.size ELSE ShortSize(t)
      BY <1>1, <1>2, <1>4, <2>2, <3>1, <3>2, <3>3 DEF GmxTypeOK, Less
    <3>5. \A t \in IndexToken : ShortSize(t)'
            = IF t = TokenOf(k) THEN ShortSize(t) - p.size ELSE ShortSize(t)
      BY <1>1, <1>2, <1>6, <2>2, TotalsType
    <3> QED
      BY <3>4, <3>5 DEF ShortSizeExact
  <2> QED
    BY <2>1, <2>2
<1> QED
  BY <1>8, <1>9, <1>10, <1>11, <1>12 DEF Totals

\* The totals are inductive, whoever acts, and what backs them is kept.
LEMMA StepTotals ==
  ASSUME GmxInv, NEW Who, Who \subseteq Account, GmxStep(Who)
  PROVE  GmxInv' /\ BackingStep
<1> USE GmxConstants
<1>1. GmxTypeOK'
  BY StepType DEF GmxInv
<1>2. ASSUME NEW k \in Key, NEW paid \in Amount, NEW sizeDelta \in Amount, NEW fee \in Fee,
             IncreasePosition(k, paid, sizeDelta, fee)
      PROVE  Totals' /\ BackingStep
  BY <1>2, IncreaseTotals DEF BackingStep
<1>3. ASSUME NEW k \in Key, NEW out \in Amount, NEW sizeDelta \in Amount,
             NEW move \in Move, NEW fee \in Fee,
             DecreasePosition(k, out, sizeDelta, move, fee, Owner(k))
      PROVE  Totals' /\ BackingStep
  BY <1>3, DecreaseTotals, KeyParts DEF BackingStep
<1>4. ASSUME NEW k \in Key, NEW move \in Move, NEW fee \in Fee, NEW a \in Account,
             SeizePosition(k, move, fee, a)
      PROVE  Totals' /\ BackingStep
  <2>1. move \in Int /\ fee \in Nat
    OBVIOUS
  <2>2. Totals' /\ Unclaimed' = IF Overcharged(k, move, fee)
                                THEN Unclaimed - OverchargeOf(k, move, fee) ELSE Unclaimed
    BY <1>4, <2>1, SeizeTotals
  <2> QED
    BY <1>4, <2>2 DEF BackingStep, OverchargeStep
<1>5. ASSUME NEW k \in Key, NEW move \in Move, NEW fee \in Fee,
             DeleveragePosition(k, move, fee)
      PROVE  Totals' /\ BackingStep
  <2>1. position[k].size \in Nat
    BY DEF GmxInv, GmxTypeOK
  <2> QED
    BY <1>5, <2>1, DecreaseTotals, KeyParts DEF DeleveragePosition, BackingStep
<1>6. ASSUME LiquidityStep(Who) PROVE Totals' /\ BackingStep
  BY <1>6, LiquidityTotals DEF BackingStep
<1> QED
  BY <1>1, <1>2, <1>3, <1>4, <1>5, <1>6
     DEF GmxInv, GmxStep, PositionStep, LiquidationStep

\* The totals hold of the empty vault.
LEMMA InitTotals == GmxInit => GmxInv
<1> SUFFICES ASSUME GmxInit PROVE GmxInv
  OBVIOUS
<1>1. \A k \in Key : position[k].size = 0 /\ position[k].collateral = 0
  BY DEF GmxInit, NoPosition
<1>2. TotalSize = 0
  BY <1>1, KeyFinite, SumZero DEF TotalSize
<1>3. ShortCollateral = 0
  BY <1>1, KeyFinite, SumZero DEF ShortCollateral
<1>4. LongLeverage = 0
  BY <1>1, KeyFinite, SumZero DEF LongLeverage
<1>5. \A t \in IndexToken : ShortSize(t) = 0
  BY <1>1, KeyFinite, SumZero DEF ShortSize
<1> QED
  BY <1>2, <1>3, <1>4, <1>5, InitType
     DEF GmxInv, Totals, GmxInit, OpenPositionsHealthy, ReserveCovered,
         GuaranteedExact, ShortSizeExact

LEMMA TotalsNext == GmxInv /\ [GmxNext]_gmxVars => GmxInv' /\ [BackingStep]_gmxVars
<1>1. ASSUME GmxInv, GmxNext PROVE GmxInv' /\ BackingStep
  BY <1>1, StepTotals DEF GmxNext
<1>2. ASSUME GmxInv, UNCHANGED gmxVars PROVE GmxInv'
  <2>1. GmxTypeOK' /\ UNCHANGED position
    BY <1>2 DEF gmxVars, GmxInv, GmxTypeOK
  <2>2. /\ TotalSize' = TotalSize /\ LongLeverage' = LongLeverage
        /\ \A t \in IndexToken : ShortSize(t)' = ShortSize(t)
    BY <1>2, <2>1, TotalsStay DEF GmxInv
  <2> QED
    BY <1>2, <2>1, <2>2
       DEF gmxVars, GmxInv, Totals, OpenPositionsHealthy, Healthy,
           ReserveCovered, GuaranteedExact, ShortSizeExact
<1> QED
  BY <1>1, <1>2

LEMMA GmxInvTotals == GmxInv => TotalsExact
  BY DEF GmxInv, Totals, TotalsExact

\* The running totals of the vault are exact at all times, for any number of
\* accounts and markets and any amounts and fees.
THEOREM GmxTotalsHold == GmxSpec => []TotalsExact
  BY TotalsNext, GmxInvTotals, InitTotals, PTL DEF GmxSpec

\* No call counts USDC twice or pays it out uncounted, but the liquidation of
\* an overcharged short, and that by what it overcharges.
THEOREM GmxBackingKept == GmxSpec => BackingKept
  BY TotalsNext, InitTotals, PTL DEF GmxSpec, BackingKept

\* Hence the vault's USDC covers pool, fees and short collateral for as long as
\* no short has been overcharged.
THEOREM BackedUntilOvercharged ==
  GmxSpec /\ [][~ OverchargeStep]_gmxVars => []PoolBacked
<1>1. GmxInit => PoolBacked
  <2>1. SUFFICES ASSUME GmxInit PROVE PoolBacked
    OBVIOUS
  <2>2. \A k \in Key : position[k].collateral = 0
    BY <2>1 DEF GmxInit, NoPosition
  <2>3. ShortCollateral = 0
    BY <2>2, KeyFinite, SumZero DEF ShortCollateral
  <2> QED
    BY <2>1, <2>3 DEF GmxInit, PoolBacked, Unclaimed
<1>2. PoolBacked /\ [BackingStep]_gmxVars /\ [~ OverchargeStep]_gmxVars => PoolBacked'
  <2>1. ASSUME UNCHANGED gmxVars PROVE Unclaimed' = Unclaimed
    BY <2>1 DEF gmxVars, Unclaimed, ShortCollateral
  <2> QED
    BY <2>1 DEF PoolBacked, BackingStep
<1>3. GmxSpec => [][BackingStep]_gmxVars
  BY GmxBackingKept DEF BackingKept
<1> QED
  BY <1>1, <1>2, <1>3, PTL DEF GmxSpec

-----------------------------------------------------------------------------
(* The positions VaultAccounting tracks.                                   *)

\* A tracked position of a mapped asset has its leg among the keys of GMX.
LEMMA LegInKey ==
  ASSUME NEW k \in PosKey, assetToken \in [Asset -> IndexToken \cup {NoToken}],
         assetToken[AssetOf(k)] # NoToken
  PROVE  Leg(k) \in Key /\ Owner(Leg(k)) = VA
BY AccountingConstants DEF PosKey, Leg, Key, AssetOf, Owner, Side

\* The vault and the asset of a position key.
LEMMA PosKeyParts ==
  ASSUME NEW k \in PosKey
  PROVE  VaultOf(k) \in Vault /\ AssetOf(k) \in Asset
BY DEF PosKey, VaultOf, AssetOf

-----------------------------------------------------------------------------
(* Type correctness.                                                       *)

\* The share of a partial close is at most the whole.
LEMMA ShareBounded ==
  ASSUME NEW c \in Nat, NEW s \in Nat, NEW n \in Nat, s <= n, 0 < n
  PROVE  (c * s) \div n \in Nat /\ (c * s) \div n <= c
<1>1. c * s \in Nat /\ c * s <= c * n
  BY SMT
<1> DEFINE d == (c * s) \div n
<1>2. d \in Nat /\ n * d <= c * s
  BY <1>1, SMT
<1> HIDE DEF d
<1>3. n * d <= c * n
  BY <1>1, <1>2
<1>4. d <= c
  BY <1>2, <1>3
<1> QED
  BY <1>2, <1>4 DEF d

\* A close takes at most the collateral of the position off the books.
LEMMA AtRiskType ==
  ASSUME TypeOK, NEW k \in PosKey, NEW sizeDelta \in Nat, sizeDelta <= tracking[k].size
  PROVE  /\ CollateralAtRisk(k, sizeDelta) \in Nat
         /\ CollateralAtRisk(k, sizeDelta) <= tracking[k].collateralUsdc
<1>1. tracking[k].size \in Nat /\ tracking[k].collateralUsdc \in Nat
  BY DEF TypeOK, BookTypeOK
<1>2. CASE sizeDelta = tracking[k].size
  BY <1>1, <1>2 DEF CollateralAtRisk
<1>3. CASE sizeDelta # tracking[k].size
  BY <1>1, <1>3, ShareBounded DEF CollateralAtRisk
<1> QED
  BY <1>2, <1>3

\* Only the GMX vault's variables matter to its type.
LEMMA GmxUnchanged ==
  ASSUME GmxTypeOK, UNCHANGED gmxVars
  PROVE  GmxTypeOK'
BY DEF gmxVars, GmxTypeOK

\* What an action leaves alone keeps its type.
LEMMA BookUnchanged ==
  ASSUME BookTypeOK, UNCHANGED book
  PROVE  BookTypeOK'
BY DEF book, BookTypeOK

\* The capital likewise.
LEMMA CapitalUnchanged ==
  ASSUME CapitalTypeOK, UNCHANGED capital
  PROVE  CapitalTypeOK'
BY DEF capital, CapitalTypeOK

\* The settings likewise.
LEMMA SettingsUnchanged ==
  ASSUME SettingsTypeOK, UNCHANGED <<registered, settings, seeding>>
  PROVE  SettingsTypeOK'
BY DEF settings, seeding, SettingsTypeOK

\* Registration keeps the types: a struct starts from zeros.
LEMMA RegistryType ==
  ASSUME TypeOK, RegistryStep
  PROVE  TypeOK'
<1>1. ASSUME NEW v \in Vault, RegisterVault(v) PROVE TypeOK'
  <2>1. GmxTypeOK'
    BY <1>1, GmxUnchanged DEF RegisterVault, TypeOK
  <2>2. BookTypeOK'
    BY <1>1 DEF RegisterVault, TypeOK, BookTypeOK
  <2>3. CapitalTypeOK'
    BY <1>1 DEF RegisterVault, TypeOK, CapitalTypeOK
  <2>4. SettingsTypeOK'
    BY <1>1 DEF RegisterVault, TypeOK, SettingsTypeOK, settings, seeding
  <2> QED
    BY <2>1, <2>2, <2>3, <2>4 DEF TypeOK
<1>2. ASSUME NEW v \in Vault, DeregisterVault(v) PROVE TypeOK'
  <2>1. GmxTypeOK' /\ BookTypeOK' /\ CapitalTypeOK'
    BY <1>2, GmxUnchanged, BookUnchanged, CapitalUnchanged DEF DeregisterVault, TypeOK
  <2>2. SettingsTypeOK'
    BY <1>2 DEF DeregisterVault, TypeOK, SettingsTypeOK, settings, seeding
  <2> QED
    BY <2>1, <2>2 DEF TypeOK
<1> QED
  BY <1>1, <1>2 DEF RegistryStep

\* The setters of the owner keep the types.
LEMMA SettingType ==
  ASSUME TypeOK, SettingStep
  PROVE  TypeOK'
<1> USE AccountingConstants
<1>1. /\ UNCHANGED <<gmxVars, registered, capital, book, seeding>>
      /\ SettingsTypeOK'
  <2>1. CASE \E a \in Asset, t \in IndexToken : MapAssetToken(a, t)
    BY <2>1 DEF MapAssetToken, TypeOK, SettingsTypeOK, seeding
  <2>2. CASE \E v \in Vault, cap \in Cap : SetMaxOpenInterest(v, cap)
    BY <2>2 DEF SetMaxOpenInterest, TypeOK, SettingsTypeOK, seeding
  <2>3. CASE \E v \in Vault, cap \in Cap : SetMaxPositionSize(v, cap)
    BY <2>3 DEF SetMaxPositionSize, TypeOK, SettingsTypeOK, seeding
  <2>4. CASE \E flag \in BOOLEAN : SetPaused(flag)
    BY <2>4 DEF SetPaused, TypeOK, SettingsTypeOK, seeding
  <2> QED
    BY <2>1, <2>2, <2>3, <2>4 DEF SettingStep
<1> QED
  BY <1>1, GmxUnchanged, BookUnchanged, CapitalUnchanged DEF TypeOK

\* A step of the seeding section either leaves GMX alone or is a step of GMX.
LEMMA SeedType ==
  ASSUME TypeOK, SeedStep
  PROVE  TypeOK'
<1> USE AccountingConstants, GmxConstants
<1>1. /\ UNCHANGED gmxVars \/ LiquidityStep(Account)
      /\ UNCHANGED <<registered, capital, book, settings>>
      /\ SettingsTypeOK'
  <2>1. CASE \E a \in Others, amount \in Amount : SeedPool(a, amount)
    BY <2>1 DEF SeedPool, LiquidityStep, Others, TypeOK, SettingsTypeOK, settings
  <2>2. CASE \E amount \in Amount, fee \in Fee : UnseedPool(amount, fee)
    BY <2>2 DEF UnseedPool, LiquidityStep, TypeOK, SettingsTypeOK, settings
  <2>3. CASE ResetSeedCap
    BY <2>3 DEF ResetSeedCap, SeedingOnly, TypeOK, SettingsTypeOK, settings
  <2>4. CASE \E cap \in Cap : SetSeedCapPerEpoch(cap)
    BY <2>4 DEF SetSeedCapPerEpoch, SeedingOnly, TypeOK, SettingsTypeOK, settings
  <2>5. CASE \E cap \in Cap : SetUnseedCapPerEpoch(cap)
    BY <2>5 DEF SetUnseedCapPerEpoch, SeedingOnly, TypeOK, SettingsTypeOK, settings
  <2>6. CASE \E cap \in Cap : SetMinPoolFloor(cap)
    BY <2>6 DEF SetMinPoolFloor, SeedingOnly, TypeOK, SettingsTypeOK, settings
  <2> QED
    BY <2>1, <2>2, <2>3, <2>4, <2>5, <2>6 DEF SeedStep
<1>2. GmxTypeOK'
  BY <1>1, GmxUnchanged, LiquidityType DEF TypeOK
<1> QED
  BY <1>1, <1>2, BookUnchanged, CapitalUnchanged DEF TypeOK

\* A deposit keeps the types.
LEMMA DepositType ==
  ASSUME TypeOK, NEW a \in Others, NEW v \in Vault, NEW amount \in Nat,
         DepositCapital(a, v, amount)
  PROVE  TypeOK'
<1> USE AccountingConstants
<1>1. GmxTypeOK'
  BY DEF DepositCapital, Others, GmxIdle, TypeOK, GmxTypeOK
<1>2. CapitalTypeOK'
  BY DEF DepositCapital, TypeOK, CapitalTypeOK
<1> QED
  BY <1>1, <1>2, BookUnchanged, SettingsUnchanged DEF DepositCapital, TypeOK

\* The principal of a withdrawal is part of it and of the deposited capital.
LEMMA PrincipalType ==
  ASSUME CapitalTypeOK, NEW v \in Vault, NEW amount \in Nat
  PROVE  /\ Principal(v, amount) \in Nat /\ Principal(v, amount) <= amount
         /\ Principal(v, amount) <= depositedCapital[v]
BY DEF CapitalTypeOK, Principal

\* A withdrawal keeps the types; its profit part may make realisedPnL negative.
LEMMA WithdrawType ==
  ASSUME TypeOK, NEW v \in Vault, NEW amount \in Nat, WithdrawCapital(v, amount)
  PROVE  TypeOK'
<1> USE AccountingConstants
<1>1. GmxTypeOK'
  BY DEF WithdrawCapital, GmxIdle, TypeOK, GmxTypeOK
<1>2. CapitalTypeOK'
  <2> DEFINE principal == Principal(v, amount)
  <2>1. /\ principal \in Nat /\ principal <= amount /\ principal <= depositedCapital[v]
        /\ principal <= totalDeposited
    BY PrincipalType DEF WithdrawCapital, TypeOK
  <2>2. /\ depositedCapital' = [depositedCapital EXCEPT ![v] = @ - principal]
        /\ totalDeposited' = totalDeposited - principal
        /\ realisedPnL' = [realisedPnL EXCEPT ![v] = @ - (amount - principal)]
        /\ UNCHANGED collateralLocked
    BY DEF WithdrawCapital
  <2> HIDE DEF principal
  <2> QED
    BY <2>1, <2>2 DEF TypeOK, CapitalTypeOK
<1> QED
  BY <1>1, <1>2, BookUnchanged, SettingsUnchanged DEF WithdrawCapital, TypeOK

\* An open keeps the types.
LEMMA OpenType ==
  ASSUME TypeOK, NEW k \in PosKey, NEW size \in Nat, NEW collateral \in Nat,
         NEW fee \in Nat, OpenPosition(k, size, collateral, fee)
  PROVE  TypeOK'
<1>1. Leg(k) \in Key
  BY LegInKey DEF OpenPosition, TypeOK, SettingsTypeOK
<1>2. GmxTypeOK'
  BY <1>1, IncreaseType DEF OpenPosition, TypeOK
<1>3. VaultOf(k) \in Vault
  BY PosKeyParts
<1>4. CapitalTypeOK'
  BY <1>3 DEF OpenPosition, TypeOK, CapitalTypeOK
<1>5. BookTypeOK'
  <2>1. tracking' \in [PosKey -> [size : Nat, collateralUsdc : Nat, exists : BOOLEAN]]
    BY DEF OpenPosition, TypeOK, BookTypeOK
  <2>2. PushKey(k) \/ UNCHANGED <<openKeys, keyIndex>>
    BY DEF OpenPosition
  <2>3. openKeys' \in [Vault -> Seq(PosKey)]
    <3>1. openKeys \in [Vault -> Seq(PosKey)]
      BY DEF TypeOK, BookTypeOK
    <3>2. Append(openKeys[VaultOf(k)], k) \in Seq(PosKey)
      BY <1>3, <3>1
    <3>3. \/ openKeys' = [openKeys EXCEPT ![VaultOf(k)] = Append(openKeys[VaultOf(k)], k)]
          \/ openKeys' = openKeys
      BY <2>2 DEF PushKey
    <3> QED
      BY <1>3, <3>1, <3>2, <3>3
  <2>4. keyIndex' \in [PosKey -> Nat]
    BY <1>3, <2>2 DEF PushKey, TypeOK, BookTypeOK
  <2>5. openInterest' \in [Vault -> Nat]
    BY <1>3 DEF OpenPosition, TypeOK, BookTypeOK
  <2>6. \/ UNCHANGED positionCount
        \/ positionCount' = [positionCount EXCEPT ![VaultOf(k)] = @ + 1]
    BY DEF OpenPosition
  <2>7. positionCount \in [Vault -> Nat]
    BY DEF TypeOK, BookTypeOK
  <2>8. positionCount' \in [Vault -> Nat]
    BY <1>3, <2>6, <2>7
  <2> QED
    BY <2>1, <2>3, <2>4, <2>5, <2>8 DEF BookTypeOK
<1> QED
  BY <1>2, <1>4, <1>5, SettingsUnchanged DEF OpenPosition, TypeOK

\* The swap-remove keeps the list a list of keys.
LEMMA RemoveKeyType ==
  ASSUME BookTypeOK, NEW k \in PosKey, RemoveKey(k)
  PROVE  openKeys' \in [Vault -> Seq(PosKey)] /\ keyIndex' \in [PosKey -> Nat]
<1> DEFINE v == VaultOf(k)
           keys == openKeys[v]
           n == Len(keys)
           idx == keyIndex[k]
<1>1. v \in Vault /\ keys \in Seq(PosKey) /\ n \in Nat /\ idx \in Nat
  BY PosKeyParts DEF BookTypeOK
<1>2. CASE idx = 0
  BY <1>2 DEF RemoveKey, BookTypeOK
<1>3. CASE idx # 0
  <2> DEFINE shorter == [i \in 1..(n - 1) |-> IF i = idx THEN keys[n] ELSE keys[i]]
  <2>1. /\ 0 < n /\ openKeys' = [openKeys EXCEPT ![v] = shorter]
        /\ keyIndex' = [j \in PosKey |-> IF j = k THEN 0
                                         ELSE IF j = keys[n] /\ idx # n THEN idx
                                         ELSE keyIndex[j]]
    BY <1>3 DEF RemoveKey
  <2>2. \A i \in 1..n : keys[i] \in PosKey
    BY <1>1
  <2>3. shorter \in Seq(PosKey)
    BY <1>1, <2>1, <2>2
  <2> HIDE DEF v, keys, n, idx, shorter
  <2>4. keyIndex' \in [PosKey -> Nat]
    BY <1>1, <2>1 DEF BookTypeOK
  <2>5. openKeys' \in [Vault -> Seq(PosKey)]
    BY <1>1, <2>1, <2>3 DEF BookTypeOK
  <2> QED
    BY <2>4, <2>5
<1> QED
  BY <1>2, <1>3

\* A close keeps the types: the collateral at risk is part of the tracked one.
LEMMA CloseType ==
  ASSUME TypeOK, NEW k \in PosKey, NEW sizeDelta \in Nat, NEW out \in Nat,
         NEW move \in Int, NEW fee \in Nat, ClosePosition(k, sizeDelta, out, move, fee)
  PROVE  TypeOK'
<1> DEFINE v == VaultOf(k)
           atRisk == CollateralAtRisk(k, sizeDelta)
           returned == Reduced(Leg(k), out, sizeDelta, move, fee).out
<1>1. Leg(k) \in Key /\ VA \in Account
  BY LegInKey, AccountingConstants DEF ClosePosition, TypeOK, SettingsTypeOK
<1>2. GmxTypeOK' /\ returned \in Nat
  BY <1>1, DecreaseType DEF ClosePosition, TypeOK
<1>3. v \in Vault
  BY PosKeyParts
<1>4. atRisk \in Nat /\ atRisk <= tracking[k].collateralUsdc
  BY AtRiskType DEF ClosePosition
<1>5. /\ sizeDelta <= tracking[k].size
      /\ sizeDelta <= openInterest[v] /\ atRisk <= collateralLocked[v]
      /\ openInterest' = [openInterest EXCEPT ![v] = @ - sizeDelta]
      /\ collateralLocked' = [collateralLocked EXCEPT ![v] = @ - atRisk]
      /\ realisedPnL' = [realisedPnL EXCEPT ![v] = @ + (returned - atRisk)]
      /\ \/ tracking' = [tracking EXCEPT ![k] = Untracked]
         \/ tracking' = [tracking EXCEPT ![k] =
                          [size |-> tracking[k].size - sizeDelta,
                           collateralUsdc |-> tracking[k].collateralUsdc - atRisk,
                           exists |-> TRUE]]
      /\ \/ /\ 0 < positionCount[v]
            /\ positionCount' = [positionCount EXCEPT ![v] = @ - 1]
         \/ UNCHANGED positionCount
      /\ RemoveKey(k) \/ UNCHANGED <<openKeys, keyIndex>>
      /\ UNCHANGED <<registered, depositedCapital, totalDeposited, settings, seeding>>
  BY DEF ClosePosition, Pnl
<1> HIDE DEF v, atRisk, returned
<1>6. CapitalTypeOK'
  BY <1>2, <1>3, <1>4, <1>5 DEF TypeOK, CapitalTypeOK
<1>7. tracking' \in [PosKey -> [size : Nat, collateralUsdc : Nat, exists : BOOLEAN]]
  <2> DEFINE part == [size |-> tracking[k].size - sizeDelta,
                      collateralUsdc |-> tracking[k].collateralUsdc - atRisk,
                      exists |-> TRUE]
  <2>1. tracking[k].size \in Nat /\ tracking[k].collateralUsdc \in Nat
    BY DEF TypeOK, BookTypeOK
  <2>2. tracking[k].size - sizeDelta \in Nat /\ tracking[k].collateralUsdc - atRisk \in Nat
    BY <1>4, <1>5, <2>1
  <2>3. part \in [size : Nat, collateralUsdc : Nat, exists : BOOLEAN]
    BY <2>2
  <2>4. \/ tracking' = [tracking EXCEPT ![k] = Untracked]
        \/ tracking' = [tracking EXCEPT ![k] = part]
    BY <1>5
  <2>5. /\ Untracked \in [size : Nat, collateralUsdc : Nat, exists : BOOLEAN]
        /\ tracking \in [PosKey -> [size : Nat, collateralUsdc : Nat, exists : BOOLEAN]]
    BY DEF Untracked, TypeOK, BookTypeOK
  <2> HIDE DEF part
  <2> QED
    BY <2>3, <2>4, <2>5
<1>8. openKeys' \in [Vault -> Seq(PosKey)] /\ keyIndex' \in [PosKey -> Nat]
  BY <1>5, RemoveKeyType DEF TypeOK, BookTypeOK
<1>9. openInterest' \in [Vault -> Nat]
  BY <1>3, <1>5 DEF TypeOK, BookTypeOK
<1>10. positionCount' \in [Vault -> Nat]
  <2>1. positionCount \in [Vault -> Nat]
    BY DEF TypeOK, BookTypeOK
  <2> QED
    BY <1>3, <1>5, <2>1
<1>11. BookTypeOK'
  BY <1>7, <1>8, <1>9, <1>10 DEF BookTypeOK
<1> QED
  BY <1>2, <1>5, <1>6, <1>11, SettingsUnchanged DEF TypeOK

\* Every call of a vault keeps the types.
LEMMA TradeType ==
  ASSUME TypeOK, TradeStep
  PROVE  TypeOK'
BY DepositType, WithdrawType, OpenType, CloseType, AccountingConstants, GmxConstants
   DEF TradeStep

\* The market keeps the types; it touches nothing of VaultAccounting.
LEMMA MarketType ==
  ASSUME TypeOK, MarketStep
  PROVE  TypeOK'
<1>1. Others \subseteq Account
  BY DEF Others
<1>2. GmxTypeOK'
  BY <1>1, StepType DEF MarketStep, TypeOK
<1> QED
  BY <1>2, BookUnchanged, CapitalUnchanged, SettingsUnchanged
     DEF MarketStep, vaVars, TypeOK

\* TypeOK is inductive.
LEMMA NextType ==
  ASSUME TypeOK, [Next]_vars
  PROVE  TypeOK'
<1>1. CASE UNCHANGED vars
  BY <1>1, GmxUnchanged, BookUnchanged, CapitalUnchanged, SettingsUnchanged
     DEF vars, vaVars, TypeOK
<1> QED
  BY <1>1, RegistryType, SettingType, SeedType, TradeType, MarketType DEF Next

-----------------------------------------------------------------------------
(* The ledger.                                                             *)

LP == INSTANCE SegregatedLedgerProofs WITH
        Client <- Vault, held <- wallet[VA], free <- [v \in Vault |-> Free(v)]

\* What a call for vault v does to the ledger: n USDC come in, for v.
Credits(v, n) ==
  /\ wallet'[VA] = wallet[VA] + n
  /\ \A u \in Vault : Free(u)' = IF u = v THEN Free(u) + n ELSE Free(u)

\* Free capital is a number, maybe a negative one.
LEMMA FreeType ==
  ASSUME CapitalTypeOK, NEW v \in Vault
  PROVE  Free(v) \in Int
BY DEF CapitalTypeOK, Free

\* A payment changes one wallet.
LEMMA PayOne ==
  ASSUME GmxTypeOK, NEW a \in Account, NEW n \in Int, Pay(a, n), NEW b \in Account
  PROVE  wallet'[b] = IF b = a THEN wallet[b] + n ELSE wallet[b]
BY DEF Pay, GmxTypeOK

\* A deposit credits its vault with what it brings in.
LEMMA DepositCredits ==
  ASSUME TypeOK, NEW a \in Others, NEW v \in Vault, NEW amount \in Nat,
         DepositCapital(a, v, amount)
  PROVE  Credits(v, amount)
<1> USE AccountingConstants
<1>1. wallet'[VA] = wallet[VA] + amount
  BY DEF DepositCapital, Others, TypeOK, GmxTypeOK
<1>2. ASSUME NEW u \in Vault
      PROVE  Free(u)' = IF u = v THEN Free(u) + amount ELSE Free(u)
  <2> DEFINE d == depositedCapital'[u]
  <2>1. /\ d = IF u = v THEN depositedCapital[u] + amount ELSE depositedCapital[u]
        /\ realisedPnL' = realisedPnL /\ collateralLocked' = collateralLocked
    BY DEF DepositCapital, TypeOK, CapitalTypeOK
  <2>2. Free(u)' = d + realisedPnL[u] - collateralLocked[u]
    BY <2>1 DEF Free
  <2> HIDE DEF d
  <2> QED
    BY <2>1, <2>2 DEF Free, TypeOK, CapitalTypeOK
<1> QED
  BY <1>1, <1>2 DEF Credits

\* A withdrawal debits its vault with what it takes, which the vault has.
LEMMA WithdrawCredits ==
  ASSUME TypeOK, NEW v \in Vault, NEW amount \in Nat, WithdrawCapital(v, amount)
  PROVE  Credits(v, -amount) /\ amount <= Available(v)
<1> USE AccountingConstants
<1>1. wallet'[VA] = wallet[VA] - amount /\ amount <= Available(v)
  BY DEF WithdrawCapital, TypeOK, GmxTypeOK
<1> DEFINE principal == Principal(v, amount)
<1>2. principal \in Nat
  BY PrincipalType DEF TypeOK
<1>3. ASSUME NEW u \in Vault
      PROVE  Free(u)' = IF u = v THEN Free(u) - amount ELSE Free(u)
  <2> DEFINE d == depositedCapital'[u]
             r == realisedPnL'[u]
  <2>1. /\ d = IF u = v THEN depositedCapital[u] - principal ELSE depositedCapital[u]
        /\ r = IF u = v THEN realisedPnL[u] - (amount - principal) ELSE realisedPnL[u]
        /\ collateralLocked' = collateralLocked
    BY DEF WithdrawCapital, TypeOK, CapitalTypeOK
  <2>2. Free(u)' = d + r - collateralLocked[u]
    BY <2>1 DEF Free
  <2> HIDE DEF d, r, principal
  <2> QED
    BY <1>2, <2>1, <2>2 DEF Free, TypeOK, CapitalTypeOK
<1> QED
  BY <1>1, <1>3 DEF Credits, TypeOK, GmxTypeOK

\* An open debits its vault with the collateral, which the vault has.
LEMMA OpenCredits ==
  ASSUME TypeOK, NEW k \in PosKey, NEW size \in Nat, NEW collateral \in Nat,
         NEW fee \in Nat, OpenPosition(k, size, collateral, fee)
  PROVE  Credits(VaultOf(k), -collateral) /\ collateral <= Available(VaultOf(k))
<1>1. /\ Leg(k) \in Key /\ Owner(Leg(k)) = VA /\ VA \in Account
      /\ VaultOf(k) \in Vault
  BY LegInKey, PosKeyParts, AccountingConstants DEF OpenPosition, TypeOK, SettingsTypeOK
<1>2. Pay(VA, -collateral)
  BY <1>1 DEF OpenPosition, IncreasePosition
<1>3. wallet'[VA] = wallet[VA] + (-collateral)
  BY <1>1, <1>2, PayOne DEF TypeOK
<1>4. ASSUME NEW u \in Vault
      PROVE  Free(u)' = IF u = VaultOf(k) THEN Free(u) + (-collateral) ELSE Free(u)
  <2> DEFINE l == collateralLocked'[u]
  <2>1. /\ l = IF u = VaultOf(k) THEN collateralLocked[u] + collateral
               ELSE collateralLocked[u]
        /\ depositedCapital' = depositedCapital /\ realisedPnL' = realisedPnL
    BY DEF OpenPosition, TypeOK, CapitalTypeOK
  <2>2. Free(u)' = depositedCapital[u] + realisedPnL[u] - l
    BY <2>1 DEF Free
  <2> HIDE DEF l
  <2> QED
    BY <2>1, <2>2 DEF Free, TypeOK, CapitalTypeOK
<1> QED
  BY <1>3, <1>4 DEF Credits, OpenPosition

\* A close credits its vault with what GMX returns.
LEMMA CloseCredits ==
  ASSUME TypeOK, NEW k \in PosKey, NEW sizeDelta \in Nat, NEW out \in Nat,
         NEW move \in Int, NEW fee \in Nat, ClosePosition(k, sizeDelta, out, move, fee)
  PROVE  \E n \in Nat : Credits(VaultOf(k), n)
<1> DEFINE v == VaultOf(k)
           atRisk == CollateralAtRisk(k, sizeDelta)
           returned == Reduced(Leg(k), out, sizeDelta, move, fee).out
<1>1. Leg(k) \in Key /\ VA \in Account
  BY LegInKey, AccountingConstants DEF ClosePosition, TypeOK, SettingsTypeOK
<1>2. returned \in Nat
  BY <1>1, DecreaseType DEF ClosePosition, TypeOK
<1>3. v \in Vault
  BY PosKeyParts
<1>4. atRisk \in Nat
  BY AtRiskType DEF ClosePosition
<1>5. /\ Pay(VA, returned)
      /\ collateralLocked' = [collateralLocked EXCEPT ![v] = @ - atRisk]
      /\ realisedPnL' = [realisedPnL EXCEPT ![v] = @ + (returned - atRisk)]
      /\ depositedCapital' = depositedCapital
  BY DEF ClosePosition, DecreasePosition, Pnl
<1> HIDE DEF v, atRisk, returned
<1>6. wallet'[VA] = wallet[VA] + returned
  BY <1>1, <1>2, <1>5, PayOne DEF TypeOK
<1>7. ASSUME NEW u \in Vault
      PROVE  Free(u)' = IF u = v THEN Free(u) + returned ELSE Free(u)
  <2> DEFINE l == collateralLocked'[u]
             r == realisedPnL'[u]
  <2>1. /\ l = IF u = v THEN collateralLocked[u] - atRisk ELSE collateralLocked[u]
        /\ r = IF u = v THEN realisedPnL[u] + (returned - atRisk) ELSE realisedPnL[u]
    BY <1>3, <1>5 DEF TypeOK, CapitalTypeOK
  <2>2. Free(u)' = depositedCapital[u] + r - l
    BY <1>5 DEF Free
  <2> HIDE DEF l, r
  <2> QED
    BY <1>2, <1>4, <2>1, <2>2 DEF Free, TypeOK, CapitalTypeOK
<1> QED
  BY <1>2, <1>6, <1>7 DEF Credits, v

\* GMX never takes USDC from VaultAccounting on its own.
LEMMA PurseKept ==
  ASSUME GmxTypeOK, GmxStep(Others)
  PROVE  wallet[VA] <= wallet'[VA]
<1> USE AccountingConstants, GmxConstants
<1>1. wallet \in [Account -> Nat] /\ VA \in Account /\ Others = Account \ {VA}
  BY DEF GmxTypeOK, Others
<1>2. CASE LiquidityStep(Others)
  <2>1. ASSUME NEW a \in Others, NEW paid \in Amount, NEW fee \in Fee, BuyUSDG(a, paid, fee)
        PROVE  wallet[VA] <= wallet'[VA]
    BY <1>1, <2>1 DEF BuyUSDG, Pay
  <2>2. ASSUME NEW amount \in Amount, SendUSDG(amount) PROVE wallet[VA] <= wallet'[VA]
    BY <1>1, <2>2 DEF SendUSDG
  <2>3. ASSUME NEW a \in Account, NEW fee \in Fee, SellUSDG(a, fee)
        PROVE  wallet[VA] <= wallet'[VA]
    <3>1. usdgIn - fee \in Nat /\ Pay(a, usdgIn - fee)
      BY <2>3 DEF SellUSDG, GmxTypeOK
    <3>2. wallet'[VA] = IF VA = a THEN wallet[VA] + (usdgIn - fee) ELSE wallet[VA]
      BY <1>1, <3>1, PayOne
    <3> QED
      BY <1>1, <3>1, <3>2
  <2>4. ASSUME NEW a \in Others, NEW paid \in Amount, DirectPoolDeposit(a, paid)
        PROVE  wallet[VA] <= wallet'[VA]
    BY <1>1, <2>4 DEF DirectPoolDeposit, Pay
  <2>5. ASSUME NEW a \in Account, WithdrawFees(a) PROVE wallet[VA] <= wallet'[VA]
    <3>1. feeReserve \in Nat /\ Pay(a, feeReserve)
      BY <2>5 DEF WithdrawFees, GmxTypeOK
    <3>2. wallet'[VA] = IF VA = a THEN wallet[VA] + feeReserve ELSE wallet[VA]
      BY <1>1, <3>1, PayOne
    <3> QED
      BY <1>1, <3>1, <3>2
  <2> QED
    BY <1>2, <2>1, <2>2, <2>3, <2>4, <2>5 DEF LiquidityStep
<1>3. ASSUME NEW k \in Key, NEW out \in Nat, NEW sizeDelta \in Nat, NEW move \in Int,
             NEW fee \in Nat, NEW a \in Account,
             DecreasePosition(k, out, sizeDelta, move, fee, a)
      PROVE  wallet[VA] <= wallet'[VA]
  <2> DEFINE n == Reduced(k, out, sizeDelta, move, fee).out
  <2>1. n \in Nat /\ Pay(a, n)
    BY <1>3, DecreaseType DEF DecreasePosition
  <2> HIDE DEF n
  <2>2. wallet'[VA] = IF VA = a THEN wallet[VA] + n ELSE wallet[VA]
    BY <1>1, <2>1, PayOne
  <2> QED
    BY <1>1, <2>1, <2>2
<1>4. CASE PositionStep(Others)
  <2>1. ASSUME NEW k \in Key, NEW paid \in Amount, NEW sizeDelta \in Amount, NEW fee \in Fee,
               Owner(k) \in Others, IncreasePosition(k, paid, sizeDelta, fee)
        PROVE  wallet[VA] <= wallet'[VA]
    BY <1>1, <2>1 DEF IncreasePosition, Pay
  <2> QED
    BY <1>1, <1>3, <1>4, <2>1 DEF PositionStep
<1>5. CASE LiquidationStep
  <2>1. ASSUME NEW k \in Key, NEW move \in Move, NEW fee \in Fee, NEW a \in Account,
               SeizePosition(k, move, fee, a)
        PROVE  wallet[VA] <= wallet'[VA]
    <3>1. wallet'[VA] = IF VA = a THEN wallet[VA] + LiqFee ELSE wallet[VA]
      BY <1>1, <2>1, PayOne DEF SeizePosition
    <3> QED
      BY <1>1, <3>1
  <2>2. ASSUME NEW k \in Key, NEW move \in Move, NEW fee \in Fee,
               DeleveragePosition(k, move, fee)
        PROVE  wallet[VA] <= wallet'[VA]
    <3>1. Owner(k) \in Account /\ position[k].size \in Nat
      BY KeyParts DEF GmxTypeOK
    <3> QED
      BY <1>3, <2>2, <3>1 DEF DeleveragePosition
  <2> QED
    BY <1>5, <2>1, <2>2 DEF LiquidationStep
<1> QED
  BY <1>2, <1>4, <1>5 DEF GmxStep

\* A call for v that leaves v out of debt is a transaction of the ledger.
LEMMA Transaction ==
  ASSUME TypeOK, TypeOK', NoVaultInDebt, NEW v \in Vault, NEW n \in Int,
         Credits(v, n), 0 <= Free(v) + n
  PROVE  LP!Transact(v) /\ NoVaultInDebt'
<1>1. /\ \A u \in Vault : Free(u) \in Int
      /\ wallet[VA] \in Nat /\ wallet'[VA] \in Nat
  BY FreeType, AccountingConstants DEF TypeOK, GmxTypeOK
<1>2. /\ wallet'[VA] = wallet[VA] + n
      /\ Free(v)' = Free(v) + n
      /\ \A u \in Vault \ {v} : Free(u)' = Free(u)
  BY DEF Credits
<1>3. Free(v)' - Free(v) = wallet'[VA] - wallet[VA]
  <2> DEFINE f == Free(v)'
             w == wallet'[VA]
  <2>1. f = Free(v) + n /\ w = wallet[VA] + n
    BY <1>2
  <2> HIDE DEF f, w
  <2>2. f - Free(v) = w - wallet[VA]
    BY <1>1, <2>1
  <2> QED
    BY <2>2 DEF f, w
<1>4. Free(v)' \in Nat
  BY <1>1, <1>2
<1>5. LP!OnlyChanges(v)
  BY <1>2 DEF LP!OnlyChanges
<1>6. LP!Transact(v)
  BY <1>1, <1>3, <1>4, <1>5 DEF LP!Transact
<1>7. NoVaultInDebt'
  BY <1>1, <1>2, <1>4 DEF NoVaultInDebt
<1> QED
  BY <1>6, <1>7

\* A step that leaves the vaults' capital alone and takes nothing.
LEMMA WindfallStep ==
  ASSUME TypeOK, TypeOK', NoVaultInDebt, UNCHANGED capital, wallet[VA] <= wallet'[VA]
  PROVE  LP!Windfall /\ NoVaultInDebt'
<1>1. wallet'[VA] \in Nat
  BY AccountingConstants DEF TypeOK, GmxTypeOK
<1> QED
  BY <1>1 DEF LP!Windfall, NoVaultInDebt, Free, capital

\* Every call of a vault is a transaction of that vault.
LEMMA TradeLedger ==
  ASSUME TypeOK, TypeOK', NoVaultInDebt, TradeStep
  PROVE  LP!Next /\ NoVaultInDebt'
<1> USE AccountingConstants, GmxConstants
<1>1. \A v \in Vault : Free(v) \in Int /\ 0 <= Free(v)
  BY FreeType DEF TypeOK, NoVaultInDebt
<1>2. ASSUME NEW a \in Others, NEW v \in Vault, NEW amount \in Amount,
             DepositCapital(a, v, amount)
      PROVE  \E u \in Vault : LP!Transact(u) /\ NoVaultInDebt'
  <2>1. amount \in Nat /\ Credits(v, amount)
    BY <1>2, DepositCredits
  <2> QED
    BY <1>1, <2>1, Transaction
<1>3. ASSUME NEW v \in Vault, NEW amount \in Amount, WithdrawCapital(v, amount)
      PROVE  \E u \in Vault : LP!Transact(u) /\ NoVaultInDebt'
  <2>1. amount \in Nat /\ Credits(v, -amount) /\ amount <= Available(v)
    BY <1>3, WithdrawCredits
  <2>2. -amount \in Int /\ 0 <= Free(v) + (-amount)
    BY <1>1, <2>1 DEF Available
  <2> QED
    BY <2>1, <2>2, Transaction
<1>4. ASSUME NEW k \in PosKey, NEW size \in Size, NEW collateral \in Amount, NEW fee \in Fee,
             OpenPosition(k, size, collateral, fee)
      PROVE  \E u \in Vault : LP!Transact(u) /\ NoVaultInDebt'
  <2>1. /\ VaultOf(k) \in Vault /\ collateral \in Nat
        /\ Credits(VaultOf(k), -collateral) /\ collateral <= Available(VaultOf(k))
    BY <1>4, OpenCredits, PosKeyParts
  <2>2. -collateral \in Int /\ 0 <= Free(VaultOf(k)) + (-collateral)
    BY <1>1, <2>1 DEF Available
  <2> QED
    BY <2>1, <2>2, Transaction
<1>5. ASSUME NEW k \in PosKey, NEW size \in Size, NEW out \in CollateralDelta,
             NEW move \in Move, NEW fee \in Fee, ClosePosition(k, size, out, move, fee)
      PROVE  \E u \in Vault : LP!Transact(u) /\ NoVaultInDebt'
  <2>1. /\ VaultOf(k) \in Vault
        /\ \E n \in Nat : Credits(VaultOf(k), n)
    BY <1>5, CloseCredits, PosKeyParts
  <2>2. PICK n \in Nat : Credits(VaultOf(k), n)
    BY <2>1
  <2> QED
    BY <1>1, <2>1, <2>2, Transaction
<1> QED
  BY <1>2, <1>3, <1>4, <1>5 DEF TradeStep, LP!Next

\* A registration writes off what an earlier one left.
LEMMA RegistryLedger ==
  ASSUME TypeOK, TypeOK', NoVaultInDebt, RegistryStep
  PROVE  LP!Next /\ NoVaultInDebt'
<1>1. ASSUME NEW v \in Vault, RegisterVault(v) PROVE LP!WriteOff(v) /\ NoVaultInDebt'
  <2>1. /\ \A u \in Vault : Free(u) \in Int /\ 0 <= Free(u)
        /\ wallet' = wallet
    BY <1>1, FreeType DEF TypeOK, NoVaultInDebt, RegisterVault, gmxVars
  <2>2. \A u \in Vault : Free(u)' = IF u = v THEN 0 ELSE Free(u)
    BY <1>1 DEF RegisterVault, Free, TypeOK, CapitalTypeOK
  <2>3. LP!OnlyChanges(v)
    BY <2>2 DEF LP!OnlyChanges
  <2>4. LP!WriteOff(v)
    BY <2>1, <2>2, <2>3 DEF LP!WriteOff
  <2>5. NoVaultInDebt'
    BY <2>1, <2>2 DEF NoVaultInDebt
  <2> QED
    BY <2>4, <2>5
<1>2. ASSUME NEW v \in Vault, DeregisterVault(v) PROVE LP!Windfall /\ NoVaultInDebt'
  <2>1. UNCHANGED capital /\ wallet'[VA] = wallet[VA] /\ wallet[VA] \in Nat
    BY <1>2, AccountingConstants DEF DeregisterVault, gmxVars, TypeOK, GmxTypeOK
  <2> QED
    BY <2>1, WindfallStep
<1> QED
  BY <1>1, <1>2 DEF RegistryStep, LP!Next

\* The setters do not touch the ledger.
LEMMA SettingLedger ==
  ASSUME TypeOK, TypeOK', NoVaultInDebt, SettingStep
  PROVE  LP!Next /\ NoVaultInDebt'
<1>1. UNCHANGED <<gmxVars, capital>>
  BY DEF SettingStep, MapAssetToken, SetMaxOpenInterest, SetMaxPositionSize, SetPaused
<1>2. wallet'[VA] = wallet[VA] /\ wallet[VA] \in Nat
  BY <1>1, AccountingConstants DEF gmxVars, TypeOK, GmxTypeOK
<1> QED
  BY <1>1, <1>2, WindfallStep DEF LP!Next

\* Seeding takes from its funder and an unseeding pays the contract.
LEMMA SeedLedger ==
  ASSUME TypeOK, TypeOK', NoVaultInDebt, SeedStep
  PROVE  LP!Next /\ NoVaultInDebt'
<1> USE AccountingConstants, GmxConstants
<1>1. UNCHANGED capital /\ (UNCHANGED gmxVars \/ GmxStep(Others) \/ LiquidityStep(Others))
  BY DEF SeedStep, SeedPool, UnseedPool, ResetSeedCap, SetSeedCapPerEpoch,
         SetUnseedCapPerEpoch, SetMinPoolFloor, SeedingOnly, LiquidityStep
<1>2. wallet[VA] \in Nat
  BY DEF TypeOK, GmxTypeOK
<1>3. wallet[VA] <= wallet'[VA]
  BY <1>1, <1>2, PurseKept DEF gmxVars, GmxStep, TypeOK
<1> QED
  BY <1>1, <1>3, WindfallStep DEF LP!Next

\* Every step of the contract and of its market is a step of the ledger.
LEMMA NextLedger ==
  ASSUME TypeOK, NoVaultInDebt, [Next]_vars
  PROVE  LP!Next /\ NoVaultInDebt'
<1>1. TypeOK'
  BY NextType
<1>2. wallet[VA] \in Nat
  BY AccountingConstants DEF TypeOK, GmxTypeOK
<1>3. CASE MarketStep
  <2>1. UNCHANGED capital /\ wallet[VA] <= wallet'[VA]
    BY <1>3, PurseKept DEF MarketStep, vaVars, TypeOK
  <2> QED
    BY <1>1, <2>1, WindfallStep DEF LP!Next
<1>4. CASE UNCHANGED vars
  <2>1. UNCHANGED capital /\ wallet[VA] <= wallet'[VA]
    BY <1>2, <1>4 DEF vars, vaVars, gmxVars
  <2> QED
    BY <1>1, <2>1, WindfallStep DEF LP!Next
<1> QED
  BY <1>1, <1>3, <1>4, TradeLedger, RegistryLedger, SettingLedger, SeedLedger DEF Next

\* Nothing is owed and nothing is open at first.
LEMMA AccountingInit == Init => TypeOK /\ NoVaultInDebt
<1> SUFFICES ASSUME Init PROVE TypeOK /\ NoVaultInDebt
  OBVIOUS
<1> USE AccountingConstants, GmxConstants
<1>1. GmxTypeOK
  BY InitTotals DEF Init, GmxInv
<1>2. CapitalTypeOK
  BY DEF Init, ZeroEach, CapitalTypeOK
<1>3. BookTypeOK
  BY DEF Init, ZeroEach, Untracked, BookTypeOK
<1>4. SettingsTypeOK
  BY DEF Init, ZeroEach, SettingsTypeOK
<1>5. \A v \in Vault : Free(v) = 0
  BY DEF Init, ZeroEach, Free
<1> QED
  BY <1>1, <1>2, <1>3, <1>4, <1>5 DEF TypeOK, NoVaultInDebt

\* The ledger starts empty.
LEMMA InitLedger == Init => LP!Init
BY AccountingConstants DEF LP!Init, Init, GmxInit, ZeroEach, Free

-----------------------------------------------------------------------------
(* The account of one vault.                                               *)

\* What a call made for one vault is on that vault's own account: a step of
\* its account, and none of any other.
MovesOnly(v) == \A u \in Vault : IF u = v THEN Seen(u)!AccountNext ELSE UNCHANGED Seen(u)!account

\* A deposit pays in.
LEMMA DepositSeen ==
  ASSUME TypeOK, NEW a \in Others, NEW v \in Vault, NEW amount \in Nat,
         DepositCapital(a, v, amount)
  PROVE  MovesOnly(v)
<1>1. /\ depositedCapital[v] \in Nat /\ amount \in Nat \ {0}
      /\ depositedCapital' = [depositedCapital EXCEPT ![v] = @ + amount]
      /\ depositedCapital \in [Vault -> Nat]
      /\ UNCHANGED <<realisedPnL, collateralLocked>>
  BY DEF DepositCapital, TypeOK, CapitalTypeOK
<1>2. depositedCapital'[v] - depositedCapital[v] = amount
  BY <1>1
<1>3. Seen(v)!PayIn(depositedCapital'[v] - depositedCapital[v])
  BY <1>1, <1>2 DEF Seen!PayIn
<1>4. Seen(v)!AccountNext
  BY <1>3 DEF Seen!AccountNext
<1> QED
  BY <1>1, <1>4 DEF MovesOnly, Seen!account

\* A withdrawal takes out at most what is available, principal first.
LEMMA WithdrawSeen ==
  ASSUME TypeOK, NEW v \in Vault, NEW amount \in Nat, WithdrawCapital(v, amount)
  PROVE  MovesOnly(v)
<1> DEFINE d == depositedCapital'[v]
           r == realisedPnL'[v]
           amt == (depositedCapital[v] + realisedPnL[v]) - (d + r)
<1>1. /\ depositedCapital \in [Vault -> Nat] /\ realisedPnL \in [Vault -> Int]
      /\ collateralLocked[v] \in Nat
      /\ Principal(v, amount) \in Nat
      /\ depositedCapital' = [depositedCapital EXCEPT ![v] = @ - Principal(v, amount)]
      /\ realisedPnL' = [realisedPnL EXCEPT ![v] = @ - (amount - Principal(v, amount))]
      /\ amount <= Available(v)
      /\ UNCHANGED collateralLocked
  BY PrincipalType DEF WithdrawCapital, TypeOK, CapitalTypeOK
<1>2. /\ d = depositedCapital[v] - Principal(v, amount)
      /\ r = realisedPnL[v] - (amount - Principal(v, amount))
  BY <1>1
<1> HIDE DEF d, r
<1>3. amt = amount
  BY <1>1, <1>2
<1>4. /\ d = IF amount > depositedCapital[v] THEN 0 ELSE depositedCapital[v] - amount
      /\ r = IF amount > depositedCapital[v]
             THEN realisedPnL[v] - (amount - depositedCapital[v]) ELSE realisedPnL[v]
  BY <1>1, <1>2 DEF Principal
<1>5. Seen(v)!TakeOut(amount)
  BY <1>1, <1>4 DEF Seen!TakeOut, Seen!AvailableCapital, Seen!FreeCapital, Available, Free, d, r
<1>6. Seen(v)!TakeOut(amt)
  BY <1>3, <1>5
<1>7. Seen(v)!AccountNext
  BY <1>6 DEF Seen!AccountNext, d, r
<1> QED
  BY <1>1, <1>7 DEF MovesOnly, Seen!account

\* An open locks at most what is available.
LEMMA OpenSeen ==
  ASSUME TypeOK, NEW k \in PosKey, NEW size \in Nat, NEW collateral \in Nat,
         NEW fee \in Nat, OpenPosition(k, size, collateral, fee)
  PROVE  MovesOnly(VaultOf(k))
<1> DEFINE v == VaultOf(k)
<1>1. /\ v \in Vault /\ collateralLocked \in [Vault -> Nat]
      /\ collateralLocked' = [collateralLocked EXCEPT ![v] = @ + collateral]
      /\ collateral <= Available(v)
      /\ UNCHANGED <<depositedCapital, realisedPnL>>
  BY PosKeyParts DEF OpenPosition, TypeOK, CapitalTypeOK
<1> HIDE DEF v
<1>2. collateralLocked'[v] = collateralLocked[v] + collateral /\ collateralLocked[v] \in Nat
  BY <1>1
<1>3. collateralLocked'[v] - collateralLocked[v] = collateral
  BY <1>2
<1>4. Seen(v)!Lock(collateralLocked'[v] - collateralLocked[v])
  BY <1>1, <1>2, <1>3 DEF Seen!Lock, Seen!AvailableCapital, Seen!FreeCapital, Available, Free
<1>5. Seen(v)!AccountNext
  BY <1>4 DEF Seen!AccountNext
<1>6. MovesOnly(v)
  BY <1>1, <1>5 DEF MovesOnly, Seen!account
<1> QED
  BY <1>6 DEF v

\* A close settles its share of the vault's own collateral against what GMX paid.
LEMMA CloseSeen ==
  ASSUME TypeOK, NEW k \in PosKey, NEW sizeDelta \in Nat, NEW out \in Nat,
         NEW move \in Int, NEW fee \in Nat, ClosePosition(k, sizeDelta, out, move, fee)
  PROVE  MovesOnly(VaultOf(k))
<1> DEFINE v == VaultOf(k)
           atRisk == CollateralAtRisk(k, sizeDelta)
           returned == Reduced(Leg(k), out, sizeDelta, move, fee).out
           l == collateralLocked'[v]
           r == realisedPnL'[v]
<1>1. Leg(k) \in Key /\ VA \in Account
  BY LegInKey, AccountingConstants DEF ClosePosition, TypeOK, SettingsTypeOK
<1>2. returned \in Nat
  BY <1>1, DecreaseType DEF ClosePosition, TypeOK
<1>3. atRisk \in Nat
  BY AtRiskType DEF ClosePosition
<1>4. /\ v \in Vault
      /\ collateralLocked \in [Vault -> Nat] /\ realisedPnL \in [Vault -> Int]
      /\ atRisk <= collateralLocked[v]
      /\ collateralLocked' = [collateralLocked EXCEPT ![v] = @ - atRisk]
      /\ realisedPnL' = [realisedPnL EXCEPT ![v] = @ + (returned - atRisk)]
      /\ depositedCapital' = depositedCapital
  BY PosKeyParts DEF ClosePosition, Pnl, TypeOK, CapitalTypeOK
<1> HIDE DEF v, atRisk, returned
<1>5. l = collateralLocked[v] - atRisk /\ r = realisedPnL[v] + (returned - atRisk)
  BY <1>4
<1> HIDE DEF l, r
<1>6. collateralLocked[v] - l = atRisk /\ (r - l) - (realisedPnL[v] - collateralLocked[v]) = returned
  BY <1>2, <1>3, <1>4, <1>5
<1>7. l = collateralLocked[v] - atRisk /\ r = realisedPnL[v] + returned - atRisk
  BY <1>2, <1>3, <1>4, <1>5
<1>8. Seen(v)!Settle(atRisk, returned)
  BY <1>2, <1>3, <1>4, <1>7 DEF Seen!Settle, l, r
<1>9. Seen(v)!Settle(collateralLocked[v] - l, (r - l) - (realisedPnL[v] - collateralLocked[v]))
  BY <1>6, <1>8
<1>10. Seen(v)!AccountNext
  BY <1>9 DEF Seen!AccountNext, l, r
<1>11. MovesOnly(v)
  BY <1>4, <1>10 DEF MovesOnly, Seen!account
<1> QED
  BY <1>11 DEF v

\* Every step is a step of at most one account.
LEMMA NextSeen ==
  ASSUME TypeOK, Next
  PROVE  UNCHANGED capital \/ \E v \in Vault : MovesOnly(v)
<1> USE AccountingConstants, GmxConstants
<1>1. CASE RegistryStep
  <2>1. ASSUME NEW v \in Vault, RegisterVault(v) PROVE MovesOnly(v)
    BY <2>1 DEF RegisterVault, TypeOK, CapitalTypeOK, MovesOnly, Seen!AccountNext, Seen!Reset,
       Seen!account
  <2>2. ASSUME NEW v \in Vault, DeregisterVault(v) PROVE UNCHANGED capital
    BY <2>2 DEF DeregisterVault
  <2> QED
    BY <1>1, <2>1, <2>2 DEF RegistryStep
<1>2. CASE TradeStep
  BY <1>2, DepositSeen, WithdrawSeen, OpenSeen, CloseSeen, PosKeyParts DEF TradeStep
<1>3. CASE SettingStep
  BY <1>3 DEF SettingStep, MapAssetToken, SetMaxOpenInterest, SetMaxPositionSize, SetPaused
<1>4. CASE SeedStep
  BY <1>4 DEF SeedStep, SeedPool, UnseedPool, ResetSeedCap, SetSeedCapPerEpoch,
         SetUnseedCapPerEpoch, SetMinPoolFloor, SeedingOnly
<1>5. CASE MarketStep
  BY <1>5 DEF MarketStep, vaVars
<1> QED
  BY <1>1, <1>2, <1>3, <1>4, <1>5 DEF Next

-----------------------------------------------------------------------------
(* The books of a vault against its tracked positions.                     *)

\* A vault has finitely many position keys, so their sizes can be summed.
LEMMA KeysOfFinite ==
  ASSUME NEW v \in Vault
  PROVE  IsFiniteSet(KeysOf(v))
<1> DEFINE f == [x \in Asset \X Side |-> <<v, x[1], x[2]>>]
<1>1. IsFiniteSet(Side)
  <2>1. IsFiniteSet({"long"}) /\ IsFiniteSet({"short"})
    BY FS_Singleton
  <2>2. Side = {"long"} \cup {"short"}
    BY DEF Side
  <2> QED
    BY <2>1, <2>2, FS_Union
<1>2. IsFiniteSet(Asset \X Side)
  BY <1>1, AccountingConstants, FS_Product
<1>3. f \in Surjection(Asset \X Side, KeysOf(v))
  <2>1. f \in [Asset \X Side -> KeysOf(v)]
    BY DEF KeysOf, PosKey, VaultOf
  <2>2. ASSUME NEW k \in KeysOf(v) PROVE \E x \in Asset \X Side : f[x] = k
    <3>1. PICK u \in Vault, a \in Asset, s \in Side : k = <<u, a, s>>
      BY DEF KeysOf, PosKey
    <3>2. u = v
      BY <3>1 DEF KeysOf, VaultOf
    <3>3. <<a, s>> \in Asset \X Side /\ f[<<a, s>>] = k
      BY <3>1, <3>2
    <3> QED
      BY <3>3
  <2> QED
    BY <2>1, <2>2 DEF Surjection
<1> QED
  BY <1>2, <1>3, FS_Surjection

SizeOf == [k \in PosKey |-> tracking[k].size]
CollateralOf == [k \in PosKey |-> tracking[k].collateralUsdc]

\* The size and the collateral of the positions tracked for a vault.
TrackedSize(v) == SumFunctionOnSet(SizeOf, KeysOf(v))
TrackedCollateral(v) == SumFunctionOnSet(CollateralOf, KeysOf(v))

\* Both are amounts, and no position is larger than its vault's total.
LEMMA TrackedType ==
  ASSUME BookTypeOK, NEW v \in Vault
  PROVE  /\ TrackedSize(v) \in Nat /\ TrackedCollateral(v) \in Nat
         /\ \A k \in KeysOf(v) : tracking[k].size <= TrackedSize(v)
<1>1. \A k \in KeysOf(v) : /\ SizeOf[k] = tracking[k].size /\ SizeOf[k] \in Nat
                           /\ CollateralOf[k] \in Nat
  BY DEF BookTypeOK, KeysOf, SizeOf, CollateralOf
<1>2. TrackedSize(v) \in Nat /\ \A k \in KeysOf(v) : SizeOf[k] <= TrackedSize(v)
  BY <1>1, KeysOfFinite, SumNat DEF TrackedSize
<1>3. TrackedCollateral(v) \in Nat
  BY <1>1, KeysOfFinite, SumNat DEF TrackedCollateral
<1> QED
  BY <1>1, <1>2, <1>3

\* Replacing one tracked position moves its own vault's totals alone.
LEMMA TrackedMove ==
  ASSUME BookTypeOK, NEW k \in PosKey,
         NEW q \in [size : Nat, collateralUsdc : Nat, exists : BOOLEAN],
         tracking' = [tracking EXCEPT ![k] = q], NEW v \in Vault
  PROVE  /\ TrackedSize(v)' = TrackedSize(v)
              + (IF v = VaultOf(k) THEN q.size - tracking[k].size ELSE 0)
         /\ TrackedCollateral(v)' = TrackedCollateral(v)
              + (IF v = VaultOf(k) THEN q.collateralUsdc - tracking[k].collateralUsdc ELSE 0)
<1> DEFINE S == KeysOf(v)
           ns == SizeOf'
           nc == CollateralOf'
<1>1. /\ IsFiniteSet(S) /\ TrackedSize(v) \in Nat /\ TrackedCollateral(v) \in Nat
      /\ S' = S /\ (k \in S <=> v = VaultOf(k))
  BY KeysOfFinite, TrackedType DEF KeysOf
<1>2. \A x \in PosKey : /\ ns[x] = IF x = k THEN q.size ELSE tracking[x].size
                        /\ nc[x] = IF x = k THEN q.collateralUsdc ELSE tracking[x].collateralUsdc
  BY DEF BookTypeOK, SizeOf, CollateralOf
<1>3. \A x \in PosKey : /\ SizeOf[x] = tracking[x].size
                        /\ CollateralOf[x] = tracking[x].collateralUsdc
                        /\ SizeOf[x] \in Nat /\ CollateralOf[x] \in Nat
  BY DEF BookTypeOK, SizeOf, CollateralOf
<1>4. S \subseteq PosKey
  BY DEF KeysOf
<1>5. TrackedSize(v)' = SumFunctionOnSet(ns, S) /\ TrackedCollateral(v)' = SumFunctionOnSet(nc, S)
  BY <1>1 DEF TrackedSize, TrackedCollateral
<1> HIDE DEF S, ns, nc
<1>6. CASE v = VaultOf(k)
  <2>1. k \in S
    BY <1>1, <1>6
  <2>2. SumFunctionOnSet(ns, S) = SumFunctionOnSet(SizeOf, S) + ns[k] - SizeOf[k]
    <3>1. \A x \in S : SizeOf[x] \in Int /\ ns[x] \in Int
      BY <1>2, <1>3, <1>4
    <3>2. \A x \in S \ {k} : ns[x] = SizeOf[x]
      BY <1>2, <1>3, <1>4
    <3> QED
      BY <1>1, <2>1, <3>1, <3>2, SumChange
  <2>3. SumFunctionOnSet(nc, S) = SumFunctionOnSet(CollateralOf, S) + nc[k] - CollateralOf[k]
    <3>1. \A x \in S : CollateralOf[x] \in Int /\ nc[x] \in Int
      BY <1>2, <1>3, <1>4
    <3>2. \A x \in S \ {k} : nc[x] = CollateralOf[x]
      BY <1>2, <1>3, <1>4
    <3> QED
      BY <1>1, <2>1, <3>1, <3>2, SumChange
  <2>4. /\ ns[k] = q.size /\ nc[k] = q.collateralUsdc
        /\ SizeOf[k] = tracking[k].size /\ CollateralOf[k] = tracking[k].collateralUsdc
        /\ SizeOf[k] \in Nat /\ CollateralOf[k] \in Nat /\ q.size \in Nat /\ q.collateralUsdc \in Nat
    BY <1>2, <1>3
  <2>5. /\ TrackedSize(v)' = TrackedSize(v) + ns[k] - SizeOf[k]
        /\ TrackedCollateral(v)' = TrackedCollateral(v) + nc[k] - CollateralOf[k]
    BY <1>5, <2>2, <2>3 DEF S, TrackedSize, TrackedCollateral
  <2> QED
    BY <1>1, <1>6, <2>4, <2>5
<1>7. CASE v # VaultOf(k)
  <2>1. k \notin S
    BY <1>1, <1>7
  <2>2. \A x \in S : /\ ns[x] = SizeOf[x] /\ nc[x] = CollateralOf[x]
                     /\ SizeOf[x] \in Int /\ CollateralOf[x] \in Int
    BY <1>2, <1>3, <1>4, <2>1
  <2>3. /\ SumFunctionOnSet(ns, S) = SumFunctionOnSet(SizeOf, S)
        /\ SumFunctionOnSet(nc, S) = SumFunctionOnSet(CollateralOf, S)
    BY <1>1, <2>2, SumSame
  <2>4. TrackedSize(v)' = TrackedSize(v) /\ TrackedCollateral(v)' = TrackedCollateral(v)
    BY <1>5, <2>3 DEF S, TrackedSize, TrackedCollateral
  <2> QED
    BY <1>1, <1>7, <2>4
<1> QED
  BY <1>6, <1>7

\* Every listed key has its place, is open and belongs to its vault.
LEMMA KeyPushed ==
  ASSUME BookTypeOK, KeyListExact, NEW k \in PosKey, ~ tracking[k].exists, PushKey(k),
         NEW q \in [size : Nat, collateralUsdc : Nat, exists : {TRUE}],
         tracking' = [tracking EXCEPT ![k] = q]
  PROVE  /\ KeyListExact'
         /\ \A u \in Vault : Len(openKeys'[u])
                              = Len(openKeys[u]) + (IF u = VaultOf(k) THEN 1 ELSE 0)
<1> DEFINE v == VaultOf(k)
           keys == openKeys[v]
           n == Len(keys)
           new == Append(keys, k)
<1>1. v \in Vault /\ keys \in Seq(PosKey) /\ n \in Nat /\ keyIndex[k] = 0
  BY PosKeyParts DEF BookTypeOK, KeyListExact
<1>2. /\ openKeys' = [openKeys EXCEPT ![v] = new]
      /\ keyIndex' = [keyIndex EXCEPT ![k] = n + 1]
  BY DEF PushKey
<1>3. /\ Len(new) = n + 1
      /\ \A i \in 1..n : new[i] = keys[i] /\ keys[i] \in PosKey
      /\ new[n + 1] = k
  BY <1>1
<1>4. \A j \in PosKey : /\ keyIndex'[j] = IF j = k THEN n + 1 ELSE keyIndex[j]
                        /\ tracking'[j].exists = IF j = k THEN TRUE ELSE tracking[j].exists
  BY <1>2 DEF BookTypeOK
<1>5. \A u \in Vault : openKeys'[u] = IF u = v THEN new ELSE openKeys[u]
  BY <1>2 DEF BookTypeOK
<1>10. /\ n = Len(keys) /\ v = VaultOf(k) /\ keys = openKeys[v]
  OBVIOUS
<1> HIDE DEF v, keys, n, new
<1>6. ASSUME NEW u \in Vault, NEW i \in 1..Len(openKeys'[u])
      PROVE  VaultOf(openKeys'[u][i]) = u /\ keyIndex'[openKeys'[u][i]] = i
  <2>1. CASE u = v /\ i = n + 1
    <3>1. openKeys'[u][i] = k
      BY <1>3, <1>5, <2>1
    <3>2. keyIndex'[k] = n + 1 /\ VaultOf(k) = v
      BY <1>4, <1>10
    <3> QED
      BY <2>1, <3>1, <3>2
  <2>2. CASE ~ (u = v /\ i = n + 1)
    <3>1. /\ openKeys'[u][i] = openKeys[u][i] /\ i \in 1..Len(openKeys[u])
      BY <1>1, <1>3, <1>5, <1>10, <2>2
    <3>2. openKeys[u] \in Seq(PosKey)
      BY DEF BookTypeOK
    <3>3. openKeys[u][i] \in PosKey
      BY <3>1, <3>2
    <3>4. VaultOf(openKeys[u][i]) = u /\ keyIndex[openKeys[u][i]] = i
      BY <3>1 DEF KeyListExact
    <3>5. openKeys[u][i] # k
      BY <1>1, <3>1, <3>4
    <3> QED
      BY <1>4, <3>1, <3>3, <3>4, <3>5
  <2> QED
    BY <2>1, <2>2
<1>7. ASSUME NEW j \in PosKey
      PROVE  /\ tracking'[j].exists <=> keyIndex'[j] # 0
             /\ keyIndex'[j] # 0 => /\ keyIndex'[j] \in 1..Len(openKeys'[VaultOf(j)])
                                    /\ openKeys'[VaultOf(j)][keyIndex'[j]] = j
  <2>1. CASE j = k
    <3>1. keyIndex'[k] = n + 1 /\ tracking'[k].exists /\ VaultOf(k) = v
      BY <1>4, <1>10
    <3>2. openKeys'[v] = new
      BY <1>1, <1>5
    <3> QED
      BY <1>1, <1>3, <2>1, <3>1, <3>2
  <2>2. CASE j # k
    <3>1. /\ tracking[j].exists <=> keyIndex[j] # 0
          /\ keyIndex[j] # 0 => /\ keyIndex[j] \in 1..Len(openKeys[VaultOf(j)])
                                /\ openKeys[VaultOf(j)][keyIndex[j]] = j
          /\ VaultOf(j) \in Vault
      BY PosKeyParts DEF KeyListExact
    <3>2. /\ keyIndex'[j] = keyIndex[j] /\ tracking'[j].exists = tracking[j].exists
      BY <1>4, <2>2
    <3>3. CASE VaultOf(j) = v
      BY <1>1, <1>3, <1>5, <1>10, <3>1, <3>2, <3>3
    <3>4. CASE VaultOf(j) # v
      BY <1>5, <3>1, <3>2, <3>4
    <3> QED
      BY <3>3, <3>4
  <2> QED
    BY <2>1, <2>2
<1>8. KeyListExact'
  BY <1>6, <1>7 DEF KeyListExact
<1>9. ASSUME NEW u \in Vault
     PROVE  Len(openKeys'[u]) = Len(openKeys[u]) + (IF u = v THEN 1 ELSE 0)
  <2>1. Len(openKeys[u]) \in Nat
    BY DEF BookTypeOK
  <2>2. CASE u = v
    <3>1. Len(openKeys'[u]) = Len(new) /\ Len(openKeys[u]) = n
      BY <1>5, <1>10, <2>2
    <3> QED
      BY <1>1, <1>3, <2>2, <3>1
  <2>3. CASE u # v
    BY <1>5, <2>1, <2>3
  <2> QED
    BY <2>2, <2>3
<1> QED
  BY <1>8, <1>9, <1>10

\* The key that leaves is replaced by the last one, which knows its new place.
LEMMA KeyRemoved ==
  ASSUME BookTypeOK, KeyListExact, NEW k \in PosKey, tracking[k].exists, RemoveKey(k),
         tracking' = [tracking EXCEPT ![k] = Untracked]
  PROVE  /\ KeyListExact'
         /\ \A u \in Vault : Len(openKeys'[u])
                              = Len(openKeys[u]) - (IF u = VaultOf(k) THEN 1 ELSE 0)
<1> DEFINE v == VaultOf(k)
           keys == openKeys[v]
           n == Len(keys)
           idx == keyIndex[k]
           moved == keys[n]
           new == [i \in 1..(n - 1) |-> IF i = idx THEN moved ELSE keys[i]]
<1>1. v \in Vault /\ keys \in Seq(PosKey) /\ n \in Nat /\ idx \in 1..n /\ keys[idx] = k
  BY PosKeyParts DEF BookTypeOK, KeyListExact
<1>2. /\ openKeys' = [openKeys EXCEPT ![v] = new]
      /\ keyIndex' = [j \in PosKey |-> IF j = k THEN 0
                                       ELSE IF j = moved /\ idx # n THEN idx ELSE keyIndex[j]]
  BY <1>1 DEF RemoveKey
<1>3. /\ Len(new) = n - 1
      /\ \A i \in 1..(n - 1) : new[i] = IF i = idx THEN moved ELSE keys[i]
  <2>1. new \in Seq(PosKey) /\ Len(new) = n - 1
    BY <1>1
  <2> QED
    BY <2>1
<1>4. \A i \in 1..n : keys[i] \in PosKey /\ VaultOf(keys[i]) = v /\ keyIndex[keys[i]] = i
  BY <1>1 DEF KeyListExact
<1>5. \A u \in Vault : openKeys'[u] = IF u = v THEN new ELSE openKeys[u]
  BY <1>2 DEF BookTypeOK
<1>6. \A j \in PosKey : tracking'[j].exists = IF j = k THEN FALSE ELSE tracking[j].exists
  BY DEF BookTypeOK, Untracked
<1>7. \A j \in PosKey : keyIndex'[j] = IF j = k THEN 0
                                       ELSE IF j = moved /\ idx # n THEN idx ELSE keyIndex[j]
  BY <1>2
<1>8. /\ n = Len(keys) /\ v = VaultOf(k) /\ keys = openKeys[v] /\ idx = keyIndex[k]
      /\ moved = keys[n]
  OBVIOUS
<1> HIDE DEF v, keys, n, idx, moved, new
<1>9. moved \in PosKey /\ VaultOf(moved) = v /\ keyIndex[moved] = n /\ n \in 1..n
  BY <1>1, <1>4, <1>8
<1>10. ASSUME NEW u \in Vault, NEW i \in 1..Len(openKeys'[u])
       PROVE  VaultOf(openKeys'[u][i]) = u /\ keyIndex'[openKeys'[u][i]] = i
  <2>1. CASE u = v /\ i = idx
    <3>1. openKeys'[u][i] = moved /\ idx # n
      BY <1>1, <1>3, <1>5, <2>1
    <3>2. moved # k
      BY <1>8, <1>9, <3>1
    <3>3. keyIndex'[moved] = idx
      BY <1>7, <1>9, <3>1, <3>2
    <3> QED
      BY <1>9, <2>1, <3>1, <3>3
  <2>2. CASE u = v /\ i # idx
    <3>1. openKeys'[u][i] = keys[i] /\ i \in 1..n /\ i # n
      BY <1>1, <1>3, <1>5, <2>2
    <3>2. keys[i] # k /\ keys[i] # moved /\ keys[i] \in PosKey
      BY <1>4, <1>8, <1>9, <2>2, <3>1
    <3>3. keyIndex'[keys[i]] = keyIndex[keys[i]]
      BY <1>7, <3>2
    <3> QED
      BY <1>4, <2>2, <3>1, <3>3
  <2>3. CASE u # v
    <3>1. openKeys'[u] = openKeys[u] /\ openKeys[u] \in Seq(PosKey)
      BY <1>5, <2>3 DEF BookTypeOK
    <3>2. /\ openKeys[u][i] \in PosKey
          /\ VaultOf(openKeys[u][i]) = u /\ keyIndex[openKeys[u][i]] = i
      BY <3>1 DEF KeyListExact
    <3>3. openKeys[u][i] # k /\ openKeys[u][i] # moved
      BY <1>8, <1>9, <2>3, <3>2
    <3> QED
      BY <1>7, <3>1, <3>2, <3>3
  <2> QED
    BY <2>1, <2>2, <2>3
<1>11. ASSUME NEW j \in PosKey
       PROVE  /\ tracking'[j].exists <=> keyIndex'[j] # 0
              /\ keyIndex'[j] # 0 => /\ keyIndex'[j] \in 1..Len(openKeys'[VaultOf(j)])
                                     /\ openKeys'[VaultOf(j)][keyIndex'[j]] = j
  <2>1. /\ tracking[j].exists <=> keyIndex[j] # 0
        /\ keyIndex[j] # 0 => /\ keyIndex[j] \in 1..Len(openKeys[VaultOf(j)])
                              /\ openKeys[VaultOf(j)][keyIndex[j]] = j
        /\ VaultOf(j) \in Vault /\ keyIndex[j] \in Nat
    BY PosKeyParts DEF KeyListExact, BookTypeOK
  <2>2. CASE j = k
    BY <1>6, <1>7, <2>2
  <2>3. CASE j # k /\ j = moved
    <3>1. idx # n
      BY <1>1, <1>8, <2>3
    <3>2. keyIndex'[j] = idx /\ tracking'[j].exists = tracking[j].exists
      BY <1>6, <1>7, <2>3, <3>1
    <3>3. openKeys'[VaultOf(j)] = new /\ idx \in 1..(n - 1)
      BY <1>1, <1>5, <1>9, <2>3, <3>1
    <3>4. new[idx] = moved
      BY <1>3, <3>3
    <3>5. keyIndex[j] # 0 /\ idx # 0
      BY <1>1, <1>9, <2>3
    <3> QED
      BY <1>3, <2>1, <2>3, <3>2, <3>3, <3>4, <3>5
  <2>4. CASE j # k /\ j # moved
    <3>1. keyIndex'[j] = keyIndex[j] /\ tracking'[j].exists = tracking[j].exists
      BY <1>6, <1>7, <2>4
    <3>2. CASE VaultOf(j) = v
      <4>1. openKeys'[VaultOf(j)] = new /\ openKeys[VaultOf(j)] = keys
        BY <1>1, <1>5, <1>8, <3>2
      <4>2. ASSUME keyIndex[j] # 0 PROVE keyIndex[j] \in 1..(n - 1) /\ keyIndex[j] # idx
        BY <1>1, <1>8, <2>1, <2>4, <4>1, <4>2
      <4> QED
        BY <1>3, <2>1, <3>1, <4>1, <4>2
    <3>3. CASE VaultOf(j) # v
      BY <1>5, <2>1, <3>1, <3>3
    <3> QED
      BY <3>2, <3>3
  <2> QED
    BY <2>2, <2>3, <2>4
<1>12. KeyListExact'
  BY <1>10, <1>11 DEF KeyListExact
<1>13. ASSUME NEW u \in Vault
      PROVE  Len(openKeys'[u]) = Len(openKeys[u]) - (IF u = v THEN 1 ELSE 0)
  <2>1. Len(openKeys[u]) \in Nat
    BY DEF BookTypeOK
  <2>2. CASE u = v
    <3>1. Len(openKeys'[u]) = Len(new) /\ Len(openKeys[u]) = n
      BY <1>5, <1>8, <2>2
    <3> QED
      BY <1>1, <1>3, <2>2, <3>1
  <2>3. CASE u # v
    BY <1>5, <2>1, <2>3
  <2> QED
    BY <2>2, <2>3
<1> QED
  BY <1>8, <1>12, <1>13

\* What the tracked positions of a vault hold beyond its locked collateral, and
\* what its list of keys holds beyond its position count.
Slack(v) == TrackedCollateral(v) - collateralLocked[v]
Spare(v) == Len(openKeys[v]) - positionCount[v]

\* A vault that is not registered has no open interest, and a position that is
\* not open has neither size nor collateral.
Retired == \A v \in Vault : ~ registered[v] => openInterest[v] = 0
ClosedEmpty == \A k \in PosKey : tracking[k].exists \/ tracking[k] = Untracked

\* The books cover each other, whatever the sizes: with positions of size zero
\* a vault can be deregistered before it has closed, and then the struct holds
\* less than the tracked positions.
CountsCovered ==
  \A v \in Vault : /\ collateralLocked[v] <= TrackedCollateral(v)
                   /\ positionCount[v] <= Len(openKeys[v])
BooksCovered == OpenInterestExact /\ KeyListExact /\ DepositsWithinTotal /\ CountsCovered

\* They agree when every open position has a size.
OpenSized == \A k \in PosKey : tracking[k].exists => 0 < tracking[k].size
NoSlack == \A v \in Vault : Slack(v) = 0 /\ Spare(v) = 0

BookInv == BooksCovered /\ Retired /\ ClosedEmpty

\* What a trade on key k changes in the books of its vault: all of them by the
\* same amounts.
BooksMove ==
  /\ OpenInterestExact' /\ KeyListExact' /\ ClosedEmpty'
  /\ \A v \in Vault : Slack(v)' = Slack(v) /\ Spare(v)' = Spare(v)

\* Slack and spare are integers.
LEMMA SlackType ==
  ASSUME TypeOK, NEW v \in Vault
  PROVE  /\ Slack(v) \in Int /\ Spare(v) \in Int
         /\ TrackedCollateral(v) \in Nat /\ collateralLocked[v] \in Nat
         /\ Len(openKeys[v]) \in Nat /\ positionCount[v] \in Nat
BY TrackedType DEF TypeOK, BookTypeOK, CapitalTypeOK, Slack, Spare

\* Open interest that moves by what the tracked position did stays exact, and
\* locked collateral and count that do leave no new slack.
LEMMA MoveBooks ==
  ASSUME TypeOK, OpenInterestExact, NEW k \in PosKey, NEW ds \in Int, NEW dc \in Int,
         NEW dn \in Int,
         NEW q \in [size : Nat, collateralUsdc : Nat, exists : BOOLEAN],
         q.size = tracking[k].size + ds, q.collateralUsdc = tracking[k].collateralUsdc + dc,
         tracking' = [tracking EXCEPT ![k] = q],
         openInterest' = [openInterest EXCEPT ![VaultOf(k)] = @ + ds],
         collateralLocked' = [collateralLocked EXCEPT ![VaultOf(k)] = @ + dc],
         positionCount' = [positionCount EXCEPT ![VaultOf(k)] = @ + dn],
         \A u \in Vault : Len(openKeys'[u])
                          = Len(openKeys[u]) + (IF u = VaultOf(k) THEN dn ELSE 0)
  PROVE  /\ OpenInterestExact'
         /\ \A v \in Vault : Slack(v)' = Slack(v) /\ Spare(v)' = Spare(v)
<1>1. VaultOf(k) \in Vault /\ BookTypeOK
  BY PosKeyParts DEF TypeOK
<1>2. tracking[k].size \in Nat /\ tracking[k].collateralUsdc \in Nat
  BY DEF TypeOK, BookTypeOK
<1>3. ASSUME NEW v \in Vault
      PROVE  /\ openInterest'[v] = TrackedSize(v)'
             /\ Slack(v)' = Slack(v) /\ Spare(v)' = Spare(v)
  <2> DEFINE mine == v = VaultOf(k)
             ts == TrackedSize(v)'
             tc == TrackedCollateral(v)'
             len == Len(openKeys'[v])
             oi == openInterest'[v]
             cl == collateralLocked'[v]
             pc == positionCount'[v]
  <2>1. /\ TrackedSize(v) \in Nat /\ openInterest[v] = TrackedSize(v)
        /\ Slack(v) \in Int /\ Spare(v) \in Int
        /\ TrackedCollateral(v) \in Nat /\ collateralLocked[v] \in Nat
        /\ Len(openKeys[v]) \in Nat /\ positionCount[v] \in Nat
    BY <1>1, SlackType, TrackedType DEF OpenInterestExact, TrackedSize, SizeOf
  <2>2. /\ ts = TrackedSize(v) + (IF mine THEN ds ELSE 0)
        /\ tc = TrackedCollateral(v) + (IF mine THEN dc ELSE 0)
    <3>1. /\ ts = TrackedSize(v) + (IF mine THEN q.size - tracking[k].size ELSE 0)
          /\ tc = TrackedCollateral(v)
                    + (IF mine THEN q.collateralUsdc - tracking[k].collateralUsdc ELSE 0)
      BY <1>1, TrackedMove
    <3> HIDE DEF ts, tc, mine
    <3> QED
      BY <1>2, <3>1
  <2>3. /\ oi = openInterest[v] + (IF mine THEN ds ELSE 0)
        /\ cl = collateralLocked[v] + (IF mine THEN dc ELSE 0)
        /\ pc = positionCount[v] + (IF mine THEN dn ELSE 0)
    <3>1. /\ openInterest \in [Vault -> Nat] /\ collateralLocked \in [Vault -> Nat]
          /\ positionCount \in [Vault -> Nat]
      BY DEF TypeOK, BookTypeOK, CapitalTypeOK
    <3>2. CASE mine
      BY <1>1, <3>1, <3>2
    <3>3. CASE ~ mine
      BY <1>1, <3>1, <3>3
    <3> QED
      BY <3>2, <3>3
  <2>4. len = Len(openKeys[v]) + (IF mine THEN dn ELSE 0)
    OBVIOUS
  <2>5. Slack(v)' = tc - cl /\ Spare(v)' = len - pc
    BY DEF Slack, Spare
  <2> HIDE DEF ts, tc, len, oi, cl, pc, mine
  <2>6. oi = ts
    BY <2>1, <2>2, <2>3
  <2>7. tc - cl = TrackedCollateral(v) - collateralLocked[v]
    <3>1. CASE mine
      <4>1. tc = TrackedCollateral(v) + dc /\ cl = collateralLocked[v] + dc
        BY <2>2, <2>3, <3>1
      <4> QED
        BY <2>1, <4>1
    <3>2. CASE ~ mine
      BY <2>1, <2>2, <2>3, <3>2
    <3> QED
      BY <3>1, <3>2
  <2>8. len - pc = Len(openKeys[v]) - positionCount[v]
    <3>1. CASE mine
      <4>1. len = Len(openKeys[v]) + dn /\ pc = positionCount[v] + dn
        BY <2>3, <2>4, <3>1
      <4> QED
        BY <2>1, <4>1
    <3>2. CASE ~ mine
      BY <2>1, <2>3, <2>4, <3>2
    <3> QED
      BY <3>1, <3>2
  <2> QED
    BY <2>5, <2>6, <2>7, <2>8 DEF Slack, Spare, oi, ts
<1>4. OpenInterestExact'
  BY <1>3 DEF OpenInterestExact, TrackedSize, SizeOf, KeysOf
<1> QED
  BY <1>3, <1>4

\* An open adds its size, its collateral and maybe its key to all books alike.
LEMMA OpenBooks ==
  ASSUME TypeOK, BookInv, NEW k \in PosKey, NEW size \in Nat, NEW collateral \in Nat,
         NEW fee \in Nat, OpenPosition(k, size, collateral, fee)
  PROVE  BooksMove /\ (OpenSized /\ 0 < size => OpenSized')
<1> DEFINE v == VaultOf(k)
           q == [size |-> tracking[k].size + size,
                 collateralUsdc |-> tracking[k].collateralUsdc + collateral, exists |-> TRUE]
           dn == IF tracking[k].exists THEN 0 ELSE 1
<1>1. /\ tracking[k].size \in Nat /\ tracking[k].collateralUsdc \in Nat
      /\ tracking[k].exists \in BOOLEAN
      /\ BookTypeOK /\ v \in Vault
  BY PosKeyParts DEF TypeOK, BookTypeOK
<1>2. /\ tracking' = [tracking EXCEPT ![k] = q]
      /\ openInterest' = [openInterest EXCEPT ![v] = @ + size]
      /\ collateralLocked' = [collateralLocked EXCEPT ![v] = @ + collateral]
  BY DEF OpenPosition
<1>3. q \in [size : Nat, collateralUsdc : Nat, exists : {TRUE}]
  BY <1>1
<1>4. positionCount' = [positionCount EXCEPT ![v] = @ + dn]
  <2>1. CASE tracking[k].exists
    <3>1. positionCount' = positionCount /\ positionCount \in [Vault -> Nat]
      BY <2>1 DEF OpenPosition, TypeOK, BookTypeOK
    <3>2. positionCount[v] + 0 = positionCount[v]
      BY <1>1, <3>1
    <3> QED
      BY <1>1, <2>1, <3>1, <3>2
  <2>2. CASE ~ tracking[k].exists
    BY <2>2 DEF OpenPosition
  <2> QED
    BY <2>1, <2>2
<1>5. /\ KeyListExact'
      /\ \A u \in Vault : Len(openKeys'[u]) = Len(openKeys[u]) + (IF u = v THEN dn ELSE 0)
  <2>1. CASE tracking[k].exists
    <3>1. UNCHANGED <<openKeys, keyIndex>>
      BY <2>1 DEF OpenPosition
    <3>2. \A j \in PosKey : tracking'[j].exists = tracking[j].exists
      BY <1>2, <2>1 DEF TypeOK, BookTypeOK
    <3>3. KeyListExact'
      BY <3>1, <3>2 DEF KeyListExact, BookInv, BooksCovered
    <3>4. \A u \in Vault : Len(openKeys[u]) \in Nat
      BY <1>1 DEF BookTypeOK
    <3> QED
      BY <2>1, <3>1, <3>3, <3>4
  <2>2. CASE ~ tracking[k].exists
    <3>1. PushKey(k)
      BY <2>2 DEF OpenPosition
    <3>2. KeyListExact
      BY DEF BookInv, BooksCovered
    <3> HIDE DEF q
    <3> QED
      BY <1>1, <1>2, <1>3, <2>2, <3>1, <3>2, KeyPushed
  <2> QED
    BY <2>1, <2>2
<1>6. /\ OpenInterestExact'
      /\ \A u \in Vault : Slack(u)' = Slack(u) /\ Spare(u)' = Spare(u)
  <2>1. /\ q.size = tracking[k].size + size /\ q.collateralUsdc = tracking[k].collateralUsdc + collateral
        /\ q \in [size : Nat, collateralUsdc : Nat, exists : BOOLEAN]
        /\ size \in Int /\ collateral \in Int /\ dn \in Int /\ OpenInterestExact
    BY <1>1, <1>3 DEF BookInv, BooksCovered
  <2> HIDE DEF q, dn
  <2> QED
    BY <1>2, <1>4, <1>5, <2>1, MoveBooks, Zenon DEF v
<1>7. \A j \in PosKey : tracking'[j] = IF j = k THEN q ELSE tracking[j]
  BY <1>2 DEF TypeOK, BookTypeOK
<1>8. ClosedEmpty'
  BY <1>7 DEF ClosedEmpty, BookInv
<1>9. OpenSized /\ 0 < size => OpenSized'
  BY <1>1, <1>7 DEF OpenSized
<1> QED
  BY <1>5, <1>6, <1>8, <1>9 DEF BooksMove

\* A close takes its size, its share of the collateral and maybe its key off all
\* books alike.
LEMMA CloseBooks ==
  ASSUME TypeOK, BookInv, NEW k \in PosKey, NEW sizeDelta \in Nat, NEW out \in Nat,
         NEW move \in Int, NEW fee \in Nat, ClosePosition(k, sizeDelta, out, move, fee)
  PROVE  BooksMove /\ (OpenSized => OpenSized')
<1> DEFINE v == VaultOf(k)
           atRisk == CollateralAtRisk(k, sizeDelta)
           part == [size |-> tracking[k].size - sizeDelta,
                    collateralUsdc |-> tracking[k].collateralUsdc - atRisk, exists |-> TRUE]
           full == sizeDelta = tracking[k].size
           q == IF full THEN Untracked ELSE part
           ds == -sizeDelta
           dc == -atRisk
           dn == IF full THEN -1 ELSE 0
<1>1. /\ tracking[k].size \in Nat /\ tracking[k].collateralUsdc \in Nat
      /\ BookTypeOK /\ v \in Vault
      /\ tracking[k].exists /\ sizeDelta <= tracking[k].size
      /\ atRisk \in Nat /\ atRisk <= tracking[k].collateralUsdc
      /\ OpenInterestExact /\ KeyListExact
  BY PosKeyParts, AtRiskType DEF ClosePosition, TypeOK, BookTypeOK, BookInv, BooksCovered
<1>2. full => atRisk = tracking[k].collateralUsdc
  BY DEF CollateralAtRisk
<1>3. /\ tracking' = [tracking EXCEPT ![k] = q]
      /\ openInterest' = [openInterest EXCEPT ![v] = @ - sizeDelta]
      /\ collateralLocked' = [collateralLocked EXCEPT ![v] = @ - atRisk]
      /\ IF full THEN RemoveKey(k) /\ positionCount' = [positionCount EXCEPT ![v] = @ - 1]
         ELSE UNCHANGED <<openKeys, keyIndex, positionCount>>
  BY DEF ClosePosition
<1>4. /\ part \in [size : Nat, collateralUsdc : Nat, exists : BOOLEAN]
      /\ Untracked \in [size : Nat, collateralUsdc : Nat, exists : BOOLEAN]
      /\ Untracked.size = 0 /\ Untracked.collateralUsdc = 0 /\ ~ Untracked.exists
      /\ part.size = tracking[k].size - sizeDelta
      /\ part.collateralUsdc = tracking[k].collateralUsdc - atRisk /\ part.exists
  <2>1. tracking[k].size - sizeDelta \in Nat /\ tracking[k].collateralUsdc - atRisk \in Nat
    BY <1>1
  <2> HIDE DEF atRisk
  <2> QED
    BY <2>1 DEF Untracked
<1>5. /\ openInterest \in [Vault -> Nat] /\ collateralLocked \in [Vault -> Nat]
      /\ positionCount \in [Vault -> Nat]
      /\ \A u \in Vault : Len(openKeys[u]) \in Nat
  BY DEF TypeOK, BookTypeOK, CapitalTypeOK
<1> HIDE DEF v, atRisk, part, full, q
<1>6. \A j \in PosKey : tracking'[j] = IF j = k THEN q ELSE tracking[j]
  BY <1>1, <1>3 DEF BookTypeOK
<1>7. /\ q \in [size : Nat, collateralUsdc : Nat, exists : BOOLEAN]
      /\ q.size = tracking[k].size + ds /\ q.collateralUsdc = tracking[k].collateralUsdc + dc
      /\ ds \in Int /\ dc \in Int /\ dn \in Int
  <2>1. CASE full
    BY <1>1, <1>2, <1>4, <2>1 DEF q, full
  <2>2. CASE ~ full
    BY <1>1, <1>4, <2>2 DEF q
  <2> QED
    BY <2>1, <2>2
<1>8. /\ openInterest' = [openInterest EXCEPT ![v] = @ + ds]
      /\ collateralLocked' = [collateralLocked EXCEPT ![v] = @ + dc]
  <2>1. openInterest[v] - sizeDelta = openInterest[v] + ds
    BY <1>1, <1>5
  <2>2. collateralLocked[v] - atRisk = collateralLocked[v] + dc
    BY <1>1, <1>5
  <2> HIDE DEF ds, dc
  <2> QED
    BY <1>3, <2>1, <2>2
<1>9. positionCount' = [positionCount EXCEPT ![v] = @ + dn]
  <2>1. CASE full
    <3>1. positionCount[v] - 1 = positionCount[v] + dn
      BY <1>1, <1>5, <2>1
    <3> QED
      BY <1>3, <2>1, <3>1
  <2>2. CASE ~ full
    <3>1. positionCount[v] = positionCount[v] + dn
      BY <1>1, <1>5, <2>2
    <3> QED
      BY <1>3, <1>5, <2>2, <3>1
  <2> QED
    BY <2>1, <2>2
<1>10. /\ KeyListExact'
       /\ \A u \in Vault : Len(openKeys'[u]) = Len(openKeys[u]) + (IF u = v THEN dn ELSE 0)
  <2>1. CASE full
    <3>1. RemoveKey(k) /\ tracking' = [tracking EXCEPT ![k] = Untracked]
      BY <1>3, <2>1 DEF q
    <3>2. /\ KeyListExact'
          /\ \A u \in Vault : Len(openKeys'[u]) = Len(openKeys[u]) - (IF u = v THEN 1 ELSE 0)
      BY <1>1, <3>1, KeyRemoved DEF v
    <3>3. ASSUME NEW u \in Vault
          PROVE  Len(openKeys'[u]) = Len(openKeys[u]) + (IF u = v THEN dn ELSE 0)
      <4> DEFINE after == Len(openKeys'[u])
                 before == Len(openKeys[u])
      <4>1. after = before - (IF u = v THEN 1 ELSE 0)
        BY <3>2
      <4>2. dn = -1 /\ before \in Nat
        BY <1>5, <2>1
      <4> HIDE DEF dn, after, before
      <4>3. after = before + (IF u = v THEN dn ELSE 0)
        BY <4>1, <4>2
      <4> QED
        BY <4>3 DEF after, before
    <3> QED
      BY <3>2, <3>3
  <2>2. CASE ~ full
    <3>1. UNCHANGED <<openKeys, keyIndex>>
      BY <1>3, <2>2
    <3>2. \A j \in PosKey : tracking'[j].exists = tracking[j].exists
      BY <1>1, <1>4, <1>6, <2>2 DEF q
    <3>3. KeyListExact'
      BY <1>1, <3>1, <3>2 DEF KeyListExact
    <3> QED
      BY <1>5, <2>2, <3>1, <3>3
  <2> QED
    BY <2>1, <2>2
<1>11. /\ OpenInterestExact'
       /\ \A u \in Vault : Slack(u)' = Slack(u) /\ Spare(u)' = Spare(u)
  <2> HIDE DEF ds, dc, dn
  <2>1. v = VaultOf(k)
    BY DEF v
  <2>2. /\ tracking' = [tracking EXCEPT ![k] = q]
        /\ openInterest' = [openInterest EXCEPT ![VaultOf(k)] = @ + ds]
        /\ collateralLocked' = [collateralLocked EXCEPT ![VaultOf(k)] = @ + dc]
        /\ positionCount' = [positionCount EXCEPT ![VaultOf(k)] = @ + dn]
    BY <1>3, <1>8, <1>9, <2>1
  <2>3. \A u \in Vault : Len(openKeys'[u])
                         = Len(openKeys[u]) + (IF u = VaultOf(k) THEN dn ELSE 0)
    BY <1>10, <2>1
  <2> QED
    BY <1>1, <1>7, <2>2, <2>3, MoveBooks, Zenon
<1>12. ClosedEmpty'
  BY <1>4, <1>6 DEF ClosedEmpty, BookInv, q
<1>13. OpenSized => OpenSized'
  <2>1. 0 < q.size \/ ~ q.exists
    BY <1>1, <1>4 DEF q, full
  <2> QED
    BY <1>6, <2>1 DEF OpenSized
<1> QED
  BY <1>10, <1>11, <1>12, <1>13 DEF BooksMove

\* A step that leaves the books and the locked collateral alone keeps them.
LEMMA BooksStay ==
  ASSUME TypeOK, UNCHANGED <<book, collateralLocked>>
  PROVE  /\ OpenInterestExact => OpenInterestExact'
         /\ KeyListExact => KeyListExact'
         /\ ClosedEmpty => ClosedEmpty'
         /\ OpenSized => OpenSized'
         /\ \A v \in Vault : Slack(v)' = Slack(v) /\ Spare(v)' = Spare(v)
<1>1. UNCHANGED <<openInterest, positionCount, tracking, openKeys, keyIndex, collateralLocked>>
  BY DEF book
<1>2. \A v \in Vault : Slack(v)' = Slack(v) /\ Spare(v)' = Spare(v)
  BY <1>1 DEF Slack, Spare, TrackedCollateral, CollateralOf, KeysOf
<1>3. OpenInterestExact => OpenInterestExact'
  BY <1>1 DEF OpenInterestExact, KeysOf
<1>4. (KeyListExact => KeyListExact') /\ (ClosedEmpty => ClosedEmpty') /\ (OpenSized => OpenSized')
  BY <1>1 DEF KeyListExact, ClosedEmpty, OpenSized
<1> QED
  BY <1>2, <1>3, <1>4

\* No slack below zero is what CountsCovered says, in this state and in the next.
SlackNat == \A v \in Vault : 0 <= Slack(v) /\ 0 <= Spare(v)

LEMMA CoveredBySlack == TypeOK => (SlackNat <=> CountsCovered)
<1>1. ASSUME TypeOK, NEW v \in Vault
      PROVE  /\ 0 <= Slack(v) <=> collateralLocked[v] <= TrackedCollateral(v)
             /\ 0 <= Spare(v) <=> positionCount[v] <= Len(openKeys[v])
  <2>1. /\ TrackedCollateral(v) \in Nat /\ collateralLocked[v] \in Nat
        /\ Len(openKeys[v]) \in Nat /\ positionCount[v] \in Nat
    BY <1>1, SlackType
  <2> QED
    BY <2>1 DEF Slack, Spare
<1> QED
  BY <1>1 DEF SlackNat, CountsCovered

LEMMA CoveredBySlackNext == (TypeOK => (SlackNat <=> CountsCovered))'
BY CoveredBySlack, PTL

\* The capital on the books moves with totalDeposited, or off the books alone.
LEMMA DepositsMove ==
  ASSUME TypeOK, TypeOK', DepositsWithinTotal, NEW v \in Vault, NEW n \in Int, NEW t \in Int,
         depositedCapital' = [depositedCapital EXCEPT ![v] = @ + n],
         totalDeposited' = totalDeposited + t, n <= t
  PROVE  DepositsWithinTotal'
<1>1. /\ IsFiniteSet(Vault)
      /\ depositedCapital \in [Vault -> Nat] /\ depositedCapital' \in [Vault -> Nat]
      /\ totalDeposited \in Nat
  BY AccountingConstants DEF TypeOK, CapitalTypeOK
<1> DEFINE d == depositedCapital'
<1>2. /\ \A x \in Vault : d[x] \in Int /\ depositedCapital[x] \in Int
      /\ \A x \in Vault \ {v} : d[x] = depositedCapital[x]
      /\ d[v] = depositedCapital[v] + n
  BY <1>1
<1>3. SumFunctionOnSet(d, Vault) = SumFunctionOnSet(depositedCapital, Vault) + d[v] - depositedCapital[v]
  <2> HIDE DEF d
  <2> QED
    BY <1>1, <1>2, SumChange
<1>4. SumFunctionOnSet(depositedCapital, Vault) \in Int
  BY <1>1, <1>2, SumType
<1>5. SumFunctionOnSet(d, Vault) = SumFunctionOnSet(depositedCapital, Vault) + n
  <2> HIDE DEF d
  <2> QED
    BY <1>2, <1>3, <1>4
<1>6. SumFunctionOnSet(depositedCapital, Vault) <= totalDeposited
  BY DEF DepositsWithinTotal
<1>7. SumFunctionOnSet(d, Vault) <= totalDeposited'
  <2> HIDE DEF d
  <2> QED
    BY <1>1, <1>4, <1>5, <1>6
<1> QED
  BY <1>7 DEF DepositsWithinTotal

\* With sizes on all open positions, a retired vault has none left.
LEMMA RetiredEmpty ==
  ASSUME TypeOK, BookInv, OpenSized, NEW v \in Vault, ~ registered[v]
  PROVE  TrackedCollateral(v) = 0 /\ Len(openKeys[v]) = 0
<1>1. TrackedSize(v) = 0
  BY DEF BookInv, BooksCovered, Retired, OpenInterestExact, TrackedSize, SizeOf
<1>2. \A k \in KeysOf(v) : ~ tracking[k].exists
  <2>1. \A k \in KeysOf(v) : /\ tracking[k].size <= 0 /\ tracking[k].size \in Nat
                             /\ k \in PosKey
    BY <1>1, TrackedType DEF TypeOK, BookTypeOK, KeysOf
  <2> QED
    BY <2>1 DEF OpenSized
<1>3. \A k \in KeysOf(v) : CollateralOf[k] = 0
  BY <1>2 DEF BookInv, ClosedEmpty, KeysOf, Untracked, CollateralOf
<1>4. TrackedCollateral(v) = 0
  BY <1>3, KeysOfFinite, SumZero DEF TrackedCollateral
<1>5. Len(openKeys[v]) = 0
  <2>1. openKeys[v] \in Seq(PosKey) /\ Len(openKeys[v]) \in Nat
    BY DEF TypeOK, BookTypeOK
  <2>2. SUFFICES ASSUME Len(openKeys[v]) # 0 PROVE FALSE
    OBVIOUS
  <2>3. 1 \in 1..Len(openKeys[v]) /\ openKeys[v][1] \in PosKey
    BY <2>1, <2>2
  <2>4. VaultOf(openKeys[v][1]) = v /\ keyIndex[openKeys[v][1]] = 1
    BY <2>3 DEF BookInv, BooksCovered, KeyListExact
  <2>5. tracking[openKeys[v][1]].exists
    BY <2>3, <2>4 DEF BookInv, BooksCovered, KeyListExact
  <2> QED
    BY <1>2, <2>3, <2>4, <2>5 DEF KeysOf
<1> QED
  BY <1>4, <1>5

BooksTight == OpenSized /\ NoSlack

\* A registration starts the struct from zero.
LEMMA RegisterBooks ==
  ASSUME TypeOK, TypeOK', BookInv, NEW v \in Vault, RegisterVault(v)
  PROVE  BookInv' /\ (BooksTight => BooksTight')
<1>1. /\ ~ registered[v]
      /\ registered' = [registered EXCEPT ![v] = TRUE] /\ registered \in [Vault -> BOOLEAN]
      /\ depositedCapital' = [depositedCapital EXCEPT ![v] = 0]
      /\ openInterest' = [openInterest EXCEPT ![v] = 0]
      /\ collateralLocked' = [collateralLocked EXCEPT ![v] = 0]
      /\ positionCount' = [positionCount EXCEPT ![v] = 0]
      /\ UNCHANGED <<totalDeposited, tracking, openKeys, keyIndex>>
      /\ openInterest \in [Vault -> Nat] /\ collateralLocked \in [Vault -> Nat]
      /\ positionCount \in [Vault -> Nat] /\ depositedCapital \in [Vault -> Nat]
      /\ totalDeposited \in Nat
  BY DEF RegisterVault, TypeOK, SettingsTypeOK, BookTypeOK, CapitalTypeOK
<1>2. openInterest' = openInterest
  <2>1. openInterest[v] = 0
    BY <1>1 DEF BookInv, Retired
  <2> QED
    BY <1>1, <2>1
<1>3. OpenInterestExact' /\ KeyListExact' /\ ClosedEmpty' /\ (OpenSized => OpenSized')
  <2>1. OpenInterestExact'
    BY <1>1, <1>2 DEF BookInv, BooksCovered, OpenInterestExact, KeysOf
  <2>2. KeyListExact'
    BY <1>1 DEF BookInv, BooksCovered, KeyListExact
  <2> QED
    BY <1>1, <2>1, <2>2 DEF BookInv, ClosedEmpty, OpenSized
<1>4. Retired'
  BY <1>1, <1>2 DEF BookInv, Retired
<1>5. DepositsWithinTotal'
  <2> DEFINE n == -depositedCapital[v]
  <2>1. /\ n \in Int /\ n <= 0 /\ 0 \in Int
        /\ depositedCapital[v] + n = 0 /\ totalDeposited + 0 = totalDeposited
    BY <1>1
  <2> HIDE DEF n
  <2>2. /\ depositedCapital' = [depositedCapital EXCEPT ![v] = @ + n]
        /\ totalDeposited' = totalDeposited + 0
    BY <1>1, <2>1
  <2>3. DepositsWithinTotal
    BY DEF BookInv, BooksCovered
  <2> QED
    BY <2>1, <2>2, <2>3, DepositsMove, Zenon
<1>6. ASSUME NEW u \in Vault
      PROVE  /\ Slack(u)' = IF u = v THEN TrackedCollateral(v) ELSE Slack(u)
             /\ Spare(u)' = IF u = v THEN Len(openKeys[v]) ELSE Spare(u)
  <2>1. TrackedCollateral(u)' = TrackedCollateral(u)
    BY <1>1 DEF TrackedCollateral, CollateralOf, KeysOf
  <2>2. /\ TrackedCollateral(u) \in Nat /\ Len(openKeys[u]) \in Nat
    BY SlackType
  <2>3. /\ collateralLocked'[u] = IF u = v THEN 0 ELSE collateralLocked[u]
        /\ positionCount'[u] = IF u = v THEN 0 ELSE positionCount[u]
    BY <1>1
  <2>4. /\ Slack(u)' = TrackedCollateral(u) - collateralLocked'[u]
        /\ Spare(u)' = Len(openKeys[u]) - positionCount'[u]
    BY <1>1, <2>1 DEF Slack, Spare
  <2>5. CASE u = v
    BY <2>2, <2>3, <2>4, <2>5
  <2>6. CASE u # v
    BY <2>3, <2>4, <2>6 DEF Slack, Spare
  <2> QED
    BY <2>5, <2>6
<1>7. SlackNat
  BY CoveredBySlack DEF BookInv, BooksCovered
<1>8. SlackNat'
  <2>1. TrackedCollateral(v) \in Nat /\ Len(openKeys[v]) \in Nat
    BY SlackType
  <2>2. TrackedCollateral(v) >= 0 /\ Len(openKeys[v]) >= 0
    BY <2>1
  <2> QED
    BY <1>6, <1>7, <2>2 DEF SlackNat
<1>9. CountsCovered'
  BY <1>8, CoveredBySlackNext
<1>10. BookInv'
  BY <1>3, <1>4, <1>5, <1>9 DEF BookInv, BooksCovered
<1>11. BooksTight => BooksTight'
  BY <1>1, <1>3, <1>6, RetiredEmpty DEF BooksTight, NoSlack
<1> QED
  BY <1>10, <1>11

\* A trade moves all books alike.
LEMMA MoveKeeps ==
  ASSUME TypeOK, TypeOK', BookInv, BooksMove, DepositsWithinTotal', Retired'
  PROVE  BookInv' /\ (NoSlack => NoSlack')
<1>1. SlackNat
  BY CoveredBySlack DEF BookInv, BooksCovered
<1>2. SlackNat'
  BY <1>1 DEF BooksMove, SlackNat
<1>3. CountsCovered'
  BY <1>2, CoveredBySlackNext
<1>4. NoSlack => NoSlack'
  BY DEF NoSlack, BooksMove
<1> QED
  BY <1>3, <1>4 DEF BookInv, BooksCovered, BooksMove

\* Deposits and withdrawals move the total and the vault's capital together.
LEMMA CapitalBooks ==
  ASSUME TypeOK, TypeOK', BookInv, NEW v \in Vault, NEW n \in Int,
         depositedCapital' = [depositedCapital EXCEPT ![v] = @ + n],
         totalDeposited' = totalDeposited + n,
         UNCHANGED <<registered, book, collateralLocked>>
  PROVE  BookInv' /\ (BooksTight => BooksTight')
<1>1. DepositsWithinTotal'
  <2>1. n <= n /\ DepositsWithinTotal
    BY DEF BookInv, BooksCovered
  <2> QED
    BY <2>1, DepositsMove, Zenon
<1>2. Retired'
  BY DEF BookInv, Retired, book
<1>3. BooksMove /\ (OpenSized => OpenSized')
  BY BooksStay DEF BooksMove, BookInv, BooksCovered
<1> QED
  BY <1>1, <1>2, <1>3, MoveKeeps DEF BooksTight

\* A step that touches neither books nor capital.
LEMMA IdleBooks ==
  ASSUME TypeOK, TypeOK', BookInv, UNCHANGED <<book, capital>>,
         registered' = registered \/ Retired'
  PROVE  BookInv' /\ (BooksTight => BooksTight')
<1>1. UNCHANGED <<book, collateralLocked, depositedCapital, totalDeposited>>
  BY DEF capital
<1>2. DepositsWithinTotal' /\ Retired'
  BY <1>1 DEF BookInv, BooksCovered, DepositsWithinTotal, Retired, book
<1>3. BooksMove /\ (OpenSized => OpenSized')
  BY <1>1, BooksStay DEF BooksMove, BookInv, BooksCovered
<1> QED
  BY <1>2, <1>3, MoveKeeps DEF BooksTight

\* The trades of the vaults keep the books.
LEMMA TradeBooks ==
  ASSUME TypeOK, TypeOK', BookInv, TradeStep
  PROVE  BookInv' /\ (0 \notin Size /\ BooksTight => BooksTight')
<1> USE AccountingConstants, GmxConstants
<1>1. ASSUME NEW a \in Others, NEW v \in Vault, NEW amount \in Amount,
             DepositCapital(a, v, amount)
      PROVE  BookInv' /\ (BooksTight => BooksTight')
  <2>1. /\ amount \in Int
        /\ depositedCapital' = [depositedCapital EXCEPT ![v] = @ + amount]
        /\ totalDeposited' = totalDeposited + amount
        /\ UNCHANGED <<registered, book, collateralLocked>>
    BY <1>1 DEF DepositCapital
  <2> QED
    BY <2>1, CapitalBooks
<1>2. ASSUME NEW v \in Vault, NEW amount \in Amount, WithdrawCapital(v, amount)
      PROVE  BookInv' /\ (BooksTight => BooksTight')
  <2> DEFINE principal == Principal(v, amount)
             n == -principal
  <2>1. /\ principal \in Nat /\ depositedCapital[v] \in Nat /\ totalDeposited \in Nat
    BY PrincipalType DEF TypeOK, CapitalTypeOK
  <2>2. /\ depositedCapital' = [depositedCapital EXCEPT ![v] = @ - principal]
        /\ totalDeposited' = totalDeposited - principal
        /\ UNCHANGED <<registered, book, collateralLocked>>
    BY <1>2 DEF WithdrawCapital
  <2> HIDE DEF principal
  <2>3. /\ n \in Int
        /\ depositedCapital[v] - principal = depositedCapital[v] + n
        /\ totalDeposited - principal = totalDeposited + n
    BY <2>1
  <2> HIDE DEF n
  <2>4. /\ depositedCapital' = [depositedCapital EXCEPT ![v] = @ + n]
        /\ totalDeposited' = totalDeposited + n
    BY <2>2, <2>3
  <2> QED
    BY <2>2, <2>3, <2>4, CapitalBooks, Zenon
<1>3. ASSUME NEW k \in PosKey, NEW size \in Size, NEW collateral \in Amount, NEW fee \in Fee,
             OpenPosition(k, size, collateral, fee)
      PROVE  BookInv' /\ (0 \notin Size /\ BooksTight => BooksTight')
  <2>1. /\ registered[VaultOf(k)]
        /\ openInterest' = [openInterest EXCEPT ![VaultOf(k)] = @ + size]
        /\ UNCHANGED <<registered, depositedCapital, totalDeposited>>
    BY <1>3 DEF OpenPosition
  <2>2. Retired' /\ DepositsWithinTotal'
    BY <2>1 DEF BookInv, BooksCovered, Retired, DepositsWithinTotal, TypeOK, BookTypeOK
  <2>3. size \in Nat /\ collateral \in Nat /\ fee \in Nat
    OBVIOUS
  <2>4. BooksMove /\ (OpenSized /\ 0 < size => OpenSized')
    BY <1>3, <2>3, OpenBooks
  <2>5. 0 \notin Size => 0 < size
    BY <2>3
  <2> QED
    BY <2>2, <2>4, <2>5, MoveKeeps DEF BooksTight
<1>4. ASSUME NEW k \in PosKey, NEW size \in Size, NEW out \in CollateralDelta,
             NEW move \in Move, NEW fee \in Fee, ClosePosition(k, size, out, move, fee)
      PROVE  BookInv' /\ (BooksTight => BooksTight')
  <2>1. /\ registered[VaultOf(k)]
        /\ openInterest' = [openInterest EXCEPT ![VaultOf(k)] = @ - size]
        /\ UNCHANGED <<registered, depositedCapital, totalDeposited>>
    BY <1>4 DEF ClosePosition
  <2>2. Retired' /\ DepositsWithinTotal'
    BY <2>1 DEF BookInv, BooksCovered, Retired, DepositsWithinTotal, TypeOK, BookTypeOK
  <2>3. size \in Nat /\ out \in Nat /\ move \in Int /\ fee \in Nat
    OBVIOUS
  <2>4. BooksMove /\ (OpenSized => OpenSized')
    BY <1>4, <2>3, CloseBooks
  <2> QED
    BY <2>2, <2>4, MoveKeeps DEF BooksTight
<1> QED
  BY <1>1, <1>2, <1>3, <1>4 DEF TradeStep

\* BookInv is inductive, and with positive sizes the books stay tight.
LEMMA NextBooks ==
  ASSUME TypeOK, BookInv, [Next]_vars
  PROVE  BookInv' /\ (0 \notin Size /\ BooksTight => BooksTight')
<1>1. TypeOK'
  BY NextType
<1>2. CASE RegistryStep
  <2>1. ASSUME NEW v \in Vault, DeregisterVault(v) PROVE BookInv' /\ (BooksTight => BooksTight')
    <3>1. UNCHANGED <<book, capital>>
      BY <2>1 DEF DeregisterVault
    <3>2. Retired'
      BY <2>1 DEF DeregisterVault, BookInv, Retired, book, TypeOK, SettingsTypeOK
    <3> QED
      BY <1>1, <3>1, <3>2, IdleBooks
  <2> QED
    BY <1>1, <1>2, <2>1, RegisterBooks DEF RegistryStep
<1>3. CASE SettingStep
  <2>1. UNCHANGED <<book, capital>> /\ registered' = registered
    BY <1>3 DEF SettingStep, MapAssetToken, SetMaxOpenInterest, SetMaxPositionSize, SetPaused
  <2> QED
    BY <1>1, <2>1, IdleBooks
<1>4. CASE SeedStep
  <2>1. UNCHANGED <<book, capital>> /\ registered' = registered
    BY <1>4 DEF SeedStep, SeedPool, UnseedPool, ResetSeedCap, SetSeedCapPerEpoch,
         SetUnseedCapPerEpoch, SetMinPoolFloor, SeedingOnly
  <2> QED
    BY <1>1, <2>1, IdleBooks
<1>5. CASE MarketStep \/ UNCHANGED vars
  <2>1. UNCHANGED <<book, capital>> /\ registered' = registered
    BY <1>5 DEF MarketStep, vaVars, vars
  <2> QED
    BY <1>1, <2>1, IdleBooks
<1> QED
  BY <1>1, <1>2, <1>3, <1>4, <1>5, TradeBooks DEF Next

\* Nothing is tracked at first.
LEMMA InitBooks == Init => BookInv /\ BooksTight
<1> SUFFICES ASSUME Init PROVE BookInv /\ BooksTight
  OBVIOUS
<1>1. /\ \A k \in PosKey : tracking[k] = Untracked /\ keyIndex[k] = 0
      /\ \A v \in Vault : /\ openInterest[v] = 0 /\ collateralLocked[v] = 0
                          /\ positionCount[v] = 0 /\ depositedCapital[v] = 0
                          /\ openKeys[v] = <<>> /\ Len(openKeys[v]) = 0
      /\ totalDeposited = 0
  BY DEF Init, ZeroEach
<1>2. \A k \in PosKey : SizeOf[k] = 0 /\ CollateralOf[k] = 0
  BY <1>1 DEF SizeOf, CollateralOf, Untracked
<1>3. \A v \in Vault : TrackedSize(v) = 0 /\ TrackedCollateral(v) = 0
  BY <1>2, KeysOfFinite, SumZero DEF TrackedSize, TrackedCollateral, KeysOf
<1>4. OpenInterestExact
  BY <1>1, <1>3 DEF OpenInterestExact, TrackedSize, SizeOf
<1>5. KeyListExact
  BY <1>1 DEF KeyListExact, Untracked
<1>6. DepositsWithinTotal
  <2>1. SumFunctionOnSet(depositedCapital, Vault) = 0
    BY <1>1, AccountingConstants, SumZero
  <2> QED
    BY <1>1, <2>1 DEF DepositsWithinTotal
<1>7. Retired /\ ClosedEmpty /\ OpenSized
  BY <1>1 DEF Retired, ClosedEmpty, OpenSized, Untracked
<1>8. NoSlack
  BY <1>1, <1>3 DEF NoSlack, Slack, Spare
<1> QED
  BY <1>1, <1>3, <1>4, <1>5, <1>6, <1>7, <1>8 DEF BookInv, BooksCovered, CountsCovered, BooksTight

\* Tight books are exact.
LEMMA TightExact ==
  ASSUME TypeOK, BookInv, BooksTight
  PROVE  BooksExact
<1>1. ASSUME NEW v \in Vault
      PROVE  collateralLocked[v] = TrackedCollateral(v) /\ positionCount[v] = Len(openKeys[v])
  <2>1. /\ TrackedCollateral(v) \in Nat /\ collateralLocked[v] \in Nat
        /\ Len(openKeys[v]) \in Nat /\ positionCount[v] \in Nat
        /\ TrackedCollateral(v) - collateralLocked[v] = 0
        /\ Len(openKeys[v]) - positionCount[v] = 0
    BY SlackType DEF BooksTight, NoSlack, Slack, Spare
  <2> QED
    BY <2>1
<1>2. BookMatchesPositions
  BY <1>1 DEF BookMatchesPositions, TrackedCollateral, CollateralOf
<1> QED
  BY <1>2 DEF BooksExact, BookInv, BooksCovered

-----------------------------------------------------------------------------
(* The theorems.                                                           *)

\* Every variable keeps its type: among others, no balance, counter, tracked
\* size or locked collateral is ever driven below zero (VaultAccounting.sol
\* computes them in uint256).
THEOREM AccountingTyped == Spec => []TypeOK
<1>1. Init => TypeOK
  BY AccountingInit
<1>2. TypeOK /\ [Next]_vars => TypeOK'
  BY NextType
<1> QED
  BY <1>1, <1>2, PTL DEF Spec

\* No vault is ever in debt to the others (_availableCapital, l.556).
THEOREM VaultsOutOfDebt == Spec => []NoVaultInDebt
<1>1. Init => NoVaultInDebt
  BY AccountingInit
<1>2. TypeOK /\ NoVaultInDebt /\ [Next]_vars => NoVaultInDebt'
  BY NextLedger
<1> QED
  BY <1>1, <1>2, AccountingTyped, PTL DEF Spec

\* VaultAccounting, on top of GMX, implements the segregated ledger.
THEOREM AccountingIsLedger == Spec => LedgerSpec
<1>1. Init => Ledger!Init
  BY InitLedger DEF LP!Init, Ledger!Init
<1>2. TypeOK /\ NoVaultInDebt /\ [Next]_vars => [Ledger!Next]_(Ledger!ledgerVars)
  BY NextLedger DEF LP!Next, LP!Transact, LP!WriteOff, LP!Windfall, LP!OnlyChanges,
     Ledger!Next, Ledger!Transact, Ledger!WriteOff, Ledger!Windfall, Ledger!OnlyChanges
<1> QED
  BY <1>1, <1>2, AccountingTyped, VaultsOutOfDebt, PTL DEF Spec, LedgerSpec, Ledger!Spec

\* Seen from one vault the contract is that vault's own account, which only
\* its own deposits, withdrawals, opens, closes and registration move
\* (depositCapital, withdrawCapital, openPosition, closePosition).
THEOREM AccountingIsAccounts == Spec => AccountsSpec
<1>1. Init => \A v \in Vault : Seen(v)!NewAccount
  BY DEF Init, ZeroEach, Seen!NewAccount
<1>2. TypeOK /\ [Next]_vars
        => [\A v \in Vault : UNCHANGED Seen(v)!account \/ Seen(v)!AccountNext]_capital
  <2>1. CASE UNCHANGED vars
    BY <2>1 DEF vars, vaVars, capital
  <2>2. ASSUME NEW v \in Vault, MovesOnly(v)
        PROVE  \A u \in Vault : UNCHANGED Seen(u)!account \/ Seen(u)!AccountNext
    BY <2>2 DEF MovesOnly
  <2> QED
    BY <2>1, <2>2, NextSeen
<1> QED
  BY <1>1, <1>2, AccountingTyped, PTL DEF Spec, AccountsSpec

\* All vaults together can withdraw what is free for them (withdrawCapital).
THEOREM AccountingSolvent == Spec => []Solvent
<1>1. LP!Covered <=> Solvent
  BY Zenon DEF LP!Covered, Solvent, LP!SumFunctionOnSet, SumFunctionOnSet, LP!FoldFunctionOnSet,
     FoldFunctionOnSet, LP!MapThenFoldSet, MapThenFoldSet
<1>2. LP!IsFiniteSet(Vault)
  BY AccountingConstants, Zenon DEF LP!IsFiniteSet, IsFiniteSet
<1>3. Init => LP!LedgerInv
  BY <1>2, LP!LedgerInit, InitLedger
<1>4. LP!LedgerInv /\ [LP!Next]_(LP!ledgerVars) => LP!LedgerInv'
  BY <1>2, LP!LedgerStep
<1>5. TypeOK /\ NoVaultInDebt /\ LP!LedgerInv /\ [Next]_vars => LP!LedgerInv'
  BY <1>4, NextLedger
<1>6. LP!LedgerInv => Solvent
  BY <1>1 DEF LP!LedgerInv
<1> QED
  BY <1>3, <1>5, <1>6, AccountingTyped, VaultsOutOfDebt, PTL DEF Spec

\* Open interest is the size of the tracked positions, the swap-remove list and
\* its index agree, and no struct holds more collateral or positions than are
\* tracked, whatever is opened, closed, deregistered and registered again
\* (_pushOpenPositionKey, _removeOpenPositionKey, registerVault).
THEOREM BooksCover == Spec => []BooksCovered
<1>1. Init => BookInv
  BY InitBooks
<1>2. TypeOK /\ BookInv /\ [Next]_vars => BookInv'
  BY NextBooks
<1>3. BookInv => BooksCovered
  BY DEF BookInv
<1> QED
  BY <1>1, <1>2, <1>3, AccountingTyped, PTL DEF Spec

\* With positive sizes they agree exactly: no vault can then be deregistered
\* with a position open (deregisterVault), so no struct starts from zero over one.
THEOREM BooksAgree == 0 \notin Size => (Spec => []BooksExact)
<1> SUFFICES ASSUME 0 \notin Size PROVE Spec => []BooksExact
  OBVIOUS
<1>1. Init => BookInv /\ BooksTight
  BY InitBooks
<1>2. TypeOK /\ BookInv /\ BooksTight /\ [Next]_vars => (BookInv /\ BooksTight)'
  BY NextBooks
<1>3. TypeOK /\ BookInv /\ BooksTight => BooksExact
  BY TightExact
<1> QED
  BY <1>1, <1>2, <1>3, AccountingTyped, PTL DEF Spec

\* Driven by VaultAccounting and the market together, GMX keeps its totals.
LEMMA NextTotals ==
  ASSUME GmxInv, TypeOK, [Next]_vars
  PROVE  GmxInv' /\ [BackingStep]_gmxVars
<1> USE AccountingConstants, GmxConstants
<1>1. Account \subseteq Account /\ Others \subseteq Account
  BY DEF Others
<1>2. ASSUME UNCHANGED gmxVars PROVE GmxInv' /\ [BackingStep]_gmxVars
  BY <1>2, GmxUnchanged, TotalsStay DEF gmxVars, GmxInv, Totals, ReserveCovered,
     GuaranteedExact, ShortSizeExact, OpenPositionsHealthy
<1>3. ASSUME LiquidityStep(Account) PROVE GmxInv' /\ [BackingStep]_gmxVars
  BY <1>1, <1>3, StepTotals DEF GmxStep
<1>4. CASE RegistryStep \/ SettingStep
  BY <1>2, <1>4 DEF RegistryStep, RegisterVault, DeregisterVault, SettingStep, MapAssetToken,
     SetMaxOpenInterest, SetMaxPositionSize, SetPaused
<1>5. CASE SeedStep
  <2>1. UNCHANGED gmxVars \/ LiquidityStep(Account)
    BY <1>5 DEF SeedStep, SeedPool, UnseedPool, ResetSeedCap, SetSeedCapPerEpoch,
       SetUnseedCapPerEpoch, SetMinPoolFloor, SeedingOnly, LiquidityStep, Others
  <2> QED
    BY <1>2, <1>3, <2>1
<1>6. CASE TradeStep
  <2>1. ASSUME NEW a \in Others, NEW v \in Vault, NEW amount \in Amount,
               DepositCapital(a, v, amount)
        PROVE  GmxInv' /\ [BackingStep]_gmxVars
    <3>1. GmxTypeOK'
      BY <2>1, DepositType DEF TypeOK
    <3> QED
      BY <2>1, <3>1, TotalsStay DEF DepositCapital, GmxIdle, GmxInv, Totals,
         ReserveCovered, GuaranteedExact, ShortSizeExact, OpenPositionsHealthy,
         BackingStep, Unclaimed
  <2>2. ASSUME NEW v \in Vault, NEW amount \in Amount, WithdrawCapital(v, amount)
        PROVE  GmxInv' /\ [BackingStep]_gmxVars
    <3>1. GmxTypeOK'
      BY <2>2, WithdrawType DEF TypeOK
    <3> QED
      BY <2>2, <3>1, TotalsStay DEF WithdrawCapital, GmxIdle, GmxInv, Totals,
         ReserveCovered, GuaranteedExact, ShortSizeExact, OpenPositionsHealthy,
         BackingStep, Unclaimed
  <2>3. ASSUME NEW k \in PosKey, NEW size \in Size, NEW collateral \in Amount,
               NEW fee \in Fee, OpenPosition(k, size, collateral, fee)
        PROVE  GmxInv' /\ [BackingStep]_gmxVars
    <3>1. Leg(k) \in Key
      BY <2>3, LegInKey DEF OpenPosition, TypeOK, SettingsTypeOK
    <3>2. GmxTypeOK' /\ Totals' /\ Unclaimed' = Unclaimed
      BY <2>3, <3>1, IncreaseType, IncreaseTotals DEF OpenPosition, TypeOK
    <3> QED
      BY <3>2 DEF GmxInv, BackingStep
  <2>4. ASSUME NEW k \in PosKey, NEW size \in Size, NEW out \in CollateralDelta,
               NEW move \in Move, NEW fee \in Fee, ClosePosition(k, size, out, move, fee)
        PROVE  GmxInv' /\ [BackingStep]_gmxVars
    <3>1. Leg(k) \in Key
      BY <2>4, LegInKey DEF ClosePosition, TypeOK, SettingsTypeOK
    <3>2. GmxTypeOK' /\ Totals' /\ Unclaimed' = Unclaimed
      BY <2>4, <3>1, DecreaseType, DecreaseTotals DEF ClosePosition, TypeOK
    <3> QED
      BY <3>2 DEF GmxInv, BackingStep
  <2> QED
    BY <1>6, <2>1, <2>2, <2>3, <2>4 DEF TradeStep
<1>7. CASE MarketStep
  BY <1>1, <1>7, StepTotals DEF MarketStep
<1>8. CASE UNCHANGED vars
  BY <1>2, <1>8 DEF vars
<1> QED
  BY <1>4, <1>5, <1>6, <1>7, <1>8 DEF Next

\* Its reserve, guaranteed USD and short sizes are the sums over its open
\* positions, whatever the vaults that share one trader do.
THEOREM GmxTotalsHoldUnderAccounting == Spec => []TotalsExact
  BY NextTotals, GmxInvTotals, InitTotals, AccountingTyped, PTL DEF Spec, Init

\* No call of VaultAccounting or of another trader counts USDC of the GMX vault
\* twice or pays it out uncounted, but the liquidation of an overcharged short.
THEOREM BackingKeptUnderAccounting == Spec => BackingKept
  BY NextTotals, InitTotals, AccountingTyped, PTL DEF Spec, Init, BackingKept

-----------------------------------------------------------------------------
(* The adapters.                                                           *)

FeedOrNone == Feed \cup {NoFeed}

\* What configureAsset leaves behind, whoever calls it.
LEMMA Configured ==
  ASSUME AdapterTypeOK, NEW c \in Chain, NEW caller, NEW s \in Symbol,
         NEW feed \in FeedOrNone, NEW p \in Params, configureAsset(c, caller, s, feed, p)
  PROVE  /\ AdapterTypeOK'
         /\ config'[c][s].active /\ config'[c][s].params = p
         /\ \A d \in Chain, t \in Symbol : <<d, t>> # <<c, s>> => config'[d][t] = config[d][t]
<1> DEFINE new == [params |-> p, feed |-> feed, active |-> TRUE]
<1>1. config' = [config EXCEPT ![c][s] = new]
  BY DEF configureAsset
<1>2. /\ configHash' = [configHash EXCEPT ![c] = Rehashed(configHash[c], s, config[c][s], new)]
      /\ assetList' \in [Chain -> Seq(Symbol)] /\ canonicalMode' = canonicalMode
  BY DEF configureAsset, AdapterTypeOK
<1>3. Rehashed(configHash[c], s, config[c][s], new) \in SUBSET (Symbol \X Params)
  BY DEF Rehashed, Xor, AssetHash, AdapterTypeOK
<1>4. config' \in [Chain -> [Symbol ->
        [params : Params, feed : Feed \cup {NoFeed}, active : BOOLEAN]]]
  BY <1>1 DEF AdapterTypeOK, FeedOrNone
<1> QED
  BY <1>1, <1>2, <1>3, <1>4 DEF AdapterTypeOK

\* The hash, pair by pair.
HashOf(hash, cfg) ==
  /\ hash \subseteq Symbol \X Params
  /\ \A t \in Symbol, q \in Params : <<t, q>> \in hash <=> cfg[t].active /\ cfg[t].params = q

LEMMA HashPairs ==
  ASSUME NEW c \in Chain, NEW hash, NEW cfg \in [Symbol ->
           [params : Params, feed : Feed \cup {NoFeed}, active : BOOLEAN]]
  PROVE  HashOf(hash, cfg) <=> hash = {<<s, cfg[s].params>> : s \in {t \in Symbol : cfg[t].active}}
<1>1. ASSUME HashOf(hash, cfg)
      PROVE  hash = {<<s, cfg[s].params>> : s \in {t \in Symbol : cfg[t].active}}
  BY <1>1 DEF HashOf
<1>2. ASSUME hash = {<<s, cfg[s].params>> : s \in {t \in Symbol : cfg[t].active}}
      PROVE  HashOf(hash, cfg)
  BY <1>2 DEF HashOf
<1> QED
  BY <1>1, <1>2

\* Replacing one asset's term leaves the hash of the assets.
LEMMA RehashedExact ==
  ASSUME NEW hash, NEW cfg \in [Symbol ->
           [params : Params, feed : Feed \cup {NoFeed}, active : BOOLEAN]],
         NEW s \in Symbol, NEW new \in [params : Params, feed : Feed \cup {NoFeed}, active : {TRUE}],
         HashOf(hash, cfg)
  PROVE  HashOf(Rehashed(hash, s, cfg[s], new), [cfg EXCEPT ![s] = new])
<1> DEFINE after == Rehashed(hash, s, cfg[s], new)
<1>1. after \subseteq Symbol \X Params
  BY DEF HashOf, Rehashed, Xor, AssetHash
<1>2. ASSUME NEW t \in Symbol, NEW q \in Params, t # s
      PROVE  <<t, q>> \in after <=> cfg[t].active /\ cfg[t].params = q
  BY <1>2 DEF HashOf, Rehashed, Xor, AssetHash
<1>3. ASSUME NEW q \in Params
      PROVE  <<s, q>> \in after <=> new.params = q
  BY DEF HashOf, Rehashed, Xor, AssetHash
<1> QED
  BY <1>1, <1>2, <1>3 DEF HashOf

\* Taking an active asset's term out leaves the hash of the others.
LEMMA UnhashedExact ==
  ASSUME NEW hash, NEW cfg \in [Symbol ->
           [params : Params, feed : Feed \cup {NoFeed}, active : BOOLEAN]],
         NEW s \in Symbol, cfg[s].active, NEW new, ~ new.active,
         HashOf(hash, cfg)
  PROVE  HashOf(Xor(hash, AssetHash(s, cfg[s])), [cfg EXCEPT ![s] = new])
<1> DEFINE after == Xor(hash, AssetHash(s, cfg[s]))
<1>1. after \subseteq Symbol \X Params
  BY DEF HashOf, Xor, AssetHash
<1>2. ASSUME NEW t \in Symbol, NEW q \in Params, t # s
      PROVE  <<t, q>> \in after <=> cfg[t].active /\ cfg[t].params = q
  BY <1>2 DEF HashOf, Xor, AssetHash
<1>3. ASSUME NEW q \in Params PROVE <<s, q>> \notin after
  BY DEF HashOf, Xor, AssetHash
<1> QED
  BY <1>1, <1>2, <1>3 DEF HashOf

Listed(list, cfg) == \A s \in Symbol : cfg[s].active => \E i \in DOMAIN list : list[i] = s

AdapterOf(c) == HashOf(configHash[c], config[c]) /\ Listed(assetList[c], config[c])

LEMMA AdapterEach ==
  ASSUME AdapterTypeOK
  PROVE  AdapterExact <=> \A c \in Chain : AdapterOf(c)
<1>1. ASSUME NEW c \in Chain
      PROVE  HashOf(configHash[c], config[c])
               <=> configHash[c] = {<<s, config[c][s].params>> : s \in Active(c)}
  BY HashPairs DEF AdapterTypeOK, Active
<1> QED
  BY <1>1 DEF AdapterExact, HashExact, ActiveListed, AdapterOf, Listed, Active

LEMMA AdapterEachNext ==
  ASSUME AdapterTypeOK', \A c \in Chain : AdapterOf(c)'
  PROVE  AdapterExact'
<1>1. ASSUME NEW c \in Chain
      PROVE  configHash'[c] = {<<s, config'[c][s].params>> : s \in {t \in Symbol : config'[c][t].active}}
  <2> DEFINE cfg == config'[c]
  <2>1. cfg \in [Symbol -> [params : Params, feed : Feed \cup {NoFeed}, active : BOOLEAN]]
    BY DEF AdapterTypeOK
  <2>2. HashOf(configHash'[c], cfg)
    BY DEF AdapterOf
  <2> HIDE DEF cfg
  <2>3. configHash'[c] = {<<s, cfg[s].params>> : s \in {t \in Symbol : cfg[t].active}}
    BY <2>1, <2>2, HashPairs
  <2> QED
    BY <2>3 DEF cfg
<1>2. HashExact'
  BY <1>1 DEF HashExact, Active
<1>3. ASSUME NEW c \in Chain PROVE Listed(assetList'[c], config'[c])
  BY DEF AdapterOf
<1>4. ActiveListed'
  BY <1>3 DEF ActiveListed, Listed, Active
<1> QED
  BY <1>2, <1>4 DEF AdapterExact

LEMMA AppendKeeps ==
  ASSUME NEW S, NEW list \in Seq(S), NEW s \in S
  PROVE  /\ \A i \in DOMAIN list : i \in DOMAIN Append(list, s) /\ Append(list, s)[i] = list[i]
         /\ \E i \in DOMAIN Append(list, s) : Append(list, s)[i] = s
<1>1. Len(list) + 1 \in DOMAIN Append(list, s) /\ Append(list, s)[Len(list) + 1] = s
  OBVIOUS
<1> QED
  BY <1>1

LEMMA ConfigureExact ==
  ASSUME AdapterTypeOK, AdapterExact, NEW c \in Chain, NEW caller, NEW s \in Symbol,
         NEW feed \in FeedOrNone, NEW p \in Params, configureAsset(c, caller, s, feed, p)
  PROVE  AdapterExact'
<1> DEFINE new == [params |-> p, feed |-> feed, active |-> TRUE]
<1>1. AdapterTypeOK'
  BY Configured
<1>2. /\ config' = [config EXCEPT ![c][s] = new]
      /\ configHash' = [configHash EXCEPT ![c] = Rehashed(configHash[c], s, config[c][s], new)]
      /\ assetList' = IF config[c][s].active THEN assetList
                      ELSE [assetList EXCEPT ![c] = Append(assetList[c], s)]
  BY DEF configureAsset
<1>3. \A d \in Chain : AdapterOf(d)
  BY AdapterEach
<1>4. ASSUME NEW d \in Chain, d # c PROVE AdapterOf(d)'
  <2>1. config'[d] = config[d] /\ configHash'[d] = configHash[d] /\ assetList'[d] = assetList[d]
    BY <1>2, <1>4 DEF AdapterTypeOK
  <2> QED
    BY <1>3, <2>1 DEF AdapterOf
<1>5. HashOf(configHash'[c], config'[c])
  <2>1. /\ config'[c] = [config[c] EXCEPT ![s] = new]
        /\ configHash'[c] = Rehashed(configHash[c], s, config[c][s], new)
    BY <1>2 DEF AdapterTypeOK
  <2>2. HashOf(configHash[c], config[c])
    BY <1>3 DEF AdapterOf
  <2>3. /\ config[c] \in [Symbol -> [params : Params, feed : Feed \cup {NoFeed}, active : BOOLEAN]]
        /\ new \in [params : Params, feed : Feed \cup {NoFeed}, active : {TRUE}]
    BY DEF AdapterTypeOK, FeedOrNone
  <2> HIDE DEF new
  <2>4. HashOf(Rehashed(configHash[c], s, config[c][s], new), [config[c] EXCEPT ![s] = new])
    BY <2>2, <2>3, RehashedExact
  <2> QED
    BY <2>1, <2>4
<1>6. Listed(assetList'[c], config'[c])
  <2>1. Listed(assetList[c], config[c]) /\ assetList[c] \in Seq(Symbol)
    BY <1>3 DEF AdapterOf, AdapterTypeOK
  <2>2. \A t \in Symbol : t # s => config'[c][t] = config[c][t]
    BY <1>2 DEF AdapterTypeOK
  <2>3. CASE config[c][s].active
    BY <1>2, <2>1, <2>2, <2>3 DEF Listed
  <2>4. CASE ~ config[c][s].active
    <3>1. assetList'[c] = Append(assetList[c], s)
      BY <1>2, <2>4 DEF AdapterTypeOK
    <3> QED
      BY <2>1, <2>2, <3>1, AppendKeeps DEF Listed
  <2> QED
    BY <2>3, <2>4
<1>7. \A d \in Chain : AdapterOf(d)'
  BY <1>4, <1>5, <1>6 DEF AdapterOf
<1> QED
  BY <1>1, <1>7, AdapterEachNext

\* The steps that change one asset and leave the list.
LEMMA OneAsset ==
  ASSUME AdapterTypeOK, AdapterExact, NEW c \in Chain, NEW s \in Symbol, NEW hash,
         NEW new \in [params : Params, feed : Feed \cup {NoFeed}, active : BOOLEAN],
         config' = [config EXCEPT ![c][s] = new],
         configHash' = [configHash EXCEPT ![c] = hash],
         UNCHANGED <<assetList, canonicalMode>>,
         HashOf(hash, [config[c] EXCEPT ![s] = new]), new.active => config[c][s].active
  PROVE  AdapterTypeOK' /\ AdapterExact'
<1>1. AdapterTypeOK'
  <2>1. hash \in SUBSET (Symbol \X Params)
    BY DEF HashOf
  <2> QED
    BY <2>1 DEF AdapterTypeOK
<1>2. \A d \in Chain : AdapterOf(d)
  BY AdapterEach
<1>3. ASSUME NEW d \in Chain, d # c PROVE AdapterOf(d)'
  <2>1. config'[d] = config[d] /\ configHash'[d] = configHash[d] /\ assetList'[d] = assetList[d]
    BY <1>3 DEF AdapterTypeOK
  <2> QED
    BY <1>2, <2>1 DEF AdapterOf
<1>4. AdapterOf(c)'
  <2>1. config'[c] = [config[c] EXCEPT ![s] = new] /\ configHash'[c] = hash
    BY DEF AdapterTypeOK
  <2>2. Listed(assetList[c], config[c])
    BY <1>2 DEF AdapterOf
  <2>3. \A t \in Symbol : config'[c][t].active => config[c][t].active
    BY <2>1 DEF AdapterTypeOK
  <2>4. Listed(assetList'[c], config'[c])
    BY <2>2, <2>3 DEF Listed
  <2> QED
    BY <2>1, <2>4 DEF AdapterOf
<1> QED
  BY <1>1, <1>3, <1>4, AdapterEachNext

LEMMA DeactivateExact ==
  ASSUME AdapterTypeOK, AdapterExact, NEW c \in Chain, NEW s \in Symbol, deactivateAsset(c, s)
  PROVE  /\ AdapterTypeOK' /\ AdapterExact'
         /\ \A d \in Chain, t \in Symbol : <<d, t>> # <<c, s>> => config'[d][t] = config[d][t]
<1> DEFINE new == [params |-> config[c][s].params, feed |-> config[c][s].feed, active |-> FALSE]
           hash == Xor(configHash[c], AssetHash(s, config[c][s]))
<1>1. /\ config' = [config EXCEPT ![c][s] = new]
      /\ configHash' = [configHash EXCEPT ![c] = hash]
      /\ UNCHANGED <<assetList, canonicalMode>> /\ config[c][s].active
  BY DEF deactivateAsset
<1>2. /\ new \in [params : Params, feed : Feed \cup {NoFeed}, active : BOOLEAN] /\ ~ new.active
      /\ config[c] \in [Symbol -> [params : Params, feed : Feed \cup {NoFeed}, active : BOOLEAN]]
  BY DEF AdapterTypeOK
<1>3. HashOf(configHash[c], config[c])
  BY AdapterEach DEF AdapterOf
<1> HIDE DEF new
<1>4. HashOf(hash, [config[c] EXCEPT ![s] = new])
  BY <1>1, <1>2, <1>3, UnhashedExact
<1> HIDE DEF hash
<1>5. AdapterTypeOK' /\ AdapterExact'
  BY <1>1, <1>2, <1>4, OneAsset
<1> QED
  BY <1>1, <1>5 DEF AdapterTypeOK

LEMMA LocalFeedExact ==
  ASSUME AdapterTypeOK, AdapterExact, NEW c \in Chain, NEW s \in Symbol, NEW feed \in Feed,
         setLocalFeedAddress(c, s, feed)
  PROVE  /\ AdapterTypeOK' /\ AdapterExact'
         /\ \A d \in Chain, t \in Symbol : /\ config'[d][t].params = config[d][t].params
                                           /\ config'[d][t].active = config[d][t].active
<1> DEFINE new == [params |-> config[c][s].params, feed |-> feed, active |-> TRUE]
<1>1. /\ config' = [config EXCEPT ![c][s] = new]
      /\ UNCHANGED <<assetList, canonicalMode>> /\ config[c][s].active
  BY DEF setLocalFeedAddress
<1>2. configHash' = [configHash EXCEPT ![c] = configHash[c]]
  BY DEF setLocalFeedAddress, Xor, AssetHash
<1>3. /\ new \in [params : Params, feed : Feed \cup {NoFeed}, active : BOOLEAN]
      /\ config[c] \in [Symbol -> [params : Params, feed : Feed \cup {NoFeed}, active : BOOLEAN]]
      /\ new.params = config[c][s].params /\ new.active
  BY DEF AdapterTypeOK
<1>4. HashOf(configHash[c], config[c])
  BY AdapterEach DEF AdapterOf
<1> HIDE DEF new
<1>5. HashOf(configHash[c], [config[c] EXCEPT ![s] = new])
  BY <1>1, <1>3, <1>4 DEF HashOf
<1>6. AdapterTypeOK' /\ AdapterExact'
  BY <1>1, <1>2, <1>3, <1>5, OneAsset
<1> QED
  BY <1>1, <1>3, <1>6 DEF AdapterTypeOK

LEMMA CanonicalExact ==
  ASSUME AdapterTypeOK, AdapterExact, NEW c \in Chain, NEW on \in BOOLEAN, setCanonicalMode(c, on)
  PROVE  AdapterTypeOK' /\ AdapterExact' /\ config' = config
BY DEF setCanonicalMode, AdapterTypeOK, AdapterExact, HashExact, ActiveListed, Active

-----------------------------------------------------------------------------
(* Votes.                                                                  *)

\* Whatever a chain holds, has under way or put aside of another chain, that
\* chain proposed.
VotesProposed ==
  \A c, d \in Chain, s \in Symbol :
    votes[c][s][d].params # None => votes[c][s][d].params \in proposed[d][s]
LaneProposed ==
  \A l \in Lane : \A i \in DOMAIN lane[l] :
    lane[l][i].params \in proposed[l[1]][lane[l][i].symbol]
FailedProposed == \A f \in failed : f[3].params \in proposed[f[1]][f[3].symbol]

IInv == QuorumTypeOK /\ AdapterExact /\ VotesProposed /\ LaneProposed /\ FailedProposed
        /\ QuorumBacked

LEMMA MoreChains ==
  ASSUME NEW A \in SUBSET Chain, NEW B \in SUBSET Chain, A \subseteq B,
         NEW n \in Nat, Cardinality(A) >= n
  PROVE  Cardinality(B) >= n
<1>1. IsFiniteSet(Chain)
  BY AdapterConstants
<1>2. IsFiniteSet(B) /\ IsFiniteSet(A)
  BY <1>1, FS_Subset
<1>3. Cardinality(A) <= Cardinality(B) /\ Cardinality(A) \in Nat /\ Cardinality(B) \in Nat
  BY <1>2, FS_Subset, FS_CardinalityType
<1> QED
  BY <1>3

\* A quorum stays one while the settings, the peers and the threshold stay and
\* chains propose more.
LEMMA StaysBacked ==
  ASSUME QuorumTypeOK, QuorumTypeOK', NEW c \in Chain, NEW s \in Symbol,
         config'[c][s].params = config[c][s].params, config'[c][s].active = config[c][s].active,
         peers'[c] = peers[c], quorumThreshold'[c] = quorumThreshold[c],
         \A d \in Chain : proposed[d][s] \subseteq proposed'[d][s],
         config[c][s].active, Cardinality(Proposers(c, s)) >= quorumThreshold[c]
  PROVE  config'[c][s].active /\ Cardinality(Proposers(c, s)') >= quorumThreshold'[c]
<1>1. peers[c] \subseteq Chain /\ quorumThreshold[c] \in Nat
  BY DEF QuorumTypeOK
<1>2. Proposers(c, s) \in SUBSET Chain /\ Proposers(c, s)' \in SUBSET Chain
  BY <1>1 DEF Proposers
<1>3. Proposers(c, s) \subseteq Proposers(c, s)'
  BY <1>1 DEF Proposers
<1> HIDE DEF Proposers
<1>4. Cardinality(Proposers(c, s)') >= quorumThreshold[c]
  BY <1>1, <1>2, <1>3, MoreChains
<1> QED
  BY <1>4

\* A vote that arrives, of a chain that proposed it.
LEMMA VoteKeeps ==
  ASSUME IInv, QuorumTypeOK', NEW c \in Chain, NEW d \in Chain, NEW s \in Symbol, NEW p \in Params,
         Vote(c, d, s, p), UNCHANGED quorumSettings,
         \A e \in Chain, t \in Symbol : proposed[e][t] \subseteq proposed'[e][t],
         p \in proposed'[d][s]
  PROVE  VotesProposed' /\ QuorumBacked'
<1> DEFINE cast == [votes[c][s] EXCEPT ![d] = [params |-> p, at |-> now]]
           reached == Cardinality(Matching(c, cast, p)) >= quorumThreshold[c]
<1>1. /\ votes' = [votes EXCEPT ![c][s] = cast]
      /\ \/ reached /\ applyConfig(c, s, p) /\ backed' = [backed EXCEPT ![c] = @ \cup {s}]
         \/ ~ reached /\ UNCHANGED <<adapter, backed>>
  BY DEF Vote
<1>2. /\ votes \in [Chain -> [Symbol -> [Chain -> [params : Params \cup {None}, at : Nat]]]]
      /\ now \in Nat /\ peers \in [Chain -> SUBSET Chain] /\ quorumThreshold \in [Chain -> Nat]
      /\ backed \in [Chain -> SUBSET Symbol] /\ AdapterTypeOK
      /\ peers' = peers /\ quorumThreshold' = quorumThreshold
  BY DEF IInv, QuorumTypeOK, quorumSettings
<1>3. \A e \in Chain : cast[e].params # None => cast[e].params \in proposed'[e][s]
  <2>1. votes[c][s] \in [Chain -> [params : Params \cup {None}, at : Nat]]
    BY <1>2
  <2>2. ASSUME NEW e \in Chain, votes[c][s][e].params # None
        PROVE  votes[c][s][e].params \in proposed'[e][s]
    BY <2>2 DEF IInv, VotesProposed
  <2>3. cast[d].params = p /\ \A e \in Chain : e # d => cast[e] = votes[c][s][e]
    BY <2>1
  <2> HIDE DEF cast
  <2> QED
    BY <2>2, <2>3
<1>4. VotesProposed'
  <2> SUFFICES ASSUME NEW b \in Chain, NEW e \in Chain, NEW t \in Symbol,
                      votes'[b][t][e].params # None
               PROVE  votes'[b][t][e].params \in proposed'[e][t]
    BY DEF VotesProposed
  <2>1. CASE b = c /\ t = s
    <3>1. votes'[b][t] = cast
      BY <1>1, <1>2, <2>1
    <3> QED
      BY <3>1, <1>3, <2>1
  <2>2. CASE ~ (b = c /\ t = s)
    <3>1. votes'[b][t] = votes[b][t]
      BY <1>1, <1>2, <2>2
    <3> QED
      BY <3>1 DEF IInv, VotesProposed
  <2> QED
    BY <2>1, <2>2
<1>5. ASSUME NEW b \in Chain, NEW t \in backed[b],
             config'[b][t].params = config[b][t].params, config'[b][t].active = config[b][t].active
      PROVE  config'[b][t].active /\ Cardinality(Proposers(b, t)') >= quorumThreshold'[b]
  <2>1. config[b][t].active /\ Cardinality(Proposers(b, t)) >= quorumThreshold[b]
    BY <1>5 DEF IInv, QuorumBacked
  <2>2. t \in Symbol
    BY <1>2
  <2> QED
    BY <1>2, <1>5, <2>1, <2>2, StaysBacked DEF IInv
<1>6. CASE ~ reached /\ UNCHANGED <<adapter, backed>>
  BY <1>4, <1>5, <1>6 DEF adapter, QuorumBacked
<1>7. CASE reached /\ applyConfig(c, s, p) /\ backed' = [backed EXCEPT ![c] = @ \cup {s}]
  <2>1. LocalFeed(c, s) \in FeedOrNone
    BY <1>2 DEF LocalFeed, FeedOrNone, AdapterTypeOK
  <2>2. /\ config'[c][s].active /\ config'[c][s].params = p
        /\ \A b \in Chain, t \in Symbol : <<b, t>> # <<c, s>> => config'[b][t] = config[b][t]
    BY <1>2, <1>7, <2>1, Configured DEF applyConfig
  <2>3. /\ Matching(c, cast, p) \in SUBSET Chain /\ Proposers(c, s)' \in SUBSET Chain
        /\ Matching(c, cast, p) \subseteq Proposers(c, s)'
    <3>1. p # None
      BY QuorumConstants
    <3> HIDE DEF cast
    <3> QED
      BY <1>2, <1>3, <2>2, <3>1 DEF Matching, Proposers
  <2> HIDE DEF Matching, Proposers, cast
  <2>4. Cardinality(Proposers(c, s)') >= quorumThreshold'[c]
    BY <1>2, <1>7, <2>3, MoreChains
  <2>5. ASSUME NEW b \in Chain, NEW t \in backed'[b], <<b, t>> # <<c, s>>
        PROVE  config'[b][t].active /\ Cardinality(Proposers(b, t)') >= quorumThreshold'[b]
    <3>1. t \in backed[b] /\ t \in Symbol
      BY <1>2, <1>7, <2>5
    <3> QED
      BY <1>5, <2>2, <2>5, <3>1
  <2> QED
    BY <1>4, <2>2, <2>4, <2>5 DEF QuorumBacked
<1> QED
  BY <1>1, <1>4, <1>6, <1>7

LEMMA AdapterStays ==
  ASSUME AdapterTypeOK, AdapterExact, UNCHANGED adapter
  PROVE  AdapterTypeOK' /\ AdapterExact'
<1>1. config' = config /\ configHash' = configHash /\ assetList' = assetList
      /\ canonicalMode' = canonicalMode
  BY DEF adapter
<1>2. AdapterTypeOK'
  BY <1>1 DEF AdapterTypeOK
<1>3. AdapterExact'
  BY <1>1 DEF AdapterExact, HashExact, ActiveListed, Active
<1> QED
  BY <1>2, <1>3

\* The types a vote leaves, and the settings with their hash.
LEMMA VoteTyped ==
  ASSUME QuorumTypeOK, AdapterExact, NEW c \in Chain, NEW d \in Chain, NEW s \in Symbol,
         NEW p \in Params, Vote(c, d, s, p)
  PROVE  /\ AdapterTypeOK' /\ AdapterExact'
         /\ votes' \in [Chain -> [Symbol -> [Chain -> [params : Params \cup {None}, at : Nat]]]]
         /\ backed' \in [Chain -> SUBSET Symbol] /\ fresh' \in [Chain -> SUBSET Symbol]
<1> USE DEF QuorumTypeOK
<1>1. /\ votes' \in [Chain -> [Symbol -> [Chain -> [params : Params \cup {None}, at : Nat]]]]
      /\ fresh' \in [Chain -> SUBSET Symbol]
  BY DEF Vote
<1>2. CASE applyConfig(c, s, p) /\ backed' = [backed EXCEPT ![c] = @ \cup {s}]
  <2>1. LocalFeed(c, s) \in FeedOrNone
    BY DEF LocalFeed, FeedOrNone, AdapterTypeOK
  <2>2. AdapterTypeOK' /\ AdapterExact'
    BY <1>2, <2>1, Configured, ConfigureExact DEF applyConfig
  <2> QED
    BY <1>1, <1>2, <2>2
<1>3. CASE UNCHANGED <<adapter, backed>>
  <2>1. AdapterTypeOK' /\ AdapterExact'
    BY <1>3, AdapterStays
  <2> QED
    BY <1>1, <1>3, <2>1
<1> QED
  BY <1>2, <1>3 DEF Vote

LEMMA AppendedElements ==
  ASSUME NEW S, NEW list \in Seq(S), NEW m \in S
  PROVE  /\ Append(list, m) \in Seq(S)
         /\ \A i \in DOMAIN Append(list, m) :
              Append(list, m)[i] = m \/ (i \in DOMAIN list /\ Append(list, m)[i] = list[i])
OBVIOUS

LEMMA TailElements ==
  ASSUME NEW S, NEW list \in Seq(S), list # <<>>
  PROVE  /\ Tail(list) \in Seq(S) /\ Head(list) = list[1] /\ 1 \in DOMAIN list
         /\ \A i \in DOMAIN Tail(list) : i + 1 \in DOMAIN list /\ Tail(list)[i] = list[i + 1]
OBVIOUS

LEMMA ProposeKeeps ==
  ASSUME IInv, NEW c \in Chain, NEW s \in Symbol, NEW p \in Params, proposeConfig(c, s, p)
  PROVE  IInv'
<1> DEFINE m == [symbol |-> s, params |-> p, id |-> proposals]
<1>1. /\ Vote(c, c, s, p) /\ UNCHANGED <<now, quorumSettings, failed>>
      /\ lane' = Broadcast(c, m) /\ troubled' \in BOOLEAN
      /\ proposed' = [proposed EXCEPT ![c][s] = @ \cup {p}] /\ proposals' = proposals + 1
  BY DEF proposeConfig, IInv, QuorumTypeOK
<1>2. QuorumTypeOK /\ AdapterExact
  BY DEF IInv
<1>3. /\ AdapterTypeOK' /\ AdapterExact'
      /\ votes' \in [Chain -> [Symbol -> [Chain -> [params : Params \cup {None}, at : Nat]]]]
      /\ backed' \in [Chain -> SUBSET Symbol] /\ fresh' \in [Chain -> SUBSET Symbol]
  BY <1>1, <1>2, VoteTyped
<1>4. /\ proposed' \in [Chain -> [Symbol -> SUBSET Params]] /\ p \in proposed'[c][s]
      /\ \A e \in Chain, t \in Symbol : proposed[e][t] \subseteq proposed'[e][t]
  BY <1>1, <1>2 DEF QuorumTypeOK
<1>5. ASSUME NEW l \in Lane
      PROVE  /\ lane'[l] \in Seq(Message)
             /\ \A i \in DOMAIN lane'[l] :
                  lane'[l][i].params \in proposed'[l[1]][lane'[l][i].symbol]
  <2>1. m \in Message /\ lane[l] \in Seq(Message) /\ m.symbol = s /\ m.params = p
    BY <1>2 DEF QuorumTypeOK, Message
  <2>2. l[1] \in Chain
    BY DEF Lane
  <2>3. \A i \in DOMAIN lane[l] : /\ lane[l][i].params \in proposed[l[1]][lane[l][i].symbol]
                                  /\ lane[l][i].symbol \in Symbol
    <3>1. \A i \in DOMAIN lane[l] : lane[l][i].params \in proposed[l[1]][lane[l][i].symbol]
      BY DEF IInv, LaneProposed
    <3>2. \A i \in DOMAIN lane[l] : lane[l][i] \in Message
      BY <2>1
    <3> QED
      BY <3>1, <3>2 DEF Message
  <2>4. \A i \in DOMAIN lane[l] : lane[l][i].params \in proposed'[l[1]][lane[l][i].symbol]
    BY <1>4, <2>2, <2>3
  <2> HIDE DEF m
  <2>5. CASE l[1] = c /\ l[2] \in peers[c]
    <3>1. lane'[l] = Append(lane[l], m)
      BY <1>1, <2>5 DEF Broadcast
    <3> QED
      BY <1>4, <2>1, <2>4, <2>5, <3>1, AppendedElements
  <2>6. CASE ~ (l[1] = c /\ l[2] \in peers[c])
    BY <1>1, <2>1, <2>4, <2>6 DEF Broadcast
  <2> QED
    BY <2>5, <2>6
<1>6. lane' = [l \in Lane |-> lane'[l]]
  BY <1>1 DEF Broadcast
<1>7. QuorumTypeOK'
  BY <1>1, <1>2, <1>3, <1>4, <1>5, <1>6 DEF QuorumTypeOK, quorumSettings
<1>8. VotesProposed' /\ QuorumBacked'
  BY <1>1, <1>4, <1>7, VoteKeeps
<1>9. FailedProposed'
  <2>1. \A f \in failed : f[1] \in Chain /\ f[3].symbol \in Symbol
    BY <1>2 DEF QuorumTypeOK, Message
  <2> QED
    BY <1>1, <1>4, <2>1 DEF IInv, FailedProposed
<1> QED
  BY <1>3, <1>5, <1>7, <1>8, <1>9 DEF IInv, LaneProposed

\* A message is received, from a lane or by hand; whichever, it goes away.
LEMMA ReceiveKeeps ==
  ASSUME IInv, NEW d \in Chain, NEW c \in Chain, NEW m \in Message, Receive(d, c, m),
         m.params \in proposed[d][m.symbol],
         UNCHANGED <<now, quorumSettings, proposed, proposals, troubled>>,
         lane' \in [Lane -> Seq(Message)], failed' \subseteq failed,
         LaneProposed'
  PROVE  IInv'
<1>1. /\ Vote(c, d, m.symbol, m.params) /\ m.symbol \in Symbol /\ m.params \in Params
      /\ m.params \in proposed'[d][m.symbol] /\ UNCHANGED quorumSettings
      /\ \A e \in Chain, t \in Symbol : proposed[e][t] \subseteq proposed'[e][t]
  BY DEF Receive, Message
<1>2. QuorumTypeOK /\ AdapterExact
  BY DEF IInv
<1>3. /\ AdapterTypeOK' /\ AdapterExact'
      /\ votes' \in [Chain -> [Symbol -> [Chain -> [params : Params \cup {None}, at : Nat]]]]
      /\ backed' \in [Chain -> SUBSET Symbol] /\ fresh' \in [Chain -> SUBSET Symbol]
  BY <1>1, <1>2, VoteTyped
<1>4. QuorumTypeOK'
  BY <1>2, <1>3 DEF QuorumTypeOK, quorumSettings
<1>5. VotesProposed' /\ QuorumBacked'
  BY <1>1, <1>4, VoteKeeps
<1>6. FailedProposed'
  BY DEF IInv, FailedProposed
<1> QED
  BY <1>3, <1>4, <1>5, <1>6 DEF IInv

LEMMA ExecuteKeeps ==
  ASSUME IInv, NEW d \in Chain, NEW c \in Chain, d # c, Execute(d, c)
  PROVE  IInv'
<1> DEFINE l == <<d, c>>
           m == Head(lane[l])
<1>1. /\ lane[l] # <<>> /\ lane' = [lane EXCEPT ![l] = Tail(@)]
      /\ \/ Receive(d, c, m) /\ UNCHANGED <<failed, troubled>>
         \/ /\ failed' = failed \cup {<<d, c, m>>} /\ troubled' = TRUE
            /\ UNCHANGED <<adapter, votes, backed, fresh>>
      /\ UNCHANGED <<now, quorumSettings, proposed, proposals>>
  BY DEF Execute
<1>2. l \in Lane /\ l[1] = d /\ lane \in [Lane -> Seq(Message)]
  BY DEF Lane, IInv, QuorumTypeOK
<1> HIDE DEF l
<1>3. /\ Tail(lane[l]) \in Seq(Message) /\ m = lane[l][1] /\ 1 \in DOMAIN lane[l]
      /\ \A i \in DOMAIN Tail(lane[l]) :
           i + 1 \in DOMAIN lane[l] /\ Tail(lane[l])[i] = lane[l][i + 1]
  BY <1>1, <1>2, TailElements
<1>4. m \in Message
  BY <1>2, <1>3
<1>5. m.params \in proposed[d][m.symbol]
  BY <1>2, <1>3 DEF IInv, LaneProposed
<1> HIDE DEF m
<1>6. lane' \in [Lane -> Seq(Message)] /\ lane'[l] = Tail(lane[l])
      /\ \A k \in Lane : k # l => lane'[k] = lane[k]
  BY <1>1, <1>2, <1>3
<1>7. LaneProposed'
  <2> SUFFICES ASSUME NEW k \in Lane, NEW i \in DOMAIN lane'[k]
               PROVE  lane'[k][i].params \in proposed'[k[1]][lane'[k][i].symbol]
    BY DEF LaneProposed
  <2>1. CASE k = l
    <3>1. i + 1 \in DOMAIN lane[k] /\ lane'[k][i] = lane[k][i + 1]
      BY <1>3, <1>6, <2>1
    <3> QED
      BY <1>1, <3>1 DEF IInv, LaneProposed
  <2>2. CASE k # l
    BY <1>1, <1>6, <2>2 DEF IInv, LaneProposed
  <2> QED
    BY <2>1, <2>2
<1>8. CASE Receive(d, c, m) /\ UNCHANGED <<failed, troubled>>
  BY <1>1, <1>4, <1>5, <1>6, <1>7, <1>8, ReceiveKeeps
<1>9. CASE /\ failed' = failed \cup {<<d, c, m>>} /\ troubled' = TRUE
           /\ UNCHANGED <<adapter, votes, backed, fresh>>
  <2>1. AdapterTypeOK' /\ AdapterExact' /\ config' = config
    BY <1>9, AdapterStays DEF IInv, QuorumTypeOK, adapter
  <2>2. QuorumTypeOK'
    BY <1>1, <1>4, <1>6, <1>9, <2>1 DEF IInv, QuorumTypeOK, quorumSettings
  <2>3. FailedProposed'
    BY <1>1, <1>5, <1>9 DEF IInv, FailedProposed
  <2>4. VotesProposed' /\ QuorumBacked'
    BY <1>1, <1>9, <2>1 DEF IInv, VotesProposed, QuorumBacked, Proposers, quorumSettings
  <2> QED
    BY <1>7, <2>1, <2>2, <2>3, <2>4 DEF IInv
<1> QED
  BY <1>1, <1>8, <1>9

LEMMA ExecuteByHandKeeps ==
  ASSUME IInv, NEW f \in failed, ExecuteByHand(f)
  PROVE  IInv'
<1>1. f[1] \in Chain /\ f[2] \in Chain /\ f[3] \in Message
  BY DEF IInv, QuorumTypeOK
<1>2. f[3].params \in proposed[f[1]][f[3].symbol]
  BY DEF IInv, FailedProposed
<1>3. /\ Receive(f[1], f[2], f[3]) /\ failed' \subseteq failed
      /\ UNCHANGED <<now, quorumSettings, lane, proposed, proposals, troubled>>
  BY DEF ExecuteByHand
<1>4. lane' \in [Lane -> Seq(Message)] /\ LaneProposed'
  BY <1>3 DEF IInv, QuorumTypeOK, LaneProposed
<1> QED
  BY <1>1, <1>2, <1>3, <1>4, ReceiveKeeps

-----------------------------------------------------------------------------
(* Owners.                                                                 *)

\* A step that votes nothing: assets whose settings or quorum it changes are
\* backed no longer.
LEMMA QuietKeeps ==
  ASSUME IInv, QuorumTypeOK', AdapterExact', UNCHANGED <<votes, ccip, proposed>>,
         \A c \in Chain : \A s \in backed'[c] :
            /\ s \in backed[c] /\ peers'[c] = peers[c] /\ quorumThreshold'[c] = quorumThreshold[c]
            /\ config'[c][s].params = config[c][s].params
            /\ config'[c][s].active = config[c][s].active
  PROVE  IInv'
<1>1. VotesProposed' /\ LaneProposed' /\ FailedProposed'
  BY DEF IInv, VotesProposed, LaneProposed, FailedProposed, ccip
<1>2. QuorumTypeOK
  BY DEF IInv
<1>3. QuorumBacked'
  <2> SUFFICES ASSUME NEW c \in Chain, NEW s \in backed'[c]
               PROVE  config'[c][s].active /\ Cardinality(Proposers(c, s)') >= quorumThreshold'[c]
    BY DEF QuorumBacked
  <2>1. s \in backed[c] /\ s \in Symbol
    BY <1>2 DEF QuorumTypeOK
  <2>2. config[c][s].active /\ Cardinality(Proposers(c, s)) >= quorumThreshold[c]
    BY <2>1 DEF IInv, QuorumBacked
  <2>3. \A d \in Chain : proposed[d][s] \subseteq proposed'[d][s]
    OBVIOUS
  <2> QED
    BY <1>2, <2>1, <2>2, <2>3, StaysBacked
<1> QED
  BY <1>1, <1>3 DEF IInv

LEMMA ForceKeeps ==
  ASSUME IInv, NEW c \in Chain, NEW s \in Symbol, NEW p \in Params, forceApplyConfig(c, s, p)
  PROVE  IInv'
<1>1. /\ applyConfig(c, s, p) /\ backed' = [backed EXCEPT ![c] = @ \ {s}]
      /\ fresh' = [fresh EXCEPT ![c] = @ \ {s}]
      /\ UNCHANGED <<now, votes, quorumSettings, ccip, proposed, proposals, troubled>>
  BY DEF forceApplyConfig, Anew
<1>2. QuorumTypeOK /\ AdapterTypeOK /\ AdapterExact
  BY DEF IInv, QuorumTypeOK
<1>3. LocalFeed(c, s) \in FeedOrNone
  BY <1>2 DEF LocalFeed, FeedOrNone, AdapterTypeOK
<1>4. /\ AdapterTypeOK' /\ AdapterExact'
      /\ \A d \in Chain, t \in Symbol : <<d, t>> # <<c, s>> => config'[d][t] = config[d][t]
  BY <1>1, <1>2, <1>3, Configured, ConfigureExact DEF applyConfig
<1>5. QuorumTypeOK'
  BY <1>1, <1>2, <1>4 DEF QuorumTypeOK, quorumSettings, ccip
<1>6. \A d \in Chain : \A t \in backed'[d] : t \in backed[d] /\ t \in Symbol /\ <<d, t>> # <<c, s>>
  BY <1>1, <1>2 DEF QuorumTypeOK
<1> QED
  BY <1>1, <1>4, <1>5, <1>6, QuietKeeps DEF quorumSettings

\* What concerns the whole quorum of a chain ends all it gave.
LEMMA QuorumChangeKeeps ==
  ASSUME IInv, NEW c \in Chain, Anew(c, Symbol),
         peers' \in [Chain -> SUBSET Chain], quorumThreshold' \in [Chain -> Nat],
         proposalTtl' \in [Chain -> Nat],
         \A d \in Chain : d # c => peers'[d] = peers[d] /\ quorumThreshold'[d] = quorumThreshold[d],
         UNCHANGED <<adapter, now, votes, ccip, proposed, proposals, troubled>>
  PROVE  IInv'
<1>1. QuorumTypeOK /\ AdapterTypeOK /\ AdapterExact
  BY DEF IInv, QuorumTypeOK
<1>2. AdapterTypeOK' /\ AdapterExact' /\ config' = config
  BY <1>1, AdapterStays DEF adapter
<1>3. QuorumTypeOK'
  BY <1>1, <1>2 DEF QuorumTypeOK, Anew, ccip
<1>4. \A d \in Chain : \A t \in backed'[d] : t \in backed[d] /\ d # c
  BY <1>1 DEF QuorumTypeOK, Anew
<1> QED
  BY <1>2, <1>3, <1>4, QuietKeeps

LEMMA QuorumOwnerKeeps ==
  ASSUME IInv, QuorumOwnerStep
  PROVE  IInv'
<1>1. PICK c \in Chain :
        \/ \E s \in Symbol, p \in Params : forceApplyConfig(c, s, p)
        \/ \E d \in Chain : addPeer(c, d) \/ removePeer(c, d)
        \/ \E n \in 1..Cardinality(Chain) : setQuorumThreshold(c, n)
        \/ \E ttl \in Ttl : setProposalTtl(c, ttl)
  BY DEF QuorumOwnerStep
<1>2. /\ peers \in [Chain -> SUBSET Chain] /\ quorumThreshold \in [Chain -> Nat]
      /\ proposalTtl \in [Chain -> Nat]
  BY DEF IInv, QuorumTypeOK
<1>3. CASE \E s \in Symbol, p \in Params : forceApplyConfig(c, s, p)
  BY <1>3, ForceKeeps
<1>4. CASE \E d \in Chain : addPeer(c, d) \/ removePeer(c, d)
  <2>1. /\ Anew(c, Symbol) /\ peers' \in [Chain -> SUBSET Chain]
        /\ UNCHANGED <<adapter, now, votes, quorumThreshold, proposalTtl, ccip,
                       proposed, proposals, troubled>>
        /\ \A d \in Chain : d # c => peers'[d] = peers[d]
    BY <1>2, <1>4 DEF addPeer, removePeer
  <2> QED
    BY <1>2, <2>1, QuorumChangeKeeps
<1>5. CASE \E n \in 1..Cardinality(Chain) : setQuorumThreshold(c, n)
  <2>1. /\ Anew(c, Symbol) /\ quorumThreshold' \in [Chain -> Nat]
        /\ UNCHANGED <<adapter, now, votes, peers, proposalTtl, ccip,
                       proposed, proposals, troubled>>
        /\ \A d \in Chain : d # c => quorumThreshold'[d] = quorumThreshold[d]
    <3>1. PICK n \in 1..Cardinality(Chain) : setQuorumThreshold(c, n)
      BY <1>5
    <3>2. n \in Nat
      OBVIOUS
    <3> QED
      BY <1>2, <3>1, <3>2 DEF setQuorumThreshold
  <2> QED
    BY <1>2, <2>1, QuorumChangeKeeps
<1>6. CASE \E ttl \in Ttl : setProposalTtl(c, ttl)
  <2>1. /\ Anew(c, Symbol) /\ proposalTtl' \in [Chain -> Nat]
        /\ UNCHANGED <<adapter, now, votes, peers, quorumThreshold, ccip,
                       proposed, proposals, troubled>>
    BY <1>2, <1>6, QuorumConstants DEF setProposalTtl
  <2> QED
    BY <1>2, <2>1, QuorumChangeKeeps
<1> QED
  BY <1>1, <1>3, <1>4, <1>5, <1>6

LEMMA AdapterAdminKeeps ==
  ASSUME IInv, NEW c \in Chain, AdapterAdmin(c)
  PROVE  IInv'
<1>1. /\ UNCHANGED <<now, votes, quorumSettings, ccip, proposed, proposals, troubled>>
      /\ \/ \E s \in Symbol :
              /\ Anew(c, {s})
              /\ \/ \E p \in Params, feed \in FeedOrNone : configureAsset(c, "admin", s, feed, p)
                 \/ deactivateAsset(c, s)
         \/ \E s \in Symbol, feed \in Feed :
              setLocalFeedAddress(c, s, feed) /\ UNCHANGED <<backed, fresh>>
         \/ \E on \in BOOLEAN : setCanonicalMode(c, on) /\ UNCHANGED <<backed, fresh>>
  BY DEF AdapterAdmin, FeedOrNone
<1>2. QuorumTypeOK /\ AdapterTypeOK /\ AdapterExact
  BY DEF IInv, QuorumTypeOK
<1>3. CASE \E s \in Symbol :
              /\ Anew(c, {s})
              /\ \/ \E p \in Params, feed \in FeedOrNone : configureAsset(c, "admin", s, feed, p)
                 \/ deactivateAsset(c, s)
  <2>1. PICK s \in Symbol :
              /\ Anew(c, {s})
              /\ \/ \E p \in Params, feed \in FeedOrNone : configureAsset(c, "admin", s, feed, p)
                 \/ deactivateAsset(c, s)
    BY <1>3
  <2>2. /\ AdapterTypeOK' /\ AdapterExact'
        /\ \A d \in Chain, t \in Symbol : <<d, t>> # <<c, s>> => config'[d][t] = config[d][t]
    BY <1>2, <2>1, Configured, ConfigureExact, DeactivateExact
  <2>3. QuorumTypeOK'
    BY <1>1, <1>2, <2>1, <2>2 DEF QuorumTypeOK, quorumSettings, ccip, Anew
  <2>4. \A d \in Chain : \A t \in backed'[d] : t \in backed[d] /\ t \in Symbol /\ <<d, t>> # <<c, s>>
    BY <1>2, <2>1 DEF QuorumTypeOK, Anew
  <2> QED
    BY <1>1, <2>2, <2>3, <2>4, QuietKeeps DEF quorumSettings
<1>4. CASE \/ \E s \in Symbol, feed \in Feed :
                setLocalFeedAddress(c, s, feed) /\ UNCHANGED <<backed, fresh>>
           \/ \E on \in BOOLEAN : setCanonicalMode(c, on) /\ UNCHANGED <<backed, fresh>>
  <2>1. /\ AdapterTypeOK' /\ AdapterExact' /\ UNCHANGED <<backed, fresh>>
        /\ \A d \in Chain, t \in Symbol : /\ config'[d][t].params = config[d][t].params
                                          /\ config'[d][t].active = config[d][t].active
    BY <1>2, <1>4, LocalFeedExact, CanonicalExact
  <2>2. QuorumTypeOK'
    BY <1>1, <1>2, <2>1 DEF QuorumTypeOK, quorumSettings, ccip
  <2>3. \A d \in Chain : \A t \in backed'[d] : t \in backed[d] /\ t \in Symbol
    BY <1>2, <2>1 DEF QuorumTypeOK
  <2> QED
    BY <1>1, <2>1, <2>2, <2>3, QuietKeeps DEF quorumSettings
<1> QED
  BY <1>1, <1>3, <1>4

LEMMA StillKeeps ==
  ASSUME IInv, Tick \/ UNCHANGED quorumVars
  PROVE  IInv'
<1>1. /\ UNCHANGED <<adapter, votes, quorumSettings, ccip, history>> /\ now' \in Nat
      /\ QuorumTypeOK /\ AdapterTypeOK /\ AdapterExact
  BY DEF IInv, QuorumTypeOK, Tick, quorumVars
<1>2. AdapterTypeOK' /\ AdapterExact' /\ config' = config
  BY <1>1, AdapterStays DEF adapter
<1>3. QuorumTypeOK'
  BY <1>1, <1>2 DEF QuorumTypeOK, quorumSettings, ccip, history
<1>4. \A d \in Chain : \A t \in backed'[d] : t \in backed[d]
  BY <1>1 DEF history
<1> QED
  BY <1>1, <1>2, <1>3, <1>4, QuietKeeps DEF history, quorumSettings

-----------------------------------------------------------------------------

LEMMA QuorumInits ==
  ASSUME QuorumInit
  PROVE  IInv
<1>1. AdapterTypeOK
  BY DEF QuorumInit, AdapterInit, AdapterTypeOK
<1>2. \A c \in Chain : Active(c) = {} /\ configHash[c] = {}
  BY DEF QuorumInit, AdapterInit, Active
<1>3. AdapterExact
  BY <1>2 DEF AdapterExact, HashExact, ActiveListed
<1>4. QuorumTypeOK
  <2>1. quorumThreshold \in [Chain -> Nat] /\ proposalTtl \in [Chain -> Nat]
    <3>1. \A n \in 1..Cardinality(Chain) : n \in Nat
      OBVIOUS
    <3> QED
      BY <3>1, QuorumConstants DEF QuorumInit
  <2>2. votes \in [Chain -> [Symbol -> [Chain -> [params : Params \cup {None}, at : Nat]]]]
    BY DEF QuorumInit, NoVote
  <2>3. lane \in [Lane -> Seq(Message)]
    <3>1. <<>> \in Seq(Message)
      OBVIOUS
    <3> QED
      BY <3>1 DEF QuorumInit
  <2> QED
    BY <1>1, <2>1, <2>2, <2>3 DEF QuorumInit, QuorumTypeOK
<1>5. VotesProposed /\ LaneProposed /\ FailedProposed
  BY DEF QuorumInit, VotesProposed, LaneProposed, FailedProposed, NoVote
<1>6. QuorumBacked
  BY DEF QuorumInit, QuorumBacked
<1> QED
  BY <1>3, <1>4, <1>5, <1>6 DEF IInv

LEMMA QuorumSteps ==
  ASSUME IInv, [QuorumNext]_quorumVars
  PROVE  IInv'
<1>1. CASE \E c \in Chain, s \in Symbol, p \in Params : proposeConfig(c, s, p)
  BY <1>1, ProposeKeeps
<1>2. CASE \E d, c \in Chain : d # c /\ Execute(d, c)
  BY <1>2, ExecuteKeeps
<1>3. CASE \E f \in failed : ExecuteByHand(f)
  BY <1>3, ExecuteByHandKeeps
<1>4. CASE QuorumOwnerStep
  BY <1>4, QuorumOwnerKeeps
<1>5. CASE AdapterStep
  BY <1>5, AdapterAdminKeeps DEF AdapterStep
<1>6. CASE Tick \/ UNCHANGED quorumVars
  BY <1>6, StillKeeps
<1> QED
  BY <1>1, <1>2, <1>3, <1>4, <1>5, <1>6 DEF QuorumNext, VoteStep

\* Everything keeps its type, however many votes are cast, lost and repeated.
THEOREM QuorumTyped == QuorumSpec => []QuorumTypeOK
<1>1. IInv => QuorumTypeOK
  BY DEF IInv
<1> QED
  BY <1>1, QuorumInits, QuorumSteps, PTL DEF QuorumSpec

\* On every chain the settings hash is that of the active assets, and the list
\* has them all, after any configurations by hand and by quorum, deactivations
\* and changes of feeds (OracleAdapter.sol configureAsset, deactivateAsset,
\* setLocalFeedAddress).
THEOREM SettingsExact == QuorumSpec => []AdapterExact
<1>1. IInv => AdapterExact
  BY DEF IInv
<1> QED
  BY <1>1, QuorumInits, QuorumSteps, PTL DEF QuorumSpec

\* Settings that a quorum gave and nobody changed since were proposed by as many
\* of the chain's peers, or itself, as its threshold says, for any number of
\* chains, votes, lost messages and messages executed late
\* (OracleConfigQuorum.sol _ccipReceive, _countMatchingVotes).
THEOREM QuorumIsBacked == QuorumSpec => []QuorumBacked
<1>1. IInv => QuorumBacked
  BY DEF IInv
<1> QED
  BY <1>1, QuorumInits, QuorumSteps, PTL DEF QuorumSpec

-----------------------------------------------------------------------------
(* Agreement.  Between two chains that had no trouble, the last message    *)
(* under way about an asset carries the sender's own vote; where there is  *)
(* none, the receiver holds it.                                            *)

LastSays(list, s, own, heard) ==
  \/ \E i \in DOMAIN list :
       /\ list[i].symbol = s /\ list[i].params = own
       /\ \A j \in DOMAIN list : j > i => list[j].symbol # s
  \/ (\A i \in DOMAIN list : list[i].symbol # s) /\ heard = own

LEMMA SaysAppended ==
  ASSUME NEW list \in Seq(Message), NEW m \in Message, NEW s, NEW own, NEW heard,
         LastSays(list, s, own, heard)
  PROVE  LastSays(Append(list, m), s, IF m.symbol = s THEN m.params ELSE own, heard)
<1> DEFINE longer == Append(list, m)
           last == Len(list) + 1
<1>1. /\ longer \in Seq(Message) /\ Len(list) \in Nat
      /\ DOMAIN longer = 1..last /\ DOMAIN list = 1..Len(list) /\ last \in DOMAIN longer
      /\ longer[last] = m /\ \A i \in DOMAIN list : i \in DOMAIN longer /\ longer[i] = list[i]
  OBVIOUS
<1>2. \A i \in DOMAIN longer : i \in DOMAIN list \/ i = last
  BY <1>1
<1>3. \A i \in DOMAIN longer : ~ i > last
  BY <1>1
<1>4. \A i \in DOMAIN list, j \in DOMAIN longer : j > i => j = last \/ j \in DOMAIN list
  BY <1>2
<1> HIDE DEF longer, last
<1>5. CASE m.symbol = s
  <2>1. longer[last].symbol = s /\ longer[last].params = m.params
    BY <1>1, <1>5
  <2>2. \A j \in DOMAIN longer : j > last => longer[j].symbol # s
    BY <1>3
  <2> QED
    BY <1>1, <1>5, <2>1, <2>2 DEF LastSays, longer
<1>6. CASE m.symbol # s
  <2>1. CASE \A i \in DOMAIN list : list[i].symbol # s
    BY <1>1, <1>2, <1>6, <2>1 DEF LastSays, longer
  <2>2. ASSUME NEW i \in DOMAIN list, list[i].symbol = s, list[i].params = own,
               \A j \in DOMAIN list : j > i => list[j].symbol # s
        PROVE  LastSays(longer, s, own, heard)
    <3>1. i \in DOMAIN longer /\ longer[i].symbol = s /\ longer[i].params = own
      BY <1>1, <2>2
    <3>2. ASSUME NEW j \in DOMAIN longer, j > i PROVE longer[j].symbol # s
      BY <1>1, <1>2, <1>6, <2>2, <3>2
    <3> QED
      BY <3>1, <3>2 DEF LastSays
  <2> QED
    BY <1>6, <2>1, <2>2 DEF LastSays, longer
<1> QED
  BY <1>5, <1>6

LEMMA SaysTaken ==
  ASSUME NEW list \in Seq(Message), list # <<>>, NEW s, NEW own, NEW heard,
         LastSays(list, s, own, heard)
  PROVE  LastSays(Tail(list), s, own,
                  IF Head(list).symbol = s THEN Head(list).params ELSE heard)
<1> DEFINE rest == Tail(list)
           after == IF Head(list).symbol = s THEN Head(list).params ELSE heard
<1>1. /\ DOMAIN list = 1..Len(list) /\ Len(list) \in Nat /\ 1 \in DOMAIN list /\ Head(list) = list[1]
      /\ DOMAIN rest = 1..(Len(list) - 1)
      /\ \A i \in DOMAIN rest : i + 1 \in DOMAIN list /\ rest[i] = list[i + 1]
  OBVIOUS
<1>2. \A i \in DOMAIN list : i # 1 => i - 1 \in DOMAIN rest /\ rest[i - 1] = list[i]
  BY <1>1
<1>3. \A i \in DOMAIN rest : i \in Int /\ i + 1 > 1
  BY <1>1
<1>4. \A i \in DOMAIN list, j \in DOMAIN rest : j > i - 1 => j + 1 > i
  BY <1>1
<1> HIDE DEF rest
<1>5. CASE \A i \in DOMAIN list : list[i].symbol # s
  BY <1>1, <1>5 DEF LastSays, rest
<1>6. ASSUME NEW i \in DOMAIN list, list[i].symbol = s, list[i].params = own,
             \A j \in DOMAIN list : j > i => list[j].symbol # s
      PROVE  LastSays(rest, s, own, after)
  <2>1. CASE i = 1
    <3>1. after = own
      BY <1>1, <1>6, <2>1
    <3>2. \A j \in DOMAIN rest : rest[j].symbol # s
      BY <1>1, <1>3, <1>6, <2>1
    <3> QED
      BY <3>1, <3>2 DEF LastSays
  <2>2. CASE i # 1
    <3>1. /\ i - 1 \in DOMAIN rest /\ rest[i - 1].symbol = s /\ rest[i - 1].params = own
      BY <1>2, <1>6, <2>2
    <3>2. \A j \in DOMAIN rest : j > i - 1 => rest[j].symbol # s
      BY <1>1, <1>4, <1>6
    <3> QED
      BY <3>1, <3>2 DEF LastSays
  <2> QED
    BY <2>1, <2>2
<1> QED
  BY <1>5, <1>6 DEF LastSays, rest

LanesTell ==
  ~ troubled => \A l \in Lane, s \in Symbol :
    LastSays(lane[l], s, votes[l[1]][s][l[1]].params, votes[l[2]][s][l[1]].params)

NoneFailed == ~ troubled => failed = {}

\* A vote bears the time when it came.
Stamped ==
  /\ 0 < now
  /\ \A c, d \in Chain, s \in Symbol :
       /\ votes[c][s][d].at <= now
       /\ votes[c][s][d].params # None => 0 < votes[c][s][d].at

Reachable == \A c \in Chain : quorumThreshold[c] <= Cardinality(Chain)

\* The last vote that came found all chains agreed, and was counted.
Unanimous(c, s, p) ==
  /\ peers[c] = Chain \ {c} /\ Timely(c, s)
  /\ \A d \in Chain : votes[c][s][d].params = p
FreshApplied ==
  \A c \in Chain, s \in Symbol, p \in Params :
    s \in fresh[c] /\ Unanimous(c, s, p) => config[c][s].active /\ config[c][s].params = p

AgreeInv == IInv /\ LanesTell /\ NoneFailed /\ Stamped /\ Reachable /\ FreshApplied

LEMMA AgreeEnough ==
  ASSUME AgreeInv
  PROVE  VotesAgree
<1> SUFFICES ASSUME ~ troubled, \A l \in Lane : lane[l] = <<>>,
                    \A c \in Chain : peers[c] = Chain \ {c},
                    NEW s \in Symbol, NEW p \in Params,
                    \A c \in Chain : votes[c][s][c].params = p /\ s \in fresh[c] /\ Timely(c, s),
                    NEW c \in Chain
             PROVE  config[c][s].active /\ config[c][s].params = p
  BY DEF VotesAgree
<1>1. ASSUME NEW d \in Chain
      PROVE  votes[c][s][d].params = p
  <2>1. CASE d = c
    BY <2>1
  <2>2. CASE d # c
    <3> DEFINE l == <<d, c>>
    <3>1. l \in Lane /\ l[1] = d /\ l[2] = c
      BY <2>2 DEF Lane
    <3> HIDE DEF l
    <3>2. LastSays(<<>>, s, votes[d][s][d].params, votes[c][s][d].params)
      BY <3>1 DEF AgreeInv, LanesTell
    <3> QED
      BY <3>2 DEF LastSays
  <2> QED
    BY <2>1, <2>2
<1>2. Unanimous(c, s, p)
  BY <1>1 DEF Unanimous
<1> QED
  BY <1>2 DEF AgreeInv, FreshApplied

\* A set of which one member is the greatest.
LEMMA LatestIs ==
  ASSUME NEW S \in SUBSET Nat, NEW n \in S, \A t \in S : t <= n
  PROVE  (CHOOSE t \in S : \A u \in S : u <= t) = n
<1> DEFINE t == CHOOSE u \in S : \A v \in S : v <= u
<1>1. t \in S /\ \A v \in S : v <= t
  OBVIOUS
<1> HIDE DEF t
<1>2. t = n
  BY <1>1
<1> QED
  BY <1>2 DEF t

\* A vote that comes in when all others are there, not too old, is counted with
\* them.
LEMMA VoteAgrees ==
  ASSUME AgreeInv, QuorumTypeOK', NEW c \in Chain, NEW d \in Chain, NEW s \in Symbol,
         NEW p \in Params, Vote(c, d, s, p), UNCHANGED <<now, quorumSettings>>
  PROVE  /\ Stamped' /\ Reachable' /\ FreshApplied'
         /\ votes'[c][s][d].params = p
         /\ \A b, e \in Chain, t \in Symbol :
              <<b, t, e>> # <<c, s, d>> => votes'[b][t][e] = votes[b][t][e]
<1> DEFINE cast == [votes[c][s] EXCEPT ![d] = [params |-> p, at |-> now]]
           reached == Cardinality(Matching(c, cast, p)) >= quorumThreshold[c]
<1>1. /\ votes' = [votes EXCEPT ![c][s] = cast]
      /\ fresh' = [fresh EXCEPT ![c] = @ \cup {s}]
      /\ \/ reached /\ applyConfig(c, s, p) /\ backed' = [backed EXCEPT ![c] = @ \cup {s}]
         \/ ~ reached /\ UNCHANGED <<adapter, backed>>
  BY DEF Vote
<1>2. /\ votes \in [Chain -> [Symbol -> [Chain -> [params : Params \cup {None}, at : Nat]]]]
      /\ now \in Nat /\ peers \in [Chain -> SUBSET Chain] /\ quorumThreshold \in [Chain -> Nat]
      /\ proposalTtl \in [Chain -> Nat] /\ fresh \in [Chain -> SUBSET Symbol] /\ AdapterTypeOK
      /\ now' = now /\ peers' = peers /\ quorumThreshold' = quorumThreshold
      /\ proposalTtl' = proposalTtl
  BY DEF AgreeInv, IInv, QuorumTypeOK, quorumSettings
<1>3. /\ cast \in [Chain -> [params : Params \cup {None}, at : Nat]]
      /\ cast[d].params = p /\ cast[d].at = now
      /\ \A e \in Chain : e # d => cast[e] = votes[c][s][e]
  BY <1>2
<1> HIDE DEF cast
<1>4. votes'[c][s] = cast /\ \A b \in Chain, t \in Symbol : <<b, t>> # <<c, s>> => votes'[b][t] = votes[b][t]
  BY <1>1, <1>2
<1>5. \A b, e \in Chain, t \in Symbol : <<b, t, e>> # <<c, s, d>> => votes'[b][t][e] = votes[b][t][e]
  BY <1>3, <1>4
<1>6. Stamped'
  <2>1. 0 < now /\ \A e \in Chain : /\ votes[c][s][e].at <= now
                                    /\ votes[c][s][e].params # None => 0 < votes[c][s][e].at
    BY DEF AgreeInv, Stamped
  <2>2. \A e \in Chain : cast[e].at <= now /\ (cast[e].params # None => 0 < cast[e].at)
    <3>1. ASSUME NEW e \in Chain, e # d
          PROVE  cast[e].at <= now /\ (cast[e].params # None => 0 < cast[e].at)
      BY <1>3, <2>1, <3>1
    <3>2. cast[d].at <= now /\ (cast[d].params # None => 0 < cast[d].at)
      BY <1>2, <1>3, <2>1
    <3> QED
      BY <3>1, <3>2
  <2> SUFFICES ASSUME NEW b \in Chain, NEW e \in Chain, NEW t \in Symbol
               PROVE  /\ votes'[b][t][e].at <= now
                      /\ votes'[b][t][e].params # None => 0 < votes'[b][t][e].at
    BY <1>2, <2>1 DEF Stamped
  <2>3. CASE <<b, t>> = <<c, s>>
    BY <1>4, <2>2, <2>3
  <2>4. CASE <<b, t>> # <<c, s>>
    BY <1>4, <2>4 DEF AgreeInv, Stamped
  <2> QED
    BY <2>3, <2>4
<1>7. Reachable'
  BY <1>2 DEF AgreeInv, Reachable
<1>8. ASSUME NEW b \in Chain, NEW t \in Symbol, <<b, t>> # <<c, s>>
      PROVE  config'[b][t] = config[b][t]
  <2>1. LocalFeed(c, s) \in FeedOrNone
    BY <1>2 DEF LocalFeed, FeedOrNone, AdapterTypeOK
  <2>2. CASE applyConfig(c, s, p)
    BY <1>2, <1>8, <2>1, <2>2, Configured DEF applyConfig
  <2>3. CASE UNCHANGED adapter
    BY <2>3 DEF adapter
  <2> QED
    BY <1>1, <2>2, <2>3
<1>9. ASSUME Unanimous(c, s, p)' PROVE config'[c][s].active /\ config'[c][s].params = p
  <2>1. peers[c] = Chain \ {c} /\ \A e \in Chain : cast[e].params = p
    BY <1>2, <1>4, <1>9 DEF Unanimous
  <2>2. \A e \in Chain : cast[e].at + proposalTtl[c] > now
    <3>1. \A e \in Chain : cast[e].at <= now /\ cast[e].at \in Nat
      BY <1>2, <1>3, <1>4, <1>6 DEF Stamped
    <3> DEFINE S == {cast[e].at : e \in Chain}
    <3>2. S \in SUBSET Nat /\ now \in S /\ \A t \in S : t <= now
      BY <1>3, <3>1
    <3>3. (CHOOSE t \in S : \A u \in S : u <= t) = now
      BY <3>2, LatestIs
    <3>4. \A t \in S : (\A e \in Chain : cast[e].at <= t) <=> (\A u \in S : u <= t)
      OBVIOUS
    <3>5. (CHOOSE t \in S : \A e \in Chain : cast[e].at <= t) = now
      <4>1. (CHOOSE t \in S : \A e \in Chain : cast[e].at <= t)
              = CHOOSE t \in S : \A u \in S : u <= t
        BY <3>4
      <4> QED
        BY <3>3, <4>1
    <3>6. Latest(c, s)' = CHOOSE t \in S : \A e \in Chain : cast[e].at <= t
      BY <1>4 DEF Latest
    <3>7. \A e \in Chain : cast[e].at + proposalTtl[c] > Latest(c, s)'
      BY <1>2, <1>4, <1>9 DEF Unanimous, Timely
    <3> QED
      BY <3>5, <3>6, <3>7
  <2>3. Matching(c, cast, p) = Chain
    <3>1. \A e \in Chain : cast[e].at > cutoff(c)
      <4> SUFFICES ASSUME NEW e \in Chain PROVE cast[e].at > cutoff(c)
        OBVIOUS
      <4>1. p # None /\ cast[e].params = p
        BY <2>1, QuorumConstants
      <4>2. 0 < cast[e].at /\ cast[e].at \in Nat
        BY <1>3, <1>4, <1>6, <4>1 DEF Stamped
      <4>3. cast[e].at + proposalTtl[c] > now /\ proposalTtl[c] \in Nat
        BY <1>2, <2>2
      <4> QED
        BY <1>2, <4>2, <4>3 DEF cutoff
    <3> QED
      BY <2>1, <3>1 DEF Matching
  <2>4. reached
    <3>1. quorumThreshold[c] <= Cardinality(Chain)
      BY DEF AgreeInv, Reachable
    <3>2. Cardinality(Chain) \in Nat /\ quorumThreshold[c] \in Nat
      BY <1>2, AdapterConstants, FS_CardinalityType
    <3> QED
      BY <2>3, <3>1, <3>2
  <2>5. applyConfig(c, s, p)
    BY <1>1, <2>4
  <2>6. LocalFeed(c, s) \in FeedOrNone
    BY <1>2 DEF LocalFeed, FeedOrNone, AdapterTypeOK
  <2> QED
    BY <1>2, <2>5, <2>6, Configured DEF applyConfig
<1>10. FreshApplied'
  <2> SUFFICES ASSUME NEW b \in Chain, NEW t \in Symbol, NEW q \in Params,
                      t \in fresh'[b], Unanimous(b, t, q)'
               PROVE  config'[b][t].active /\ config'[b][t].params = q
    BY DEF FreshApplied
  <2>1. CASE <<b, t>> = <<c, s>>
    <3>1. q = p
      <4>1. votes'[c][s][d].params = q
        BY <2>1 DEF Unanimous
      <4> QED
        BY <1>3, <1>4, <4>1
    <3> QED
      BY <1>9, <2>1, <3>1
  <2>2. CASE <<b, t>> # <<c, s>>
    <3>1. t \in fresh[b]
      BY <1>1, <1>2, <2>2
    <3>2. votes'[b][t] = votes[b][t]
      BY <1>4, <2>2
    <3>3. Unanimous(b, t, q)
      BY <1>2, <3>2 DEF Unanimous, Timely, Latest
    <3> QED
      BY <1>8, <2>2, <3>1, <3>3 DEF AgreeInv, FreshApplied
  <2> QED
    BY <2>1, <2>2
<1> QED
  BY <1>3, <1>4, <1>5, <1>6, <1>7, <1>10

LEMMA UnanimousStays ==
  ASSUME NEW c \in Chain, NEW s \in Symbol, NEW p, Unanimous(c, s, p)', votes' = votes,
         peers'[c] = peers[c], proposalTtl'[c] = proposalTtl[c]
  PROVE  Unanimous(c, s, p)
<1>1. Latest(c, s)' = Latest(c, s)
  BY DEF Latest
<1>2. /\ peers'[c] = Chain \ {c} /\ \A d \in Chain : votes'[c][s][d].params = p
      /\ \A d \in Chain : votes'[c][s][d].at + proposalTtl'[c] > Latest(c, s)'
  BY DEF Unanimous, Timely
<1>3. \A d \in Chain : votes[c][s][d].at + proposalTtl[c] > Latest(c, s)
  BY <1>1, <1>2
<1> QED
  BY <1>2, <1>3 DEF Unanimous, Timely

LEMMA ProposeAgrees ==
  ASSUME AgreeInv, NEW c \in Chain, NEW s \in Symbol, NEW p \in Params, proposeConfig(c, s, p)
  PROVE  AgreeInv'
<1> DEFINE m == [symbol |-> s, params |-> p, id |-> proposals]
<1>1. /\ Vote(c, c, s, p) /\ UNCHANGED <<now, quorumSettings>> /\ failed' = failed
      /\ lane' = Broadcast(c, m) /\ troubled' = (troubled \/ peers[c] # Chain \ {c})
  BY DEF proposeConfig
<1>2. IInv'
  BY ProposeKeeps DEF AgreeInv
<1>3. /\ Stamped' /\ Reachable' /\ FreshApplied'
      /\ votes'[c][s][c].params = p
      /\ \A b, e \in Chain, t \in Symbol :
           <<b, t, e>> # <<c, s, c>> => votes'[b][t][e] = votes[b][t][e]
  <2>1. QuorumTypeOK'
    BY <1>2 DEF IInv
  <2> QED
    BY <1>1, <2>1, VoteAgrees
<1>4. NoneFailed'
  BY <1>1 DEF AgreeInv, NoneFailed
<1>5. m \in Message /\ m.symbol = s /\ m.params = p /\ lane \in [Lane -> Seq(Message)]
  BY DEF AgreeInv, IInv, QuorumTypeOK, Message
<1> HIDE DEF m
<1>6. ASSUME ~ troubled', NEW l \in Lane, NEW t \in Symbol
      PROVE  LastSays(lane'[l], t, votes'[l[1]][t][l[1]].params, votes'[l[2]][t][l[1]].params)
  <2>1. l[1] \in Chain /\ l[2] \in Chain /\ l[1] # l[2]
    BY DEF Lane
  <2>2. LastSays(lane[l], t, votes[l[1]][t][l[1]].params, votes[l[2]][t][l[1]].params)
    BY <1>1, <1>6 DEF AgreeInv, LanesTell
  <2>3. votes'[l[2]][t][l[1]] = votes[l[2]][t][l[1]]
    BY <1>3, <2>1
  <2>4. CASE l[1] = c
    <3>1. lane'[l] = Append(lane[l], m)
      BY <1>1, <1>6, <2>1, <2>4 DEF Broadcast
    <3>2. votes'[c][t][c].params = IF m.symbol = t THEN m.params ELSE votes[c][t][c].params
      BY <1>3, <1>5
    <3>3. LastSays(Append(lane[l], m), t,
                   IF m.symbol = t THEN m.params ELSE votes[c][t][c].params,
                   votes[l[2]][t][c].params)
      <4>1. lane[l] \in Seq(Message)
        BY <1>5
      <4> QED
        BY <1>5, <2>2, <2>4, <4>1, SaysAppended
    <3> QED
      BY <2>3, <2>4, <3>1, <3>2, <3>3
  <2>5. CASE l[1] # c
    <3>1. lane'[l] = lane[l]
      BY <1>1, <2>5 DEF Broadcast
    <3>2. votes'[l[1]][t][l[1]] = votes[l[1]][t][l[1]]
      BY <1>3, <2>1, <2>5
    <3> QED
      BY <2>2, <2>3, <3>1, <3>2
  <2> QED
    BY <2>4, <2>5
<1>7. LanesTell'
  BY <1>6 DEF LanesTell
<1> QED
  BY <1>2, <1>3, <1>4, <1>7 DEF AgreeInv

LEMMA ExecuteAgrees ==
  ASSUME AgreeInv, NEW d \in Chain, NEW c \in Chain, d # c, Execute(d, c)
  PROVE  AgreeInv'
<1> DEFINE l == <<d, c>>
           m == Head(lane[l])
<1>1. /\ lane[l] # <<>> /\ lane' = [lane EXCEPT ![l] = Tail(@)]
      /\ \/ Receive(d, c, m) /\ UNCHANGED <<failed, troubled>>
         \/ troubled' = TRUE /\ UNCHANGED <<adapter, votes, backed, fresh>>
      /\ UNCHANGED <<now, quorumSettings, proposed, proposals>>
  BY DEF Execute
<1>2. l \in Lane /\ l[1] = d /\ l[2] = c /\ lane \in [Lane -> Seq(Message)]
  BY DEF Lane, AgreeInv, IInv, QuorumTypeOK
<1>3. IInv'
  BY ExecuteKeeps DEF AgreeInv
<1> HIDE DEF l
<1>4. m \in Message
  BY <1>1, <1>2, TailElements
<1>5. lane'[l] = Tail(lane[l]) /\ \A k \in Lane : k # l => lane'[k] = lane[k]
  BY <1>1, <1>2
<1> HIDE DEF m
<1>6. CASE troubled' = TRUE /\ UNCHANGED <<adapter, votes, backed, fresh>>
  <2>1. LanesTell' /\ NoneFailed'
    BY <1>6 DEF LanesTell, NoneFailed
  <2>2. Stamped' /\ Reachable'
    BY <1>1, <1>6 DEF AgreeInv, Stamped, Reachable, quorumSettings
  <2>3. FreshApplied'
    <3> SUFFICES ASSUME NEW b \in Chain, NEW t \in Symbol, NEW q \in Params,
                        t \in fresh'[b], Unanimous(b, t, q)'
                 PROVE  config'[b][t].active /\ config'[b][t].params = q
      BY DEF FreshApplied
    <3>1. /\ votes' = votes /\ peers' = peers /\ proposalTtl' = proposalTtl
          /\ fresh' = fresh /\ config' = config
      BY <1>1, <1>6 DEF quorumSettings, adapter
    <3>2. Unanimous(b, t, q)
      BY <3>1, UnanimousStays
    <3> QED
      BY <3>1, <3>2 DEF AgreeInv, FreshApplied
  <2> QED
    BY <1>3, <2>1, <2>2, <2>3 DEF AgreeInv
<1>7. CASE Receive(d, c, m) /\ UNCHANGED <<failed, troubled>>
  <2>1. Vote(c, d, m.symbol, m.params) /\ m.symbol \in Symbol /\ m.params \in Params
    BY <1>4, <1>7 DEF Receive, Message
  <2>2. /\ Stamped' /\ Reachable' /\ FreshApplied'
        /\ votes'[c][m.symbol][d].params = m.params
        /\ \A b, e \in Chain, t \in Symbol :
             <<b, t, e>> # <<c, m.symbol, d>> => votes'[b][t][e] = votes[b][t][e]
    <3>1. QuorumTypeOK'
      BY <1>3 DEF IInv
    <3> QED
      BY <1>1, <2>1, <3>1, VoteAgrees
  <2>3. NoneFailed'
    BY <1>7 DEF AgreeInv, NoneFailed
  <2>4. ASSUME ~ troubled', NEW k \in Lane, NEW t \in Symbol
        PROVE  LastSays(lane'[k], t, votes'[k[1]][t][k[1]].params, votes'[k[2]][t][k[1]].params)
    <3>1. k[1] \in Chain /\ k[2] \in Chain /\ k[1] # k[2] /\ (k[1] = d /\ k[2] = c => k = l)
      BY DEF Lane, l
    <3>2. LastSays(lane[k], t, votes[k[1]][t][k[1]].params, votes[k[2]][t][k[1]].params)
      BY <1>7, <2>4 DEF AgreeInv, LanesTell
    <3>3. votes'[k[1]][t][k[1]] = votes[k[1]][t][k[1]]
      BY <2>2, <3>1
    <3>4. CASE k = l
      <4>1. votes'[c][t][d].params = IF m.symbol = t THEN m.params ELSE votes[c][t][d].params
        BY <2>2
      <4>2. lane[l] \in Seq(Message)
        BY <1>2
      <4>3. LastSays(Tail(lane[l]), t, votes[d][t][d].params,
                     IF m.symbol = t THEN m.params ELSE votes[c][t][d].params)
        BY <1>1, <1>2, <3>2, <3>4, <4>2, SaysTaken DEF m
      <4> QED
        BY <1>2, <1>5, <3>3, <3>4, <4>1, <4>3
    <3>5. CASE k # l
      <4>1. votes'[k[2]][t][k[1]] = votes[k[2]][t][k[1]]
        BY <2>2, <3>1, <3>5
      <4> QED
        BY <1>5, <3>2, <3>3, <3>5, <4>1
    <3> QED
      BY <3>4, <3>5
  <2>5. LanesTell'
    BY <2>4 DEF LanesTell
  <2> QED
    BY <1>3, <2>2, <2>3, <2>5 DEF AgreeInv
<1> QED
  BY <1>1, <1>6, <1>7 DEF m

LEMMA ExecuteByHandAgrees ==
  ASSUME AgreeInv, NEW f \in failed, ExecuteByHand(f)
  PROVE  AgreeInv'
<1>1. f[1] \in Chain /\ f[2] \in Chain /\ f[3] \in Message
  BY DEF AgreeInv, IInv, QuorumTypeOK
<1>2. /\ Vote(f[2], f[1], f[3].symbol, f[3].params)
      /\ f[3].symbol \in Symbol /\ f[3].params \in Params
      /\ UNCHANGED <<now, quorumSettings, troubled>>
  BY <1>1 DEF ExecuteByHand, Receive, Message
<1>3. IInv'
  BY ExecuteByHandKeeps DEF AgreeInv
<1>4. Stamped' /\ Reachable' /\ FreshApplied'
  <2>1. QuorumTypeOK'
    BY <1>3 DEF IInv
  <2> QED
    BY <1>1, <1>2, <2>1, VoteAgrees
<1>5. ASSUME ~ troubled' PROVE FALSE
  BY <1>2, <1>5 DEF AgreeInv, NoneFailed
<1>6. LanesTell' /\ NoneFailed'
  BY <1>5 DEF LanesTell, NoneFailed
<1> QED
  BY <1>3, <1>4, <1>6 DEF AgreeInv

\* A step that votes nothing: what is fresh after it was before, with the same
\* quorum and settings.
LEMMA QuietAgrees ==
  ASSUME AgreeInv, IInv', UNCHANGED <<votes, ccip, troubled>>, now' >= now, Reachable',
         \A c \in Chain : \A s \in fresh'[c] :
            /\ s \in fresh[c] /\ peers'[c] = peers[c] /\ proposalTtl'[c] = proposalTtl[c]
            /\ config'[c][s].params = config[c][s].params
            /\ config'[c][s].active = config[c][s].active
  PROVE  AgreeInv'
<1>1. votes' = votes /\ lane' = lane /\ failed' = failed /\ troubled' = troubled
  BY DEF ccip
<1>2. LanesTell' /\ NoneFailed'
  BY <1>1 DEF AgreeInv, LanesTell, NoneFailed
<1>3. Stamped'
  <2>1. now \in Nat /\ now' \in Nat /\ \A c, d \in Chain, s \in Symbol : votes[c][s][d].at \in Nat
    BY DEF AgreeInv, IInv, QuorumTypeOK
  <2>2. 0 < now /\ \A c, d \in Chain, s \in Symbol :
          /\ votes[c][s][d].at <= now
          /\ votes[c][s][d].params # None => 0 < votes[c][s][d].at
    BY DEF AgreeInv, Stamped
  <2>3. PICK later \in Nat : later = now' /\ later >= now
    BY <2>1
  <2>4. 0 < later /\ \A c, d \in Chain, s \in Symbol : votes[c][s][d].at <= later
    BY <2>1, <2>2, <2>3
  <2> QED
    BY <1>1, <2>2, <2>3, <2>4 DEF Stamped
<1>4. FreshApplied'
  <2> SUFFICES ASSUME NEW c \in Chain, NEW s \in Symbol, NEW p \in Params,
                      s \in fresh'[c], Unanimous(c, s, p)'
               PROVE  config'[c][s].active /\ config'[c][s].params = p
    BY DEF FreshApplied
  <2>1. /\ s \in fresh[c] /\ peers'[c] = peers[c] /\ proposalTtl'[c] = proposalTtl[c]
        /\ config'[c][s].params = config[c][s].params /\ config'[c][s].active = config[c][s].active
    OBVIOUS
  <2>2. Unanimous(c, s, p)
    BY <1>1, <2>1, UnanimousStays
  <2> QED
    BY <2>1, <2>2 DEF AgreeInv, FreshApplied
<1> QED
  BY <1>2, <1>3, <1>4 DEF AgreeInv

\* What an owner changes of a chain's quorum, or of one asset of it.
LEMMA OwnerAgrees ==
  ASSUME AgreeInv, IInv', NEW c \in Chain, NEW gone \in SUBSET Symbol, Anew(c, gone),
         UNCHANGED <<now, votes, ccip, troubled>>, Reachable',
         \A d \in Chain, s \in Symbol : d # c \/ s \notin gone =>
           /\ peers'[d] = peers[d] /\ proposalTtl'[d] = proposalTtl[d]
           /\ config'[d][s].params = config[d][s].params
           /\ config'[d][s].active = config[d][s].active
  PROVE  AgreeInv'
<1>1. fresh \in [Chain -> SUBSET Symbol] /\ now \in Nat
  BY DEF AgreeInv, IInv, QuorumTypeOK
<1>2. ASSUME NEW d \in Chain, NEW s \in fresh'[d]
      PROVE  /\ s \in fresh[d] /\ peers'[d] = peers[d] /\ proposalTtl'[d] = proposalTtl[d]
             /\ config'[d][s].params = config[d][s].params
             /\ config'[d][s].active = config[d][s].active
  <2>1. s \in fresh[d] /\ s \in Symbol /\ (d # c \/ s \notin gone)
    BY <1>1 DEF Anew
  <2> QED
    BY <2>1
<1>3. now' >= now
  BY <1>1
<1>4. UNCHANGED <<votes, ccip, troubled>>
  OBVIOUS
<1> QED
  BY <1>2, <1>3, <1>4, QuietAgrees

LEMMA QuorumOwnerAgrees ==
  ASSUME AgreeInv, QuorumOwnerStep
  PROVE  AgreeInv'
<1>1. PICK c \in Chain :
        \/ \E s \in Symbol, p \in Params : forceApplyConfig(c, s, p)
        \/ \E d \in Chain : addPeer(c, d) \/ removePeer(c, d)
        \/ \E n \in 1..Cardinality(Chain) : setQuorumThreshold(c, n)
        \/ \E ttl \in Ttl : setProposalTtl(c, ttl)
  BY DEF QuorumOwnerStep
<1>2. /\ peers \in [Chain -> SUBSET Chain] /\ quorumThreshold \in [Chain -> Nat]
      /\ proposalTtl \in [Chain -> Nat] /\ AdapterTypeOK
  BY DEF AgreeInv, IInv, QuorumTypeOK
<1>3. IInv'
  BY QuorumOwnerKeeps DEF AgreeInv
<1>4. CASE \E s \in Symbol, p \in Params : forceApplyConfig(c, s, p)
  <2>1. PICK s \in Symbol, p \in Params : forceApplyConfig(c, s, p)
    BY <1>4
  <2>2. /\ applyConfig(c, s, p) /\ Anew(c, {s})
        /\ UNCHANGED <<now, votes, quorumSettings, ccip, proposed, proposals, troubled>>
    BY <2>1 DEF forceApplyConfig
  <2>3. LocalFeed(c, s) \in FeedOrNone
    BY <1>2 DEF LocalFeed, FeedOrNone, AdapterTypeOK
  <2>4. \A d \in Chain, t \in Symbol : <<d, t>> # <<c, s>> => config'[d][t] = config[d][t]
    BY <1>2, <2>2, <2>3, Configured DEF applyConfig
  <2>5. Reachable' /\ peers' = peers /\ proposalTtl' = proposalTtl
    BY <2>2 DEF AgreeInv, Reachable, quorumSettings
  <2>6. {s} \in SUBSET Symbol
    OBVIOUS
  <2>7. \A d \in Chain, t \in Symbol : d # c \/ t \notin {s} =>
           /\ peers'[d] = peers[d] /\ proposalTtl'[d] = proposalTtl[d]
           /\ config'[d][t].params = config[d][t].params
           /\ config'[d][t].active = config[d][t].active
    BY <2>4, <2>5
  <2>8. UNCHANGED <<now, votes, ccip, troubled>>
    BY <2>2
  <2> QED
    BY <1>3, <2>2, <2>5, <2>6, <2>7, <2>8, OwnerAgrees
<1>5. CASE \/ \E d \in Chain : addPeer(c, d) \/ removePeer(c, d)
           \/ \E n \in 1..Cardinality(Chain) : setQuorumThreshold(c, n)
           \/ \E ttl \in Ttl : setProposalTtl(c, ttl)
  <2>1. /\ Anew(c, Symbol) /\ UNCHANGED <<now, votes, ccip, troubled>> /\ UNCHANGED adapter
        /\ \A d \in Chain : d # c => peers'[d] = peers[d] /\ proposalTtl'[d] = proposalTtl[d]
    BY <1>2, <1>5 DEF addPeer, removePeer, setQuorumThreshold, setProposalTtl
  <2>2. Reachable'
    <3>1. ASSUME NEW n \in 1..Cardinality(Chain), setQuorumThreshold(c, n) PROVE Reachable'
      <4>1. quorumThreshold' = [quorumThreshold EXCEPT ![c] = n] /\ n <= Cardinality(Chain)
        BY <3>1 DEF setQuorumThreshold
      <4> QED
        BY <1>2, <4>1 DEF AgreeInv, Reachable
    <3>2. ASSUME quorumThreshold' = quorumThreshold PROVE Reachable'
      BY <3>2 DEF AgreeInv, Reachable
    <3> QED
      BY <1>5, <3>1, <3>2 DEF addPeer, removePeer, setProposalTtl
  <2>3. config' = config
    BY <2>1 DEF adapter
  <2>4. \A d \in Chain, t \in Symbol : d # c \/ t \notin Symbol =>
           /\ peers'[d] = peers[d] /\ proposalTtl'[d] = proposalTtl[d]
           /\ config'[d][t].params = config[d][t].params
           /\ config'[d][t].active = config[d][t].active
    BY <2>1, <2>3
  <2> QED
    BY <1>3, <2>1, <2>2, <2>4, OwnerAgrees
<1> QED
  BY <1>1, <1>4, <1>5

LEMMA AdapterAdminAgrees ==
  ASSUME AgreeInv, NEW c \in Chain, AdapterAdmin(c)
  PROVE  AgreeInv'
<1>1. /\ UNCHANGED <<now, votes, quorumSettings, ccip, proposed, proposals, troubled>>
      /\ \/ \E s \in Symbol :
              /\ Anew(c, {s})
              /\ \/ \E p \in Params, feed \in FeedOrNone : configureAsset(c, "admin", s, feed, p)
                 \/ deactivateAsset(c, s)
         \/ \E s \in Symbol, feed \in Feed :
              setLocalFeedAddress(c, s, feed) /\ UNCHANGED <<backed, fresh>>
         \/ \E on \in BOOLEAN : setCanonicalMode(c, on) /\ UNCHANGED <<backed, fresh>>
  BY DEF AdapterAdmin, FeedOrNone
<1>2. QuorumTypeOK /\ AdapterTypeOK /\ AdapterExact /\ IInv
  BY DEF AgreeInv, IInv, QuorumTypeOK
<1>3. IInv'
  BY <1>2, AdapterAdminKeeps
<1>4. /\ Reachable' /\ peers' = peers /\ proposalTtl' = proposalTtl
      /\ UNCHANGED <<now, votes, ccip, troubled>>
  BY <1>1 DEF AgreeInv, Reachable, quorumSettings
<1>5. CASE \E s \in Symbol :
              /\ Anew(c, {s})
              /\ \/ \E p \in Params, feed \in FeedOrNone : configureAsset(c, "admin", s, feed, p)
                 \/ deactivateAsset(c, s)
  <2>1. PICK s \in Symbol :
              /\ Anew(c, {s})
              /\ \/ \E p \in Params, feed \in FeedOrNone : configureAsset(c, "admin", s, feed, p)
                 \/ deactivateAsset(c, s)
    BY <1>5
  <2>2. \A d \in Chain, t \in Symbol : <<d, t>> # <<c, s>> => config'[d][t] = config[d][t]
    BY <1>2, <2>1, Configured, DeactivateExact
  <2>3. {s} \in SUBSET Symbol
    OBVIOUS
  <2>4. \A d \in Chain, t \in Symbol : d # c \/ t \notin {s} =>
           /\ peers'[d] = peers[d] /\ proposalTtl'[d] = proposalTtl[d]
           /\ config'[d][t].params = config[d][t].params
           /\ config'[d][t].active = config[d][t].active
    BY <1>4, <2>2
  <2> QED
    BY <1>3, <1>4, <2>1, <2>3, <2>4, OwnerAgrees
<1>6. CASE \/ \E s \in Symbol, feed \in Feed :
                setLocalFeedAddress(c, s, feed) /\ UNCHANGED <<backed, fresh>>
           \/ \E on \in BOOLEAN : setCanonicalMode(c, on) /\ UNCHANGED <<backed, fresh>>
  <2>1. /\ UNCHANGED <<backed, fresh>>
        /\ \A d \in Chain, t \in Symbol : /\ config'[d][t].params = config[d][t].params
                                          /\ config'[d][t].active = config[d][t].active
    BY <1>2, <1>6, LocalFeedExact, CanonicalExact
  <2>2. \A d \in Chain : fresh[d] \subseteq Symbol
    BY <1>2 DEF QuorumTypeOK
  <2>3. \A d \in Chain : \A t \in fresh'[d] :
           /\ t \in fresh[d] /\ peers'[d] = peers[d] /\ proposalTtl'[d] = proposalTtl[d]
           /\ config'[d][t].params = config[d][t].params
           /\ config'[d][t].active = config[d][t].active
    BY <1>4, <2>1, <2>2
  <2>4. now' >= now /\ UNCHANGED <<votes, ccip, troubled>>
    BY <1>2, <1>4 DEF QuorumTypeOK
  <2> QED
    BY <1>3, <1>4, <2>3, <2>4, QuietAgrees
<1> QED
  BY <1>1, <1>5, <1>6

LEMMA AgreeSteps ==
  ASSUME AgreeInv, [QuorumNext]_quorumVars
  PROVE  AgreeInv'
<1>1. CASE \E c \in Chain, s \in Symbol, p \in Params : proposeConfig(c, s, p)
  BY <1>1, ProposeAgrees
<1>2. CASE \E d, c \in Chain : d # c /\ Execute(d, c)
  BY <1>2, ExecuteAgrees
<1>3. CASE \E f \in failed : ExecuteByHand(f)
  BY <1>3, ExecuteByHandAgrees
<1>4. CASE QuorumOwnerStep
  BY <1>4, QuorumOwnerAgrees
<1>5. CASE AdapterStep
  BY <1>5, AdapterAdminAgrees DEF AdapterStep
<1>6. CASE Tick \/ UNCHANGED quorumVars
  <2>1. IInv' /\ now \in Nat
    BY <1>6, StillKeeps DEF AgreeInv, IInv, QuorumTypeOK
  <2>2. /\ UNCHANGED <<votes, ccip, troubled>> /\ now' >= now
        /\ peers' = peers /\ proposalTtl' = proposalTtl /\ quorumThreshold' = quorumThreshold
        /\ fresh' = fresh /\ config' = config
    BY <1>6, <2>1 DEF Tick, quorumVars, history, quorumSettings, adapter
  <2>3. Reachable'
    BY <2>2 DEF AgreeInv, Reachable
  <2> QED
    BY <2>1, <2>2, <2>3, QuietAgrees
<1> QED
  BY <1>1, <1>2, <1>3, <1>4, <1>5, <1>6 DEF QuorumNext, VoteStep

LEMMA AgreeInits ==
  ASSUME QuorumInit
  PROVE  AgreeInv
<1>1. IInv
  BY QuorumInits
<1>2. LanesTell
  <2>1. \A l \in Lane : lane[l] = <<>> /\ l[1] \in Chain /\ l[2] \in Chain
    BY DEF QuorumInit, Lane
  <2>2. \A c, d \in Chain, s \in Symbol : votes[c][s][d] = NoVote
    BY DEF QuorumInit
  <2> QED
    BY <2>1, <2>2 DEF LanesTell, LastSays
<1>3. NoneFailed /\ FreshApplied
  BY DEF QuorumInit, NoneFailed, FreshApplied
<1>4. Stamped
  BY DEF QuorumInit, Stamped, NoVote
<1>5. Reachable
  <2>1. Cardinality(Chain) \in Nat
    BY AdapterConstants, FS_CardinalityType
  <2>2. \A n \in 1..Cardinality(Chain) : n <= Cardinality(Chain)
    BY <2>1
  <2>3. \A c \in Chain : quorumThreshold[c] \in 1..Cardinality(Chain)
    BY DEF QuorumInit
  <2> QED
    BY <2>2, <2>3 DEF Reachable
<1> QED
  BY <1>1, <1>2, <1>3, <1>4, <1>5 DEF AgreeInv

\* Where all chains voted the same and all messages came through, in time and
\* without trouble, all chains have what they voted for, for any number of
\* chains and assets, however the votes crossed and whatever was voted before
\* (OracleConfigQuorum.sol proposeConfig, _ccipReceive, _checkAndApplyQuorum).
THEOREM VotesAgreed == QuorumSpec => []VotesAgree
BY AgreeInits, AgreeSteps, AgreeEnough, PTL DEF QuorumSpec
=============================================================================
