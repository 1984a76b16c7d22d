------------------------- MODULE BasketVaultProofs -------------------------
(***************************************************************************)
(* Proofs about BasketVault, on its own, with fills from other chains and  *)
(* with a reserve in tokens, for any users, amounts, prices and settings:  *)
(* types, that the queue of redemptions owes what its open requests are    *)
(* owed and holds the shares they locked, what a share is worth, what is   *)
(* behind the queue and behind the book entry for perp capital, and that   *)
(* the reserve keeps NAV.                                                  *)
(***************************************************************************)
EXTENDS RedemptionFills, RWAReserve, SumLemmas, FiniteSetTheorems, SequenceTheorems, TLAPS

(* Arithmetic.                                                             *)

LEMMA DivBelow ==
  ASSUME NEW a \in Nat, NEW b \in Nat, NEW c \in Nat, c > 0, b <= c
  PROVE  (a * b) \div c \in Nat /\ (a * b) \div c <= a
<1>1. a * b \in Nat /\ a * b <= a * c
  <2>1. a * (c - b) >= 0
    OBVIOUS
  <2> QED
    BY <2>1
<1> DEFINE q == (a * b) \div c
<1>2. q \in Int /\ c * q <= a * b
  BY <1>1
<1>3. q >= 0
  BY <1>1
<1> HIDE DEF q
<1>4. c * q <= c * a
  BY <1>1, <1>2
<1>5. q <= a
  <2>1. CASE q >= a + 1
    <3>1. c * q >= c * (a + 1)
      BY <1>2, <2>1
    <3> QED
      BY <1>2, <1>4, <3>1
  <2> QED
    BY <1>2, <2>1
<1>6. q \in Nat /\ q <= a
  BY <1>2, <1>3, <1>5
<1> QED
  BY <1>6 DEF q

LEMMA DivNat ==
  ASSUME NEW a \in Nat, NEW c \in Nat, c > 0
  PROVE  a \div c \in Nat
OBVIOUS

LEMMA FeeBelow ==
  ASSUME NEW amount \in Nat, NEW bps \in 0..500
  PROVE  FeeOn(amount, bps) \in Nat /\ FeeOn(amount, bps) <= amount
<1>1. bps \in Nat /\ bps <= BPS_DENOMINATOR /\ BPS_DENOMINATOR \in Nat /\ BPS_DENOMINATOR > 0
  BY DEF BPS_DENOMINATOR
<1> QED
  BY <1>1, DivBelow DEF FeeOn

LEMMA FlooredType ==
  ASSUME NEW n \in Int
  PROVE  Floored(n) \in Nat /\ Floored(n) >= n /\ (n >= 0 => Floored(n) = n)
BY DEF Floored

(* What a call reads.                                                      *)

LEMMA HolderFinite == IsFiniteSet(Holder) /\ IsFiniteSet(Id)
<1>1. IsFiniteSet(Holder)
  BY VaultConstants, FS_AddElement DEF Holder
<1>2. IsFiniteSet(Id)
  BY VaultConstants, FS_Interval DEF Id
<1> QED
  BY <1>1, <1>2

LEMMA SupplyType ==
  ASSUME TypeOK
  PROVE  TotalSupply \in Nat /\ \A h \in Holder : share[h] <= TotalSupply
<1>1. \A h \in Holder : share[h] \in Nat
  BY DEF TypeOK
<1> QED
  BY <1>1, HolderFinite, SumNat DEF TotalSupply

LEMMA NavType ==
  ASSUME TypeOK
  PROVE  /\ PricingNav \in Nat
         /\ Idle \in Nat /\ Idle <= usdc /\ TotalVaultValue \in Nat
         /\ \A fees \in Nat : IdleBeside(fees) \in Nat /\ IdleBeside(fees) <= usdc
<1>1. usdc \in Nat /\ collectedFees \in Nat /\ perpAllocated \in Nat
      /\ mark \in Int /\ realised \in Int
  BY DEF TypeOK
<1>2. \A fees \in Nat : IdleBeside(fees) \in Nat /\ IdleBeside(fees) <= usdc
  BY <1>1 DEF IdleBeside, Floored
<1>3. Idle \in Nat /\ Idle <= usdc
  BY <1>1, <1>2 DEF Idle
<1>4. TotalVaultValue \in Nat
  BY <1>1, <1>3 DEF TotalVaultValue
<1>5. PricingNav \in Nat
  BY <1>1, <1>4 DEF PricingNav, Floored
<1> QED
  BY <1>2, <1>3, <1>4, <1>5

\* A quote is a fee and a natural amount, beside what is idle.
LEMMA QuoteType ==
  ASSUME TypeOK, NEW u \in User, NEW n \in Nat, 0 < n, n <= share[u]
  PROVE  /\ Quote(n).fee \in Nat /\ Quote(n).owed \in Nat
         /\ Quote(n).idle \in Nat /\ Quote(n).idle <= usdc
<1>1. TotalSupply \in Nat /\ TotalSupply > 0
  BY SupplyType DEF Holder, TypeOK
<1> DEFINE gross == (n * PricingNav) \div TotalSupply
           fee   == FeeOn(gross, redeemFeeBps)
<1>2. gross \in Nat
  <2>1. n * PricingNav \in Nat
    BY NavType
  <2> HIDE DEF PricingNav, TotalSupply
  <2> QED
    BY <1>1, <2>1
<1>3. fee \in Nat /\ fee <= gross
  BY <1>2, FeeBelow DEF TypeOK
<1> HIDE DEF gross, fee
<1>4. collectedFees + fee \in Nat
  BY <1>3 DEF TypeOK
<1>5. IdleBeside(collectedFees + fee) \in Nat /\ IdleBeside(collectedFees + fee) <= usdc
  BY <1>4, NavType
<1>6. Quote(n) = [fee |-> fee, owed |-> gross - fee, idle |-> IdleBeside(collectedFees + fee)]
  BY DEF Quote, gross, fee
<1> QED
  BY <1>2, <1>3, <1>5, <1>6

LEMMA MintedType ==
  ASSUME TypeOK, NEW amount \in Nat, TotalSupply = 0 \/ 0 < PricingNav
  PROVE  /\ FeeOn(amount, depositFeeBps) \in Nat
         /\ Minted(amount, amount - FeeOn(amount, depositFeeBps)) \in Nat
<1>1. FeeOn(amount, depositFeeBps) \in Nat /\ FeeOn(amount, depositFeeBps) <= amount
  BY FeeBelow DEF TypeOK
<1>2. PICK net \in Nat : net = amount - FeeOn(amount, depositFeeBps)
  BY <1>1
<1>3. CASE TotalSupply = 0
  BY <1>1, <1>2, <1>3 DEF Minted
<1>4. CASE TotalSupply # 0
  <2>1. PricingNav \in Nat /\ PricingNav > 0 /\ TotalSupply \in Nat
    BY <1>4, NavType, SupplyType
  <2>2. net * TotalSupply \in Nat
    BY <2>1
  <2>3. (net * TotalSupply) \div PricingNav \in Nat
    BY <2>1, <2>2
  <2> QED
    BY <1>1, <1>2, <1>4, <2>3 DEF Minted
<1> QED
  BY <1>3, <1>4

\* The shares a partial fill burns are some of those redeemed.
LEMMA PartialType ==
  ASSUME NEW n \in Nat, NEW q, q.idle \in Nat, q.owed \in Nat, q.idle < q.owed
  PROVE  PartialShares(n, q) \in Nat /\ PartialShares(n, q) <= n
<1>1. q.owed > 0 /\ q.idle <= q.owed
  OBVIOUS
<1> QED
  BY <1>1, DivBelow DEF PartialShares

-----------------------------------------------------------------------------
(* Steps that leave the queue as it is.                                    *)

\* The sums of the queue, whose requests are natural amounts.
LEMMA QueueTypes ==
  ASSUME TypeOK
  PROVE  /\ Outstanding \subseteq Id /\ IsFiniteSet(Outstanding)
         /\ \A id \in Id : [i \in Id |-> OwedOf(i)][id] \in Nat
         /\ \A id \in Id : [i \in Id |-> pendingRedemptions[i].sharesLocked][id] \in Nat
<1>1. Outstanding \subseteq Id
  BY DEF Outstanding
<1>2. IsFiniteSet(Outstanding)
  BY <1>1, HolderFinite, FS_Subset
<1>3. \A id \in Id : pendingRedemptions[id] \in Request
  BY DEF TypeOK
<1>4. \A id \in Id : pendingRedemptions[id].usdcOwed \in Nat /\ pendingRedemptions[id].sharesLocked \in Nat
  BY <1>3 DEF Request
<1> QED
  BY <1>1, <1>2, <1>4 DEF OwedOf

LEMMA QueueStays ==
  ASSUME TypeOK, QueueExact, TypeOK', UNCHANGED queue, share'[Self] >= share[Self]
  PROVE  QueueExact'
<1>1. pendingRedemptions' = pendingRedemptions /\ pendingRedemptionCount' = pendingRedemptionCount
      /\ pendingRedemptionsUsdc' = pendingRedemptionsUsdc
  BY DEF queue
<1>2. Outstanding' = Outstanding
  BY <1>1 DEF Outstanding, OpenRequest
<1>3. Owed' = Owed /\ Locked' = Locked
  BY <1>1, <1>2 DEF Owed, Locked, OwedOf
<1>4. Locked \in Int
  <2>1. \A id \in Outstanding : [i \in Id |-> pendingRedemptions[i].sharesLocked][id] \in Int
    BY QueueTypes
  <2> QED
    BY <2>1, QueueTypes, SumType DEF Locked
<1>5. share[Self] \in Nat /\ share'[Self] \in Nat
  BY DEF TypeOK, Holder
<1>6. Locked <= share'[Self]
  BY <1>4, <1>5 DEF QueueExact, LockedSharesCovered
<1> QED
  BY <1>1, <1>3, <1>6 DEF QueueExact, QueueSumExact, LockedSharesCovered

LEMMA DepositKeeps ==
  ASSUME TypeOK, QueueExact, NEW u \in User, NEW amount \in Deposits, NEW weight,
         Deposit(u, amount, weight)
  PROVE  TypeOK' /\ QueueExact'
<1>1. amount \in Nat /\ amount <= wallet[u] /\ (TotalSupply = 0 \/ 0 < PricingNav)
  BY VaultConstants DEF Deposit
<1>2. PICK fee \in Nat : fee = FeeOn(amount, depositFeeBps)
  BY <1>1, MintedType
<1>3. PICK minted \in Nat : minted = Minted(amount, amount - FeeOn(amount, depositFeeBps))
  BY <1>1, MintedType
<1>4. /\ wallet' = [wallet EXCEPT ![u] = @ - amount] /\ usdc' = usdc + amount
      /\ collectedFees' = collectedFees + fee
      /\ share' = [share EXCEPT ![u] = @ + minted]
      /\ UNCHANGED <<approved, perpAllocated, queue, policy, perp>>
  BY <1>2, <1>3 DEF Deposit
<1>5. wallet[u] - amount \in Nat /\ u \in Holder /\ u # Self /\ Self \in Holder
  BY <1>1, VaultConstants DEF TypeOK, Holder
<1>6. TypeOK'
  BY <1>1, <1>4, <1>5 DEF TypeOK, queue, policy, perp, account
<1>7. share'[Self] = share[Self] /\ share[Self] \in Nat
  BY <1>4, <1>5 DEF TypeOK
<1> QED
  BY <1>4, <1>6, <1>7, QueueStays

LEMMA RedeemNowKeeps ==
  ASSUME TypeOK, QueueExact, NEW u \in User, NEW n \in ShareAmount, RedeemNow(u, n)
  PROVE  TypeOK' /\ QueueExact'
<1>1. n \in Nat /\ 0 < n /\ n <= share[u]
  BY VaultConstants DEF RedeemNow
<1>2. PICK fee \in Nat, owed \in Nat : fee = Quote(n).fee /\ owed = Quote(n).owed
  BY <1>1, QuoteType
<1>3. /\ collectedFees' = collectedFees + fee /\ share' = [share EXCEPT ![u] = @ - n]
      /\ usdc' = usdc - owed /\ wallet' = [wallet EXCEPT ![u] = @ + owed]
      /\ UNCHANGED <<approved, perpAllocated, queue, policy, perp>>
      /\ owed <= Quote(n).idle
  BY <1>2 DEF RedeemNow
<1>4. owed <= usdc
  BY <1>1, <1>3, QuoteType DEF TypeOK
<1>5. share[u] - n \in Nat /\ u \in Holder /\ u # Self /\ Self \in Holder
  BY <1>1, VaultConstants DEF TypeOK, Holder
<1>6. TypeOK'
  BY <1>3, <1>4, <1>5 DEF TypeOK, queue, policy, perp, account
<1>7. share'[Self] = share[Self] /\ share[Self] \in Nat
  BY <1>3, <1>5 DEF TypeOK
<1> QED
  BY <1>3, <1>6, <1>7, QueueStays

LEMMA GiftKeeps ==
  ASSUME TypeOK, QueueExact, GiftStep
  PROVE  TypeOK' /\ QueueExact'
<1>1. CASE \E u \in User, h \in Holder, n \in ShareAmount : TransferShares(u, h, n)
  <2>1. PICK u \in User, h \in Holder, n \in ShareAmount : TransferShares(u, h, n)
    BY <1>1
  <2>2. /\ n \in Nat /\ u # h /\ n <= share[u]
        /\ share' = [share EXCEPT ![u] = @ - n, ![h] = @ + n]
        /\ UNCHANGED <<wallet, usdc, approved, collectedFees, perpAllocated, queue, policy, perp>>
    BY <2>1, VaultConstants DEF TransferShares
  <2>3. u \in Holder /\ u # Self /\ Self \in Holder /\ share \in [Holder -> Nat]
    BY VaultConstants DEF TypeOK, Holder
  <2>4. share' \in [Holder -> Nat]
    BY <2>2, <2>3
  <2>5. TypeOK'
    BY <2>2, <2>4 DEF TypeOK, queue, policy, perp, account
  <2>6. share'[Self] >= share[Self]
    BY <2>2, <2>3
  <2> QED
    BY <2>2, <2>5, <2>6, QueueStays
<1>2. CASE \E u \in User : Approve(u)
  <2>1. TypeOK' /\ UNCHANGED <<queue, share>>
    BY <1>2 DEF TypeOK, Approve, queue, policy, perp, account
  <2>2. share'[Self] >= share[Self]
    BY <2>1 DEF TypeOK, Holder
  <2> QED
    BY <2>1, <2>2, QueueStays
<1>3. CASE \E u \in User, amount \in Deposits : TopUpReserve(u, amount)
  <2>1. PICK u \in User, amount \in Deposits : TopUpReserve(u, amount)
    BY <1>3
  <2>2. amount \in Nat /\ wallet[u] - amount \in Nat
    BY <2>1, VaultConstants DEF TopUpReserve, TypeOK
  <2>3. TypeOK' /\ UNCHANGED <<queue, share>>
    BY <2>1, <2>2 DEF TypeOK, TopUpReserve, queue, policy, perp, account
  <2>4. share'[Self] >= share[Self]
    BY <2>3 DEF TypeOK, Holder
  <2> QED
    BY <2>3, <2>4, QueueStays
<1> QED
  BY <1>1, <1>2, <1>3 DEF GiftStep

\* The vault's side of the account: capital that may be taken out is natural,
\* and what the account holds keeps its type.
LEMMA AccountTypes ==
  ASSUME TypeOK
  PROVE  /\ \A amount : PayIn(amount) => amount \in Nat /\ deposited' \in Nat /\ realised' \in Int
                                         /\ locked' \in Nat
         /\ \A amount : TakeOut(amount) => amount \in Nat /\ deposited' \in Nat /\ realised' \in Int
                                           /\ locked' \in Nat
         /\ \A c : Lock(c) => deposited' \in Nat /\ realised' \in Int /\ locked' \in Nat
         /\ \A r, b : Settle(r, b) => deposited' \in Nat /\ realised' \in Int /\ locked' \in Nat
         /\ (Reset => deposited' \in Nat /\ realised' \in Int /\ locked' \in Nat)
<1> deposited \in Nat /\ realised \in Int /\ locked \in Nat
  BY DEF TypeOK
<1> QED
  BY DEF PayIn, TakeOut, Lock, Settle, Reset

LEMMA OwnerKeeps ==
  ASSUME TypeOK, QueueExact, OwnerStep
  PROVE  TypeOK' /\ QueueExact'
<1>1. CASE \E amount \in PerpAmount : AllocateToPerp(amount)
  <2>1. PICK amount \in PerpAmount : AllocateToPerp(amount)
    BY <1>1
  <2>2. amount \in Nat /\ amount <= AvailableForPerp /\ PayIn(amount)
    BY <2>1, VaultConstants DEF AllocateToPerp
  <2>3. amount <= usdc
    <3>1. (TotalVaultValue * minReserveBps) \div BPS_DENOMINATOR \in Nat
      <4>1. TotalVaultValue * minReserveBps \in Nat
        <5>1. TotalVaultValue \in Nat
          BY NavType
        <5>2. minReserveBps \in Nat
          BY DEF TypeOK, BPS_DENOMINATOR
        <5> HIDE DEF TotalVaultValue
        <5> QED
          BY <5>1, <5>2
      <4>2. BPS_DENOMINATOR \in Nat /\ BPS_DENOMINATOR > 0
        BY DEF BPS_DENOMINATOR
      <4> QED
        BY <4>1, <4>2, DivNat
    <3>2. PICK kept \in Nat : kept = (TotalVaultValue * minReserveBps) \div BPS_DENOMINATOR
      BY <3>1
    <3>3. AvailableForPerp = Floored(Idle - kept) /\ Idle \in Nat /\ Idle <= usdc
      BY <3>2, NavType DEF AvailableForPerp
    <3>4. usdc \in Nat
      BY DEF TypeOK
    <3> QED
      BY <2>2, <3>3, <3>4 DEF Floored
  <2>4. /\ usdc' = usdc - amount /\ perpAllocated' = perpAllocated + amount
        /\ UNCHANGED <<wallet, share, approved, collectedFees, queue, policy, wired, mark>>
    BY <2>1 DEF AllocateToPerp
  <2>5. deposited' \in Nat /\ realised' \in Int /\ locked' \in Nat
    BY <2>2, AccountTypes
  <2>6. TypeOK' /\ share'[Self] >= share[Self]
    BY <2>2, <2>3, <2>4, <2>5 DEF TypeOK, queue, policy, Holder
  <2> QED
    BY <2>4, <2>6, QueueStays
<1>2. CASE \E amount \in PerpAmount : WithdrawFromPerp(amount)
  <2>1. PICK amount \in PerpAmount : WithdrawFromPerp(amount)
    BY <1>2
  <2>2. /\ TakeOut(amount) /\ amount \in Nat
        /\ usdc' = usdc + amount /\ perpAllocated' = Floored(perpAllocated - amount)
        /\ UNCHANGED <<wallet, share, approved, collectedFees, queue, policy, wired, mark>>
    BY <2>1, VaultConstants DEF WithdrawFromPerp, AllocationLeft
  <2>3. deposited' \in Nat /\ realised' \in Int /\ locked' \in Nat
    BY <2>2, AccountTypes
  <2>4. TypeOK' /\ share'[Self] >= share[Self]
    BY <2>2, <2>3 DEF TypeOK, queue, policy, Holder, Floored
  <2> QED
    BY <2>2, <2>4, QueueStays
<1>3. CASE CollectFees
  <2>1. TypeOK' /\ UNCHANGED queue /\ share'[Self] >= share[Self]
    BY <1>3 DEF TypeOK, CollectFees, queue, policy, perp, account, Holder
  <2> QED
    BY <2>1, QueueStays
<1> QED
  BY <1>1, <1>2, <1>3 DEF OwnerStep

LEMMA PolicyKeeps ==
  ASSUME TypeOK, QueueExact, PolicyStep
  PROVE  TypeOK' /\ QueueExact'
<1>1. CASE \E flag \in BOOLEAN : SetVaultAccounting(flag)
  <2>1. deposited' \in Nat /\ realised' \in Int /\ locked' \in Nat
    BY <1>1, AccountTypes DEF SetVaultAccounting
  <2>2. mark' \in Int /\ wired' \in BOOLEAN
    BY <1>1, VaultConstants DEF SetVaultAccounting
  <2>3. UNCHANGED <<wallet, usdc, share, approved, collectedFees, perpAllocated, queue, policy>>
    BY <1>1 DEF SetVaultAccounting
  <2>4. TypeOK' /\ share'[Self] >= share[Self]
    BY <2>1, <2>2, <2>3 DEF TypeOK, queue, policy, Holder
  <2> QED
    BY <2>3, <2>4, QueueStays
<1>2. CASE \/ \E deposit, redeem \in FeeBps : SetFees(deposit, redeem)
           \/ \E cap \in Cap : SetMaxPerpAllocation(cap)
           \/ \E bps \in Bps : SetMinReserveBps(bps)
           \/ \E bps \in Bps : SetMinDepositWeightBps(bps)
  <2>1. /\ depositFeeBps' \in 0..500 /\ redeemFeeBps' \in 0..500 /\ maxPerpAllocation' \in Nat
        /\ minReserveBps' \in 0..BPS_DENOMINATOR /\ minDepositWeightBps' \in 0..BPS_DENOMINATOR
    <3>1. CASE \E deposit, redeem \in FeeBps : SetFees(deposit, redeem)
      BY <3>1, VaultConstants DEF SetFees, TypeOK
    <3>2. CASE \E cap \in Cap : SetMaxPerpAllocation(cap)
      BY <3>2, VaultConstants DEF SetMaxPerpAllocation, TypeOK
    <3>3. CASE \E bps \in Bps : SetMinReserveBps(bps)
      BY <3>3, VaultConstants DEF SetMinReserveBps, TypeOK
    <3>4. CASE \E bps \in Bps : SetMinDepositWeightBps(bps)
      BY <3>4, VaultConstants DEF SetMinDepositWeightBps, TypeOK
    <3> QED
      BY <1>2, <3>1, <3>2, <3>3, <3>4
  <2>2. PolicyOnly
    BY <1>2 DEF SetFees, SetMaxPerpAllocation, SetMinReserveBps, SetMinDepositWeightBps
  <2>3. TypeOK' /\ UNCHANGED queue /\ share'[Self] >= share[Self]
    BY <2>1, <2>2 DEF TypeOK, PolicyOnly, queue, perp, account, Holder
  <2> QED
    BY <2>3, QueueStays
<1> QED
  BY <1>1, <1>2 DEF PolicyStep

LEMMA OutsideKeeps ==
  ASSUME TypeOK, QueueExact, MarketStep \/ OutsiderStep
  PROVE  TypeOK' /\ QueueExact'
<1>1. CASE MarketStep
  <2>1. deposited' \in Nat /\ realised' \in Int /\ locked' \in Nat
    <3>1. CASE MarkMoves
      BY <3>1 DEF MarkMoves, account, TypeOK
    <3>2. CASE PositionStep
      BY <3>2, AccountTypes DEF PositionStep, OpenPosition, ClosePosition
    <3> QED
      BY <1>1, <3>1, <3>2 DEF MarketStep
  <2>2. mark' \in Int /\ usdc' = usdc /\ Untouched
    BY <1>1, VaultConstants DEF MarketStep, MarkMoves, PositionStep, OpenPosition, ClosePosition, TypeOK
  <2>3. TypeOK' /\ UNCHANGED queue /\ share'[Self] >= share[Self]
    BY <2>1, <2>2 DEF TypeOK, Untouched, queue, policy, Holder
  <2> QED
    BY <2>3, QueueStays
<1>2. CASE \E u \in User, amount \in PerpAmount : DepositCapitalBy(u, amount)
  <2>1. PICK u \in User, amount \in PerpAmount : DepositCapitalBy(u, amount)
    BY <1>2
  <2>2. /\ PayIn(amount) /\ amount <= wallet[u] /\ amount \in Nat
        /\ wallet' = [wallet EXCEPT ![u] = @ - amount]
        /\ UNCHANGED <<usdc, share, approved, collectedFees, perpAllocated, queue, policy, wired, mark>>
    BY <2>1, VaultConstants DEF DepositCapitalBy
  <2>3. deposited' \in Nat /\ realised' \in Int /\ locked' \in Nat
    BY <2>2, AccountTypes
  <2>4. TypeOK' /\ share'[Self] >= share[Self]
    BY <2>2, <2>3 DEF TypeOK, queue, policy, Holder
  <2> QED
    BY <2>2, <2>4, QueueStays
<1>3. CASE \E amount \in PerpAmount : WithdrawCapitalByAnyone(amount)
  <2>1. PICK amount \in PerpAmount : WithdrawCapitalByAnyone(amount)
    BY <1>3
  <2>2. TakeOut(amount) /\ amount \in Nat /\ usdc' = usdc + amount /\ mark' = mark /\ Untouched
    BY <2>1, VaultConstants DEF WithdrawCapitalByAnyone
  <2>3. deposited' \in Nat /\ realised' \in Int /\ locked' \in Nat
    BY <2>2, AccountTypes
  <2>4. TypeOK' /\ UNCHANGED queue /\ share'[Self] >= share[Self]
    BY <2>2, <2>3 DEF TypeOK, Untouched, queue, policy, Holder
  <2> QED
    BY <2>4, QueueStays
<1> QED
  BY <1>1, <1>2, <1>3 DEF OutsiderStep

-----------------------------------------------------------------------------
(* Steps of the queue.                                                     *)

LEMMA SumAdd ==
  ASSUME NEW S, IsFiniteSet(S), NEW y, y \notin S, NEW f, NEW h,
         \A x \in S : f[x] \in Int /\ h[x] = f[x], h[y] \in Int
  PROVE  SumFunctionOnSet(h, S \cup {y}) = h[y] + SumFunctionOnSet(f, S)
<1> DEFINE T == S \cup {y}
<1>1. IsFiniteSet(T) /\ y \in T /\ T \ {y} = S /\ \A x \in T : h[x] \in Int
  BY FS_AddElement
<1>2. SumFunctionOnSet(h, T) = h[y] + SumFunctionOnSet(h, T \ {y})
  <2> HIDE DEF T
  <2> QED
    BY <1>1, SumRemove
<1>3. SumFunctionOnSet(h, S) = SumFunctionOnSet(f, S)
  BY SumSame
<1> QED
  BY <1>1, <1>2, <1>3

\* What a new request is owed and locks.
NewRequest(u, n, burned, owed, paid, r) ==
  /\ burned = PartialShares(n, Quote(n)) /\ burned <= n
  /\ owed = Remainder(Quote(n))
  /\ paid = (IF burned > 0 THEN Quote(n).idle ELSE 0)
  /\ r = [user |-> u, sharesLocked |-> n - burned, usdcOwed |-> owed, completed |-> FALSE]

LEMMA QueueGrows ==
  ASSUME TypeOK, NEW u \in User, NEW n \in ShareAmount, RedeemAndQueue(u, n)
  PROVE  /\ TypeOK' /\ n \in Nat /\ 0 < n /\ n <= share[u]
         /\ \E burned, owed, paid \in Nat, r \in Request :
              /\ NewRequest(u, n, burned, owed, paid, r)
              /\ usdc' = usdc - paid /\ collectedFees' = collectedFees + Quote(n).fee
              /\ share' = [share EXCEPT ![u] = @ - n, ![Self] = @ + n - burned]
              /\ share'[Self] = share[Self] + (n - burned)
              /\ pendingRedemptionsUsdc' = pendingRedemptionsUsdc + owed
              /\ Owed' = owed + Owed /\ Locked' = (n - burned) + Locked
              /\ \A i \in Outstanding' : \/ i \in Outstanding /\ pendingRedemptions'[i] = pendingRedemptions[i]
                                         \/ pendingRedemptions'[i] = r
<1> DEFINE id == pendingRedemptionCount
           q == Quote(n)
<1>1. n \in Nat /\ 0 < n /\ n <= share[u] /\ q.idle < q.owed /\ id < MaxQueue
  BY VaultConstants DEF RedeemAndQueue
<1>2. q.fee \in Nat /\ q.owed \in Nat /\ q.idle \in Nat /\ q.idle <= usdc
  BY <1>1, QuoteType
<1> HIDE DEF q
<1>3. PICK burned \in Nat : burned = PartialShares(n, q) /\ burned <= n
  BY <1>1, <1>2, PartialType
<1>4. PICK owed \in Nat : owed = Remainder(q)
  BY <1>1, <1>2 DEF Remainder
<1>5. PICK paid \in Nat : paid = (IF burned > 0 THEN q.idle ELSE 0) /\ paid <= usdc
  BY <1>2 DEF TypeOK
<1>6. PICK kept \in Nat : kept = n - burned
  BY <1>1, <1>3
<1>7. /\ collectedFees' = collectedFees + q.fee /\ usdc' = usdc - paid
      /\ wallet' = [wallet EXCEPT ![u] = @ + paid]
      /\ pendingRedemptionCount' = id + 1
      /\ pendingRedemptions' = [pendingRedemptions EXCEPT ![id] =
            [user |-> u, sharesLocked |-> kept, usdcOwed |-> owed, completed |-> FALSE]]
      /\ pendingRedemptionsUsdc' = pendingRedemptionsUsdc + owed
      /\ UNCHANGED <<approved, perpAllocated, policy, perp>>
  BY <1>3, <1>4, <1>5, <1>6 DEF RedeemAndQueue, q
<1>8. u \in Holder /\ u # Self /\ Self \in Holder /\ share \in [Holder -> Nat]
  BY VaultConstants DEF TypeOK, Holder
<1>9. /\ share' = [share EXCEPT ![u] = @ - n, ![Self] = @ + n - burned]
      /\ share' \in [Holder -> Nat] /\ share'[Self] = share[Self] + kept
  <2>1. share' = [share EXCEPT ![u] = @ - n, ![Self] = @ + n - burned]
    BY <1>3 DEF RedeemAndQueue, q
  <2> QED
    BY <1>1, <1>3, <1>6, <1>8, <2>1
<1>10. id \in Id /\ id \in Nat
  BY <1>1, VaultConstants DEF TypeOK, Id
<1>11. TypeOK'
  <2>1. pendingRedemptions' \in [Id -> Request]
    BY <1>7, <1>8 DEF TypeOK, Request
  <2>2. pendingRedemptionCount' \in 0..MaxQueue
    BY <1>1, <1>7, <1>10, VaultConstants
  <2>3. wallet' \in [User -> Nat] /\ usdc' \in Nat /\ collectedFees' \in Nat
        /\ pendingRedemptionsUsdc' \in Nat
    BY <1>2, <1>7, <1>5 DEF TypeOK
  <2> QED
    BY <1>7, <1>9, <2>1, <2>2, <2>3 DEF TypeOK, policy, perp, account
<1> DEFINE owes == [i \in Id |-> OwedOf(i)]
           locks == [i \in Id |-> pendingRedemptions[i].sharesLocked]
<1>12. /\ \A i \in Id : owes[i] \in Nat /\ locks[i] \in Nat
       /\ \A i \in Id : owes'[i] \in Nat /\ locks'[i] \in Nat
       /\ owes'[id] = owed /\ locks'[id] = kept
       /\ \A i \in Id : i # id => owes'[i] = owes[i] /\ locks'[i] = locks[i]
  <2>1. /\ pendingRedemptions \in [Id -> Request] /\ pendingRedemptions' \in [Id -> Request]
        /\ pendingRedemptions'[id].usdcOwed = owed /\ pendingRedemptions'[id].sharesLocked = kept
        /\ \A i \in Id : i # id => pendingRedemptions'[i] = pendingRedemptions[i]
    BY <1>7, <1>10, <1>11 DEF TypeOK
  <2>2. \A r \in Request : r.usdcOwed \in Nat /\ r.sharesLocked \in Nat
    BY DEF Request
  <2> HIDE DEF Request
  <2> QED
    BY <1>10, <2>1, <2>2 DEF OwedOf
<1>13. Outstanding' = Outstanding \cup {id} /\ id \notin Outstanding
       /\ IsFiniteSet(Outstanding) /\ Outstanding \subseteq Id
  <2>1. id \notin Outstanding /\ Outstanding \subseteq Id
    BY <1>10 DEF Outstanding, OpenRequest
  <2>2. \A i \in Id : OpenRequest(i)' <=> OpenRequest(i) \/ i = id
    <3> SUFFICES ASSUME NEW i \in Id PROVE OpenRequest(i)' <=> OpenRequest(i) \/ i = id
      OBVIOUS
    <3>1. i \in Nat /\ pendingRedemptions \in [Id -> Request]
      BY VaultConstants DEF Id, TypeOK
    <3>2. CASE i = id
      BY <1>7, <1>10, <3>1, <3>2 DEF OpenRequest
    <3>3. CASE i # id
      <4>1. pendingRedemptions'[i] = pendingRedemptions[i]
        BY <1>7, <3>1, <3>3
      <4>2. i < id + 1 <=> i < id
        BY <1>10, <3>1, <3>3
      <4> QED
        BY <1>7, <3>3, <4>1, <4>2 DEF OpenRequest
    <3> QED
      BY <3>2, <3>3
  <2>3. Outstanding' = Outstanding \cup {id}
    BY <1>10, <2>2 DEF Outstanding
  <2> QED
    BY <2>1, <2>3, QueueTypes
<1>14. Owed = SumFunctionOnSet(owes, Outstanding) /\ Locked = SumFunctionOnSet(locks, Outstanding)
       /\ Owed' = SumFunctionOnSet(owes', Outstanding') /\ Locked' = SumFunctionOnSet(locks', Outstanding')
  BY DEF Owed, Locked
<1> HIDE DEF owes, locks, id
<1>15. Owed' = owed + Owed /\ Locked' = kept + Locked
  <2>1. \A i \in Outstanding : owes[i] \in Int /\ owes'[i] = owes[i] /\ locks[i] \in Int /\ locks'[i] = locks[i]
    BY <1>12, <1>13
  <2> DEFINE owesThen == owes'
             locksThen == locks'
             S == Outstanding
  <2>2. /\ IsFiniteSet(S) /\ id \notin S /\ owesThen[id] \in Int /\ locksThen[id] \in Int
        /\ \A i \in S : owes[i] \in Int /\ owesThen[i] = owes[i] /\ locks[i] \in Int /\ locksThen[i] = locks[i]
    BY <1>10, <1>12, <1>13, <2>1
  <2> HIDE DEF owesThen, locksThen, S
  <2>3. SumFunctionOnSet(owesThen, S \cup {id}) = owesThen[id] + SumFunctionOnSet(owes, S)
    BY <2>2, SumAdd
  <2>4. SumFunctionOnSet(locksThen, S \cup {id}) = locksThen[id] + SumFunctionOnSet(locks, S)
    BY <2>2, SumAdd
  <2> QED
    BY <1>12, <1>13, <1>14, <2>3, <2>4 DEF owesThen, locksThen, S
<1> DEFINE r == [user |-> u, sharesLocked |-> kept, usdcOwed |-> owed, completed |-> FALSE]
<1>16. \A i \in Outstanding' : \/ i \in Outstanding /\ pendingRedemptions'[i] = pendingRedemptions[i]
                             \/ pendingRedemptions'[i] = r
  <2>1. SUFFICES ASSUME NEW i \in Outstanding'
                 PROVE  \/ i \in Outstanding /\ pendingRedemptions'[i] = pendingRedemptions[i]
                        \/ pendingRedemptions'[i] = r
    OBVIOUS
  <2>2. pendingRedemptions \in [Id -> Request] /\ (i = id \/ (i \in Outstanding /\ i # id /\ i \in Id))
    BY <1>13, <2>1 DEF TypeOK
  <2> QED
    BY <1>7, <1>10, <2>2
<1>17. r \in Request
  BY <1>8 DEF Request
<1>18. NewRequest(u, n, burned, owed, paid, r)
  BY <1>3, <1>4, <1>5, <1>6 DEF NewRequest, q
<1>19. /\ usdc' = usdc - paid /\ collectedFees' = collectedFees + Quote(n).fee
       /\ share' = [share EXCEPT ![u] = @ - n, ![Self] = @ + n - burned]
       /\ share'[Self] = share[Self] + (n - burned)
       /\ pendingRedemptionsUsdc' = pendingRedemptionsUsdc + owed
       /\ Owed' = owed + Owed /\ Locked' = (n - burned) + Locked
  BY <1>6, <1>7, <1>9, <1>15 DEF q
<1> HIDE DEF r
<1>20. n \in Nat /\ 0 < n /\ n <= share[u]
  BY <1>1
<1> QED
  BY <1>11, <1>16, <1>17, <1>18, <1>19, <1>20

LEMMA RedeemAndQueueKeeps ==
  ASSUME TypeOK, QueueExact, NEW u \in User, NEW n \in ShareAmount, RedeemAndQueue(u, n)
  PROVE  TypeOK' /\ QueueExact'
<1>1. TypeOK'
  BY QueueGrows
<1>2. PICK burned \in Nat, owed \in Nat :
        /\ share'[Self] = share[Self] + (n - burned) /\ burned <= n
        /\ pendingRedemptionsUsdc' = pendingRedemptionsUsdc + owed
        /\ Owed' = owed + Owed /\ Locked' = (n - burned) + Locked
  BY QueueGrows DEF NewRequest
<1>3. Locked \in Int /\ Owed \in Int /\ share[Self] \in Nat /\ n \in Nat
  <2>1. /\ \A i \in Outstanding : [id \in Id |-> OwedOf(id)][i] \in Int
        /\ \A i \in Outstanding : [id \in Id |-> pendingRedemptions[id].sharesLocked][i] \in Int
    BY QueueTypes
  <2>2. Locked \in Int /\ Owed \in Int
    BY <2>1, QueueTypes, SumType DEF Locked, Owed
  <2> QED
    BY <2>2, VaultConstants DEF TypeOK, Holder
<1> QED
  BY <1>1, <1>2, <1>3 DEF QueueExact, QueueSumExact, LockedSharesCovered

LEMMA Completing ==
  ASSUME NEW r \in Request
  PROVE  /\ [r EXCEPT !.completed = TRUE] \in Request /\ [r EXCEPT !.completed = TRUE].completed
         /\ [r EXCEPT !.completed = TRUE].usdcOwed = r.usdcOwed
         /\ [r EXCEPT !.completed = TRUE].sharesLocked = r.sharesLocked
BY DEF Request

LEMMA QueueShrinks ==
  ASSUME TypeOK, NEW id \in Id, NEW received \in Nat, Fill(id, received)
  PROVE  /\ TypeOK' /\ id \in Outstanding
         /\ \E owed, kept \in Nat :
              /\ owed = OwedOf(id) /\ kept = pendingRedemptions[id].sharesLocked
              /\ usdc' = usdc + received - owed /\ owed <= Floored(usdc + received - collectedFees)
              /\ share' = [share EXCEPT ![Self] = @ - kept]
              /\ share'[Self] = share[Self] - kept /\ kept <= share[Self]
              /\ pendingRedemptionsUsdc' = Floored(pendingRedemptionsUsdc - owed)
              /\ Owed = owed + Owed' /\ Locked = kept + Locked' /\ Owed' \in Nat /\ Locked' \in Nat
         /\ \A i \in Outstanding' : /\ i \in Outstanding
                                   /\ OwedOf(i)' = OwedOf(i)
                                   /\ pendingRedemptions'[i].sharesLocked = pendingRedemptions[i].sharesLocked
<1> DEFINE pr == pendingRedemptions[id]
<1>1. /\ OpenRequest(id) /\ pr.usdcOwed <= Floored(usdc + received - collectedFees)
      /\ pendingRedemptions' = [pendingRedemptions EXCEPT ![id].completed = TRUE]
      /\ pendingRedemptionsUsdc' = Floored(pendingRedemptionsUsdc - pr.usdcOwed)
      /\ pr.sharesLocked <= share[Self]
      /\ share' = [share EXCEPT ![Self] = @ - pr.sharesLocked]
      /\ usdc' = usdc + received - pr.usdcOwed
      /\ wallet' = [wallet EXCEPT ![pr.user] = @ + pr.usdcOwed]
      /\ UNCHANGED <<approved, collectedFees, perpAllocated, pendingRedemptionCount, policy, perp>>
  BY DEF Fill
<1>2. pr.usdcOwed \in Nat /\ pr.sharesLocked \in Nat /\ pr \in Request
  BY DEF TypeOK, Request
<1>3. /\ pendingRedemptions' \in [Id -> Request]
      /\ \A i \in Id : /\ pendingRedemptions'[i].usdcOwed = pendingRedemptions[i].usdcOwed
                       /\ pendingRedemptions'[i].sharesLocked = pendingRedemptions[i].sharesLocked
                       /\ pendingRedemptions'[i].completed = (pendingRedemptions[i].completed \/ i = id)
  <2>1. pendingRedemptions \in [Id -> Request]
    BY DEF TypeOK
  <2>2. \A i \in Id : pendingRedemptions[i].completed \in BOOLEAN
    BY <2>1 DEF Request
  <2>3. pendingRedemptions' = [pendingRedemptions EXCEPT ![id] = [pr EXCEPT !.completed = TRUE]]
    BY <1>1, <2>1
  <2>4. /\ [pr EXCEPT !.completed = TRUE] \in Request /\ [pr EXCEPT !.completed = TRUE].completed
        /\ [pr EXCEPT !.completed = TRUE].usdcOwed = pr.usdcOwed
        /\ [pr EXCEPT !.completed = TRUE].sharesLocked = pr.sharesLocked
    BY <1>2, Completing
  <2> DEFINE done == [pr EXCEPT !.completed = TRUE]
  <2> HIDE DEF done
  <2>5. pendingRedemptions' \in [Id -> Request] /\ pendingRedemptions'[id] = done
        /\ \A i \in Id : i # id => pendingRedemptions'[i] = pendingRedemptions[i]
    BY <2>1, <2>3, <2>4 DEF done
  <2> QED
    BY <2>2, <2>4, <2>5 DEF done
<1> HIDE DEF pr
<1>4. usdc' \in Nat /\ wallet' \in [User -> Nat]
  <2>1. usdc \in Nat /\ collectedFees \in Nat /\ wallet \in [User -> Nat]
    BY DEF TypeOK
  <2>2. usdc' \in Nat
    BY <1>1, <1>2, <2>1 DEF Floored
  <2>3. \A u \in User : wallet[u] + pr.usdcOwed \in Nat
    BY <1>2, <2>1
  <2>4. wallet' \in [User -> Nat]
    BY <1>1, <2>1, <2>3
  <2> QED
    BY <2>2, <2>4
<1>5. share \in [Holder -> Nat] /\ Self \in Holder
  BY DEF TypeOK, Holder
<1>6. share' \in [Holder -> Nat] /\ share'[Self] = share[Self] - pr.sharesLocked
  BY <1>1, <1>2, <1>5
<1>7. TypeOK'
  BY <1>1, <1>2, <1>3, <1>4, <1>6 DEF TypeOK, Floored, policy, perp, account
<1> DEFINE owes == [i \in Id |-> OwedOf(i)]
           locks == [i \in Id |-> pendingRedemptions[i].sharesLocked]
<1>8. owes' = owes /\ locks' = locks /\ owes[id] = pr.usdcOwed /\ locks[id] = pr.sharesLocked
  BY <1>3 DEF OwedOf, pr
<1>9. /\ id \in Outstanding /\ Outstanding' = Outstanding \ {id}
      /\ IsFiniteSet(Outstanding) /\ IsFiniteSet(Outstanding \ {id})
      /\ \A i \in Outstanding : owes[i] \in Nat /\ locks[i] \in Nat
  <2>1. id \in Outstanding
    BY <1>1 DEF Outstanding
  <2>2. Outstanding' = Outstanding \ {id}
    BY <1>1, <1>3 DEF Outstanding, OpenRequest
  <2>3. IsFiniteSet(Outstanding) /\ Outstanding \subseteq Id
    BY QueueTypes
  <2>4. IsFiniteSet(Outstanding \ {id})
    BY <2>3, FS_RemoveElement
  <2> QED
    BY <2>1, <2>2, <2>3, <2>4, QueueTypes
<1>10. Owed = SumFunctionOnSet(owes, Outstanding) /\ Locked = SumFunctionOnSet(locks, Outstanding)
       /\ Owed' = SumFunctionOnSet(owes', Outstanding') /\ Locked' = SumFunctionOnSet(locks', Outstanding')
  BY DEF Owed, Locked
<1> HIDE DEF owes, locks
<1>11. Owed = pr.usdcOwed + Owed' /\ Locked = pr.sharesLocked + Locked'
  <2>1. \A i \in Outstanding : owes[i] \in Int /\ locks[i] \in Int
    BY <1>9
  <2>2. /\ SumFunctionOnSet(owes, Outstanding) = owes[id] + SumFunctionOnSet(owes, Outstanding \ {id})
        /\ SumFunctionOnSet(locks, Outstanding) = locks[id] + SumFunctionOnSet(locks, Outstanding \ {id})
    BY <1>9, <2>1, SumRemove
  <2> QED
    BY <1>8, <1>9, <1>10, <2>2
<1>12. Owed' \in Nat /\ Locked' \in Nat
  <2>1. \A i \in Outstanding \ {id} : owes[i] \in Nat /\ locks[i] \in Nat
    BY <1>9
  <2> QED
    BY <1>8, <1>9, <1>10, <2>1, SumNat
<1>13. \A i \in Outstanding' : /\ i \in Outstanding
                             /\ OwedOf(i)' = OwedOf(i)
                             /\ pendingRedemptions'[i].sharesLocked = pendingRedemptions[i].sharesLocked
  <2>1. Outstanding \subseteq Id
    BY DEF Outstanding
  <2> QED
    BY <1>3, <1>9, <2>1 DEF OwedOf
<1>14. pr.usdcOwed = OwedOf(id) /\ pr.sharesLocked = pendingRedemptions[id].sharesLocked
  BY DEF pr, OwedOf
<1> QED
  BY <1>1, <1>2, <1>6, <1>7, <1>9, <1>11, <1>12, <1>13, <1>14

LEMMA FillKeeps ==
  ASSUME TypeOK, QueueExact, NEW id \in Id, NEW received \in Nat, Fill(id, received)
  PROVE  TypeOK' /\ QueueExact'
<1>1. TypeOK' /\ \E owed, kept \in Nat :
        /\ share'[Self] = share[Self] - kept /\ kept <= share[Self]
        /\ pendingRedemptionsUsdc' = Floored(pendingRedemptionsUsdc - owed)
        /\ Owed = owed + Owed' /\ Locked = kept + Locked' /\ Owed' \in Nat /\ Locked' \in Nat
  BY QueueShrinks
<1>2. PICK owed \in Nat, kept \in Nat :
        /\ share'[Self] = share[Self] - kept /\ kept <= share[Self]
        /\ pendingRedemptionsUsdc' = Floored(pendingRedemptionsUsdc - owed)
        /\ Owed = owed + Owed' /\ Locked = kept + Locked' /\ Owed' \in Nat /\ Locked' \in Nat
  BY <1>1
<1>3. share[Self] \in Nat
  BY DEF TypeOK, Holder
<1>4. pendingRedemptionsUsdc' = Owed'
  <2>1. PICK rest \in Nat : rest = Owed'
    BY <1>2
  <2>2. pendingRedemptionsUsdc = owed + rest
    BY <1>2, <2>1 DEF QueueExact, QueueSumExact
  <2>3. Floored((owed + rest) - owed) = rest
    BY DEF Floored
  <2> QED
    BY <1>2, <2>1, <2>2, <2>3
<1>5. Locked' <= share'[Self]
  BY <1>2, <1>3 DEF QueueExact, LockedSharesCovered
<1> QED
  BY <1>1, <1>4, <1>5 DEF QueueExact, QueueSumExact, LockedSharesCovered


-----------------------------------------------------------------------------
(* What a share is worth.                                                  *)

LEMMA DivTimes ==
  ASSUME NEW a \in Nat, NEW c \in Nat, c > 0
  PROVE  a \div c \in Nat /\ (a \div c) * c <= a
OBVIOUS

LEMMA ProductUp ==
  ASSUME NEW a \in Nat, NEW b \in Nat, NEW t \in Nat, a <= b
  PROVE  a * t <= b * t
<1>1. (b - a) * t >= 0
  OBVIOUS
<1> QED
  BY <1>1

\* Shares minted for less than their price, and shares burned for more.
LEMMA MintedBelowPrice ==
  ASSUME NEW a \in Nat, NEW b \in Nat, NEW t \in Nat, NEW m \in Nat, NEW k \in Nat,
         m * a <= k * t, b >= a + k
  PROVE  a * (t + m) <= b * t
<1>1. (a + k) * t <= b * t
  BY ProductUp
<1> QED
  BY <1>1

LEMMA BurnedAbovePrice ==
  ASSUME NEW a \in Nat, NEW b \in Nat, NEW t \in Nat, NEW n \in Nat, NEW g \in Nat,
         g * t <= n * a, n <= t, b >= a - g
  PROVE  a * (t - n) <= b * t
<1>1. a <= b + g
  OBVIOUS
<1>2. a * t <= (b + g) * t
  BY <1>1, ProductUp
<1> QED
  BY <1>2

\* What the vault is worth, before it is floored and counting fees that are not
\* in its balance against it.
Gain == IF wired THEN realised ELSE 0
Worth == usdc - collectedFees + perpAllocated + mark + Gain

LEMMA NavOfWorth ==
  ASSUME TypeOK
  PROVE  /\ PricingNav \in Nat /\ Worth \in Int /\ PricingNav >= Worth
         /\ (FeesInHand => PricingNav = Floored(Worth))
<1>1. usdc \in Nat /\ collectedFees \in Nat /\ perpAllocated \in Nat /\ mark \in Int
      /\ realised \in Int
  BY DEF TypeOK
<1>2. PICK gain \in Int : gain = Gain
  BY <1>1 DEF Gain
<1>3. Worth = usdc - collectedFees + perpAllocated + mark + gain
  BY <1>2 DEF Worth
<1>4. PICK idle \in Nat : idle = Idle /\ idle >= usdc - collectedFees
                          /\ (FeesInHand => idle = usdc - collectedFees)
  BY <1>1 DEF Idle, IdleBeside, Floored, FeesInHand
<1>5. PricingNav = Floored(idle + perpAllocated + mark + gain)
  BY <1>2, <1>4 DEF PricingNav, TotalVaultValue, Gain
<1> QED
  BY <1>1, <1>3, <1>4, <1>5 DEF Floored

LEMMA NavOfWorthNext ==
  ASSUME TypeOK'
  PROVE  PricingNav' \in Nat /\ Worth' \in Int /\ PricingNav' >= Worth'
<1> DEFINE u == usdc'
           c == collectedFees'
           p == perpAllocated'
           m == mark'
           gain == Gain'
           idle == Floored(u - c)
<1>1. u \in Nat /\ c \in Nat /\ p \in Nat /\ m \in Int /\ gain \in Int
  BY DEF TypeOK, Gain
<1>2. Worth' = u - c + p + m + gain
  BY DEF Worth
<1>3. Idle' = idle
  BY DEF Idle, IdleBeside, Floored
<1>4. PricingNav' = Floored(idle + p + m + gain)
  BY <1>3 DEF PricingNav, TotalVaultValue, Gain, Floored
<1> HIDE DEF u, c, p, m, gain
<1>5. idle \in Nat /\ idle >= u - c
  BY <1>1 DEF Floored
<1> HIDE DEF idle
<1> QED
  BY <1>1, <1>2, <1>4, <1>5 DEF Floored

Undiluted == PricingNav * TotalSupply' <= PricingNav' * TotalSupply

\* Steps that mint and burn nothing and take nothing from the vault.
LEMMA WorthKept ==
  ASSUME TypeOK, TypeOK', FeesInHand, Worth' >= Worth, TotalSupply' = TotalSupply
  PROVE  Undiluted
<1>1. PricingNav \in Nat /\ PricingNav' \in Nat /\ PricingNav <= PricingNav'
  BY NavOfWorth, NavOfWorthNext DEF Floored
<1>2. TotalSupply \in Nat
  BY SupplyType
<1> HIDE DEF PricingNav, TotalSupply
<1>3. PricingNav * TotalSupply <= PricingNav' * TotalSupply
  BY <1>1, <1>2, ProductUp
<1> QED
  BY <1>3 DEF Undiluted

LEMMA SupplyChange ==
  ASSUME TypeOK, TypeOK', NEW u \in User, NEW d \in Int, share' = [share EXCEPT ![u] = @ + d]
  PROVE  TotalSupply' = TotalSupply + d
<1>1. u \in Holder /\ IsFiniteSet(Holder) /\ share \in [Holder -> Nat] /\ share' \in [Holder -> Nat]
  BY HolderFinite DEF Holder, TypeOK
<1> DEFINE then == share'
<1>2. /\ \A h \in Holder : share[h] \in Int /\ then[h] \in Int
      /\ \A h \in Holder \ {u} : then[h] = share[h]
      /\ then[u] = share[u] + d
  BY <1>1
<1> HIDE DEF then
<1>3. SumFunctionOnSet(then, Holder) = SumFunctionOnSet(share, Holder) + then[u] - share[u]
  BY <1>1, <1>2, SumChange
<1>4. SumFunctionOnSet(share, Holder) \in Int
  BY <1>1, <1>2, SumType
<1> QED
  BY <1>1, <1>2, <1>3, <1>4 DEF TotalSupply, then

LEMMA SupplyMoved ==
  ASSUME TypeOK, TypeOK', NEW u \in User, NEW h \in Holder, NEW n \in ShareAmount,
         TransferShares(u, h, n)
  PROVE  TotalSupply' = TotalSupply
<1> DEFINE between == [share EXCEPT ![u] = @ - n]
           then == share'
<1>1. /\ u \in Holder /\ u # h /\ n \in Nat /\ IsFiniteSet(Holder)
      /\ share \in [Holder -> Nat] /\ share' \in [Holder -> Nat]
      /\ share' = [share EXCEPT ![u] = @ - n, ![h] = @ + n]
  BY HolderFinite, VaultConstants DEF Holder, TypeOK, TransferShares
<1>2. /\ \A g \in Holder : share[g] \in Int /\ between[g] \in Int /\ then[g] \in Int
      /\ \A g \in Holder \ {u} : between[g] = share[g]
      /\ \A g \in Holder \ {h} : then[g] = between[g]
      /\ between[u] = share[u] - n /\ then[h] = between[h] + n
  BY <1>1
<1> HIDE DEF then, between
<1>3. SumFunctionOnSet(between, Holder) = SumFunctionOnSet(share, Holder) + between[u] - share[u]
  <2>1. /\ u \in Holder /\ IsFiniteSet(Holder)
        /\ \A g \in Holder : share[g] \in Int
        /\ \A g \in Holder : between[g] \in Int
        /\ \A g \in Holder \ {u} : between[g] = share[g]
    BY <1>1, <1>2
  <2> QED
    BY <2>1, SumChange
<1>4. SumFunctionOnSet(then, Holder) = SumFunctionOnSet(between, Holder) + then[h] - between[h]
  <2>1. /\ h \in Holder /\ IsFiniteSet(Holder)
        /\ \A g \in Holder : between[g] \in Int
        /\ \A g \in Holder : then[g] \in Int
        /\ \A g \in Holder \ {h} : then[g] = between[g]
    BY <1>1, <1>2
  <2> QED
    BY <2>1, SumChange
<1>5. SumFunctionOnSet(share, Holder) \in Int /\ SumFunctionOnSet(between, Holder) \in Int
  BY <1>1, <1>2, SumType
<1>6. SumFunctionOnSet(then, Holder) = SumFunctionOnSet(share, Holder)
  BY <1>1, <1>2, <1>3, <1>4, <1>5
<1> QED
  BY <1>6 DEF TotalSupply, then

LEMMA DepositUndiluted ==
  ASSUME TypeOK, TypeOK', FeesInHand, 0 < TotalSupply, NEW u \in User, NEW amount \in Deposits,
         NEW weight, Deposit(u, amount, weight)
  PROVE  Undiluted
<1>1. amount \in Nat /\ 0 < PricingNav /\ PricingNav \in Nat /\ TotalSupply \in Nat
  BY VaultConstants, NavType, SupplyType DEF Deposit
<1>2. PICK fee \in Nat : fee = FeeOn(amount, depositFeeBps) /\ fee <= amount
  BY <1>1, FeeBelow DEF TypeOK
<1>3. PICK minted \in Nat : minted = Minted(amount, amount - FeeOn(amount, depositFeeBps))
  BY <1>1, MintedType
<1>4. PICK net \in Nat : net = amount - fee
  BY <1>1, <1>2
<1>5. /\ usdc' = usdc + amount /\ collectedFees' = collectedFees + fee
      /\ share' = [share EXCEPT ![u] = @ + minted]
      /\ UNCHANGED <<perpAllocated, perp>>
  BY <1>2, <1>3 DEF Deposit
<1>6. Worth' = Worth + net
  <2>1. usdc \in Nat /\ collectedFees \in Nat /\ perpAllocated \in Nat /\ mark \in Int /\ Gain \in Int
    BY DEF TypeOK, Gain
  <2>2. Gain' = Gain
    BY <1>5 DEF Gain, perp, account
  <2> QED
    BY <1>1, <1>2, <1>4, <1>5, <2>1, <2>2 DEF Worth, perp
<1>7. minted * PricingNav <= net * TotalSupply
  <2>1. net * TotalSupply \in Nat
    BY <1>1
  <2>2. minted = (net * TotalSupply) \div PricingNav
    BY <1>2, <1>3, <1>4 DEF Minted
  <2> HIDE DEF PricingNav, TotalSupply
  <2> QED
    BY <1>1, <2>1, <2>2, DivTimes
<1>8. TotalSupply' = TotalSupply + minted
  <2>1. minted \in Int
    OBVIOUS
  <2> QED
    BY <1>5, <2>1, SupplyChange
<1>9. PricingNav' \in Nat /\ PricingNav' >= PricingNav + net
  BY <1>1, <1>6, NavOfWorth, NavOfWorthNext DEF Floored
<1> HIDE DEF PricingNav, TotalSupply
<1>10. PricingNav * (TotalSupply + minted) <= PricingNav' * TotalSupply
  BY <1>1, <1>7, <1>9, MintedBelowPrice
<1> QED
  BY <1>8, <1>10 DEF Undiluted

LEMMA RedeemNowUndiluted ==
  ASSUME TypeOK, TypeOK', FeesInHand, NEW u \in User, NEW n \in ShareAmount, RedeemNow(u, n)
  PROVE  Undiluted
<1>1. n \in Nat /\ 0 < n /\ n <= share[u]
  BY VaultConstants DEF RedeemNow
<1>2. TotalSupply \in Nat /\ TotalSupply > 0 /\ n <= TotalSupply /\ PricingNav \in Nat
  BY <1>1, SupplyType, NavType DEF Holder, TypeOK
<1>3. PICK fee \in Nat, owed \in Nat : fee = Quote(n).fee /\ owed = Quote(n).owed
  BY <1>1, QuoteType
<1>4. n * PricingNav \in Nat
  BY <1>1, <1>2
<1>5. PICK gross \in Nat : gross = (n * PricingNav) \div TotalSupply
                           /\ gross * TotalSupply <= n * PricingNav
  <2> HIDE DEF PricingNav, TotalSupply
  <2> QED
    BY <1>2, <1>4, DivTimes
<1>6. fee + owed = gross
  <2>1. fee = FeeOn(gross, redeemFeeBps) /\ owed = gross - FeeOn(gross, redeemFeeBps)
    BY <1>3, <1>5 DEF Quote
  <2> QED
    BY <1>3, <1>5, <2>1
<1>7. /\ usdc' = usdc - owed /\ collectedFees' = collectedFees + fee
      /\ share' = [share EXCEPT ![u] = @ - n]
      /\ UNCHANGED <<perpAllocated, perp>>
  BY <1>3 DEF RedeemNow
<1>8. Worth' = Worth - gross
  <2>1. usdc \in Nat /\ collectedFees \in Nat /\ perpAllocated \in Nat /\ mark \in Int /\ Gain \in Int
    BY DEF TypeOK, Gain
  <2>2. Gain' = Gain
    BY <1>7 DEF Gain, perp, account
  <2> QED
    BY <1>3, <1>6, <1>7, <2>1, <2>2 DEF Worth, perp
<1>9. TotalSupply' = TotalSupply - n
  <2>1. PICK d \in Int : d = 0 - n
    BY <1>1
  <2>2. share' = [share EXCEPT ![u] = @ + d]
    <3>1. share[u] - n = share[u] + d
      BY <1>1, <2>1 DEF TypeOK, Holder
    <3> QED
      BY <1>7, <3>1
  <2>3. TotalSupply' = TotalSupply + d
    BY <2>2, SupplyChange
  <2> QED
    BY <1>1, <1>2, <2>1, <2>3
<1>10. CASE Worth > 0
  <2>1. PricingNav' \in Nat /\ PricingNav' >= PricingNav - gross
    BY <1>8, <1>10, NavOfWorth, NavOfWorthNext DEF Floored
  <2> HIDE DEF PricingNav, TotalSupply
  <2>2. PricingNav * (TotalSupply - n) <= PricingNav' * TotalSupply
    BY <1>1, <1>2, <1>5, <2>1, BurnedAbovePrice
  <2> QED
    BY <1>9, <2>2 DEF Undiluted
<1>11. CASE ~ Worth > 0
  <2>1. PricingNav = 0 /\ PricingNav' \in Nat
    BY <1>11, NavOfWorth, NavOfWorthNext DEF Floored
  <2> DEFINE supply == TotalSupply
             supplyThen == TotalSupply'
             navThen == PricingNav'
  <2>2. supply \in Nat /\ supplyThen \in Int /\ navThen \in Nat
    BY <1>1, <1>2, <1>9, <2>1
  <2> HIDE DEF supply, supplyThen, navThen
  <2>3. 0 * supplyThen <= navThen * supply
    BY <2>2
  <2> QED
    BY <2>1, <2>3 DEF Undiluted, supply, supplyThen, navThen
<1> QED
  BY <1>10, <1>11

\* Steps that leave the shares.
LEMMA SharesKept ==
  ASSUME TypeOK, TypeOK', FeesInHand, UNCHANGED <<share, mark, wired>>,
         usdc' - collectedFees' + perpAllocated' + (IF wired THEN realised' ELSE 0)
           >= usdc - collectedFees + perpAllocated + (IF wired THEN realised ELSE 0)
  PROVE  Undiluted
<1>1. TotalSupply' = TotalSupply
  BY DEF TotalSupply
<1>2. Worth' >= Worth
  <2> DEFINE before == usdc - collectedFees + perpAllocated
             after == usdc' - collectedFees' + perpAllocated'
  <2>1. before \in Int /\ after \in Int /\ mark \in Int /\ realised \in Int /\ realised' \in Int
    BY DEF TypeOK
  <2>2. Worth = before + mark + Gain /\ Worth' = after + mark + Gain'
    BY DEF Worth
  <2> DEFINE gain == Gain
             gainThen == Gain'
  <2>3. after + gainThen >= before + gain /\ gain \in Int /\ gainThen \in Int
    BY <2>1 DEF Gain
  <2>4. Worth = before + mark + gain /\ Worth' = after + mark + gainThen
    BY <2>2
  <2> HIDE DEF before, after, gain, gainThen
  <2> QED
    BY <2>1, <2>3, <2>4
<1> QED
  BY <1>1, <1>2, WorthKept

\* Every step but those that touch the queue and the owner's choice of another
\* VaultAccounting; the account's principal covers what was allocated.
LEMMA StepUndiluted ==
  ASSUME TypeOK, TypeOK', FeesInHand, PrincipalThere, 0 < TotalSupply, UNCHANGED <<mark, wired>>,
         \/ GiftStep \/ OwnerStep \/ OutsiderStep
         \/ MarkMoves \/ (PositionStep /\ UNCHANGED locked)
         \/ PolicyOnly
  PROVE  Undiluted
<1> DEFINE then == usdc' - collectedFees' + perpAllocated' + (IF wired THEN realised' ELSE 0)
           before == usdc - collectedFees + perpAllocated + (IF wired THEN realised ELSE 0)
<1>1. /\ usdc \in Nat /\ collectedFees \in Nat /\ perpAllocated \in Nat /\ realised \in Int
      /\ deposited \in Nat /\ locked \in Nat
  BY DEF TypeOK
<1>2. ASSUME NEW u \in User, NEW h \in Holder, NEW n \in ShareAmount, TransferShares(u, h, n)
      PROVE  Undiluted
  <2>1. TotalSupply' = TotalSupply
    BY <1>2, SupplyMoved
  <2>2. UNCHANGED <<usdc, collectedFees, perpAllocated, mark, wired, realised>>
    BY <1>2 DEF TransferShares, perp, account
  <2>3. Worth' = Worth
    BY <2>2 DEF Worth, Gain
  <2>4. Worth' >= Worth
    BY <2>3, NavOfWorth
  <2> QED
    BY <2>1, <2>4, WorthKept
<1>3. ASSUME NEW u \in User, Approve(u) PROVE Undiluted
  <2>1. UNCHANGED share /\ then >= before
    BY <1>1, <1>3 DEF Approve, perp, account
  <2> QED
    BY <2>1, SharesKept
<1>4. ASSUME NEW u \in User, NEW amount \in Deposits, TopUpReserve(u, amount) PROVE Undiluted
  <2>1. UNCHANGED share /\ then >= before
    BY <1>1, <1>4, VaultConstants DEF TopUpReserve, perp, account
  <2> QED
    BY <2>1, SharesKept
<1>5. ASSUME NEW amount \in PerpAmount, AllocateToPerp(amount) PROVE Undiluted
  <2>1. UNCHANGED share /\ then >= before
    BY <1>1, <1>5, VaultConstants DEF AllocateToPerp, PayIn
  <2> QED
    BY <2>1, SharesKept
<1>6. ASSUME NEW amount \in PerpAmount, WithdrawFromPerp(amount) PROVE Undiluted
  <2>1. perpAllocated <= deposited /\ wired
    BY <1>6 DEF WithdrawFromPerp, PrincipalThere
  <2>2. UNCHANGED share /\ then >= before
    BY <1>1, <1>6, <2>1 DEF WithdrawFromPerp, TakeOut, AllocationLeft, Floored
  <2> QED
    BY <2>2, SharesKept
<1>7. ASSUME CollectFees PROVE Undiluted
  <2>1. UNCHANGED share /\ then >= before
    BY <1>1, <1>7 DEF CollectFees, perp, account
  <2> QED
    BY <2>1, SharesKept
<1>8. ASSUME NEW u \in User, NEW amount \in PerpAmount, DepositCapitalBy(u, amount) PROVE Undiluted
  <2>1. UNCHANGED share /\ then >= before
    BY <1>1, <1>8 DEF DepositCapitalBy, PayIn
  <2> QED
    BY <2>1, SharesKept
<1>9. ASSUME NEW amount \in PerpAmount, WithdrawCapitalByAnyone(amount) PROVE Undiluted
  <2>1. UNCHANGED share /\ then >= before
    BY <1>1, <1>9 DEF WithdrawCapitalByAnyone, TakeOut, Untouched
  <2> QED
    BY <2>1, SharesKept
<1>10. ASSUME MarkMoves PROVE Undiluted
  <2>1. UNCHANGED share /\ then >= before
    BY <1>1, <1>10 DEF MarkMoves, Untouched, account
  <2> QED
    BY <2>1, SharesKept
<1>11. ASSUME NEW c \in Collateral, OpenPosition(c) PROVE Undiluted
  <2>1. UNCHANGED share /\ then >= before
    BY <1>1, <1>11 DEF OpenPosition, Lock, Untouched
  <2> QED
    BY <2>1, SharesKept
<1>12. ASSUME NEW atRisk \in Collateral, NEW back \in Payback, ClosePosition(atRisk, back),
              UNCHANGED locked
       PROVE  Undiluted
  <2>1. atRisk = 0 /\ back \in Nat
    BY <1>1, <1>12 DEF ClosePosition, Settle
  <2>2. UNCHANGED share /\ then >= before
    BY <1>1, <1>12, <2>1 DEF ClosePosition, Settle, Untouched
  <2> QED
    BY <2>2, SharesKept
<1>13. ASSUME PolicyOnly PROVE Undiluted
  <2>1. UNCHANGED share /\ then >= before
    BY <1>1, <1>13 DEF PolicyOnly, perp, account
  <2> QED
    BY <2>1, SharesKept
<1> QED
  BY <1>2, <1>3, <1>4, <1>5, <1>6, <1>7, <1>8, <1>9, <1>10, <1>11, <1>12, <1>13
     DEF GiftStep, OwnerStep, OutsiderStep, PositionStep

-----------------------------------------------------------------------------
(* The vault on its own, and with fills from other chains.                 *)

LEMMA VaultInits ==
  ASSUME Init
  PROVE  TypeOK /\ QueueExact
<1>1. TypeOK
  <2>1. NoRequest \in Request
    BY DEF NoRequest, Request, Holder
  <2>2. pendingRedemptions \in [Id -> Request] /\ pendingRedemptionCount \in 0..MaxQueue
    BY <2>1, VaultConstants DEF Init
  <2>3. minReserveBps \in 0..BPS_DENOMINATOR /\ minDepositWeightBps \in 0..BPS_DENOMINATOR
    BY DEF Init, BPS_DENOMINATOR
  <2>4. wallet \in [User -> Nat] /\ share \in [Holder -> Nat]
    BY VaultConstants DEF Init
  <2>5. depositFeeBps \in 0..500 /\ redeemFeeBps \in 0..500 /\ maxPerpAllocation \in Nat
    BY DEF Init
  <2>6. approved \in [User -> BOOLEAN] /\ wired \in BOOLEAN /\ mark \in Int
    <3>1. approved = [u \in User |-> FALSE] /\ wired = FALSE /\ mark = 0
      BY DEF Init
    <3>2. approved \in [User -> BOOLEAN] /\ wired \in BOOLEAN
      BY <3>1, Zenon
    <3>3. mark \in Int
      BY <3>1
    <3> QED
      BY <3>2, <3>3
  <2>7. /\ usdc \in Nat /\ collectedFees \in Nat /\ perpAllocated \in Nat
        /\ pendingRedemptionsUsdc \in Nat
        /\ deposited \in Nat /\ realised \in Int /\ locked \in Nat
    BY DEF Init, NewAccount
  <2> QED
    BY <2>2, <2>3, <2>4, <2>5, <2>6, <2>7 DEF TypeOK
<1>2. Outstanding = {}
  BY DEF Init, Outstanding, OpenRequest, Id
<1>3. Owed = 0 /\ Locked = 0
  BY <1>2, SumEmpty DEF Owed, Locked
<1> QED
  BY <1>1, <1>3 DEF Init, QueueExact, QueueSumExact, LockedSharesCovered, Holder

LEMMA VaultSteps ==
  ASSUME TypeOK, QueueExact,
         \/ UserStep \/ GiftStep \/ OwnerStep \/ PolicyStep \/ MarketStep \/ OutsiderStep
         \/ \E id \in Id, received \in Nat : Fill(id, received)
         \/ UNCHANGED vars
  PROVE  TypeOK' /\ QueueExact'
<1>1. CASE UserStep
  BY <1>1, DepositKeeps, RedeemNowKeeps, RedeemAndQueueKeeps DEF UserStep, Redeem
<1>2. CASE GiftStep
  BY <1>2, GiftKeeps
<1>3. CASE OwnerStep
  BY <1>3, OwnerKeeps
<1>4. CASE PolicyStep
  BY <1>4, PolicyKeeps
<1>5. CASE MarketStep \/ OutsiderStep
  BY <1>5, OutsideKeeps
<1>6. CASE \E id \in Id, received \in Nat : Fill(id, received)
  BY <1>6, FillKeeps
<1>7. CASE UNCHANGED vars
  <2>1. TypeOK' /\ UNCHANGED queue /\ share'[Self] >= share[Self]
    BY <1>7 DEF TypeOK, vars, queue, policy, perp, account, Holder
  <2> QED
    BY <2>1, QueueStays
<1> QED
  BY <1>1, <1>2, <1>3, <1>4, <1>5, <1>6, <1>7

LEMMA VaultNexts ==
  ASSUME TypeOK, QueueExact, [Next]_vars
  PROVE  TypeOK' /\ QueueExact'
<1>1. KeeperStep => \E id \in Id, received \in Nat : Fill(id, received)
  BY DEF KeeperStep, ProcessPendingRedemption
<1> QED
  BY <1>1, VaultSteps DEF Next

\* Amounts, shares, requests and settings of a vault keep their types: no
\* subtraction of BasketVault.sol goes below zero and no request names an
\* amount that is not there.
THEOREM VaultTyped == Spec => []TypeOK
BY VaultInits, VaultNexts, PTL DEF Spec

\* pendingRedemptionsUsdc is what the open requests are owed and the vault holds
\* the shares they locked, for any users, prices, fees and order of fills.
THEOREM QueueAddsUp == Spec => []QueueExact
BY VaultInits, VaultNexts, PTL DEF Spec

\* A request that was not queued yet is blank, so queueing one always shows.
FutureBlank ==
  \A id \in Id : id >= pendingRedemptionCount => pendingRedemptions[id] = NoRequest

LEMMA FutureStays ==
  ASSUME TypeOK, FutureBlank, [Next]_vars
  PROVE  FutureBlank'
<1> USE DEF FutureBlank
<1>1. CASE UNCHANGED queue
  BY <1>1 DEF queue
<1>2. ASSUME NEW u \in User, NEW n \in ShareAmount, RedeemAndQueue(u, n) PROVE FutureBlank'
  <2> DEFINE id == pendingRedemptionCount
  <2>1. PICK r : pendingRedemptions' = [pendingRedemptions EXCEPT ![id] = r]
                 /\ pendingRedemptionCount' = id + 1
    BY <1>2 DEF RedeemAndQueue
  <2>2. id \in Nat /\ \A i \in Id : i \in Nat
    BY VaultConstants DEF TypeOK, Id
  <2>3. pendingRedemptions \in [Id -> Request]
    BY DEF TypeOK
  <2> QED
    BY <2>1, <2>2, <2>3
<1>3. ASSUME NEW id \in Id, ProcessPendingRedemption(id) PROVE FutureBlank'
  <2>1. /\ id < pendingRedemptionCount /\ pendingRedemptionCount' = pendingRedemptionCount
        /\ pendingRedemptions' = [pendingRedemptions EXCEPT ![id].completed = TRUE]
    BY <1>3 DEF ProcessPendingRedemption, Fill, OpenRequest
  <2>2. pendingRedemptions \in [Id -> Request] /\ pendingRedemptionCount \in Nat
        /\ \A i \in Id : i \in Nat
    BY VaultConstants DEF TypeOK, Id
  <2>3. \A i \in Id : i # id => pendingRedemptions'[i] = pendingRedemptions[i]
    BY <2>1, <2>2
  <2> QED
    BY <2>1, <2>2, <2>3
<1>4. Next => \/ UNCHANGED queue
              \/ \E u \in User, n \in ShareAmount : RedeemAndQueue(u, n)
              \/ \E id \in Id : ProcessPendingRedemption(id)
  <2>1. UserStep => UNCHANGED queue \/ \E u \in User, n \in ShareAmount : RedeemAndQueue(u, n)
    BY DEF UserStep, Deposit, Redeem, RedeemNow
  <2>2. GiftStep \/ OwnerStep => UNCHANGED queue
    BY DEF GiftStep, OwnerStep, TransferShares, Approve, TopUpReserve, AllocateToPerp,
       WithdrawFromPerp, CollectFees
  <2>3. PolicyStep => UNCHANGED queue
    BY DEF PolicyStep, PolicyOnly, SetFees, SetMaxPerpAllocation, SetMinReserveBps,
       SetMinDepositWeightBps, SetVaultAccounting
  <2>4. MarketStep \/ OutsiderStep => UNCHANGED queue
    BY DEF MarketStep, OutsiderStep, MarkMoves, PositionStep, OpenPosition, ClosePosition,
       DepositCapitalBy, WithdrawCapitalByAnyone, Untouched
  <2> QED
    BY <2>1, <2>2, <2>3, <2>4 DEF Next, KeeperStep
<1>5. CASE UNCHANGED vars
  BY <1>1, <1>5 DEF vars
<1> QED
  BY <1>1, <1>2, <1>3, <1>4, <1>5

LEMMA QueueingShows ==
  ASSUME TypeOK, FutureBlank, NEW u \in User, NEW n \in ShareAmount, RedeemAndQueue(u, n)
  PROVE  pendingRedemptions' # pendingRedemptions
<1> DEFINE id == pendingRedemptionCount
<1>1. id \in Id /\ pendingRedemptions[id] = NoRequest
  BY VaultConstants DEF RedeemAndQueue, TypeOK, Id, FutureBlank
<1>2. pendingRedemptions'[id].user = u
  BY <1>1 DEF RedeemAndQueue, TypeOK
<1>3. u # Self /\ NoRequest.user = Self
  BY VaultConstants DEF NoRequest
<1> QED
  BY <1>1, <1>2, <1>3

LEMMA FillingShows ==
  ASSUME TypeOK, NEW id \in Id, ProcessPendingRedemption(id)
  PROVE  pendingRedemptions' # pendingRedemptions
<1>1. /\ ~ pendingRedemptions[id].completed
      /\ pendingRedemptions' = [pendingRedemptions EXCEPT ![id].completed = TRUE]
  BY DEF ProcessPendingRedemption, Fill, OpenRequest
<1>2. pendingRedemptions[id] \in Request /\ pendingRedemptions \in [Id -> Request]
  BY DEF TypeOK
<1>3. pendingRedemptions'[id] = [pendingRedemptions[id] EXCEPT !.completed = TRUE]
  BY <1>1, <1>2
<1>4. pendingRedemptions'[id].completed
  BY <1>2, <1>3, Completing
<1> QED
  BY <1>1, <1>4

LEMMA NextUndiluted ==
  ASSUME TypeOK, TypeOK', FutureBlank, Next, FeesInHand, PrincipalThere, 0 < TotalSupply,
         UNCHANGED <<pendingRedemptions, mark, locked, wired>>,
         \A flag \in BOOLEAN : ~ SetVaultAccounting(flag)
  PROVE  Undiluted
<1>1. CASE UserStep
  BY <1>1, DepositUndiluted, RedeemNowUndiluted, QueueingShows DEF UserStep, Redeem
<1>2. CASE KeeperStep
  BY <1>2, FillingShows DEF KeeperStep
<1>3. CASE PolicyStep
  <2>1. PolicyOnly
    BY <1>3 DEF PolicyStep, SetFees, SetMaxPerpAllocation, SetMinReserveBps, SetMinDepositWeightBps
  <2> QED
    BY <2>1, StepUndiluted
<1>4. CASE GiftStep \/ OwnerStep \/ OutsiderStep \/ MarketStep
  BY <1>4, StepUndiluted DEF MarketStep
<1> QED
  BY <1>1, <1>2, <1>3, <1>4 DEF Next

\* While the capital that the vault allocated is on its account, nobody else's
\* deposits, redemptions, transfers and payments, and nothing the owner moves,
\* lowers what a share is worth: for any users, amounts, fees, prices, profits and
\* losses, and with every rounding that BasketVault.sol does.
THEOREM SharesKeepWorth == Spec => NoDilution
<1> DEFINE SInv == TypeOK /\ QueueExact /\ FutureBlank
           Kept == /\ FeesInHand /\ PrincipalThere /\ 0 < TotalSupply
                   /\ UNCHANGED <<pendingRedemptions, mark, locked, wired>>
                   /\ \A flag \in BOOLEAN : ~ SetVaultAccounting(flag)
                   => PricingNav * TotalSupply' <= PricingNav' * TotalSupply
<1>1. Init => SInv
  BY VaultInits DEF Init, FutureBlank
<1>2. SInv /\ [Next]_vars => SInv'
  BY VaultNexts, FutureStays
<1>3. SInv /\ [Next]_vars => [Kept]_vars
  <2> SUFFICES ASSUME SInv, Next PROVE Kept
    OBVIOUS
  <2>1. TypeOK'
    BY VaultNexts
  <2> QED
    BY <2>1, NextUndiluted DEF Undiluted
<1>4. Spec => [][Kept]_vars
  <2> HIDE DEF SInv, Kept
  <2> QED
    BY <1>1, <1>2, <1>3, PTL DEF Spec
<1> QED
  BY <1>4 DEF NoDilution

\* A redemption that is queued gets the quoted amount, less what the partial fill
\* rounds away: less than the price of one share.
THEOREM QueuedGetsQuote == Spec => RedemptionPaid
<1> DEFINE Paid == \A u \in User, n \in ShareAmount : RedeemAndQueue(u, n) =>
                     LET owed     == Quote(n).owed
                         received == (wallet'[u] - wallet[u])
                                       + pendingRedemptionsUsdc' - pendingRedemptionsUsdc
                     IN received <= owed /\ (owed - received) * n < owed
<1>1. ASSUME TypeOK, NEW u \in User, NEW n \in ShareAmount, RedeemAndQueue(u, n)
      PROVE  LET owed     == Quote(n).owed
                 received == (wallet'[u] - wallet[u])
                               + pendingRedemptionsUsdc' - pendingRedemptionsUsdc
             IN received <= owed /\ (owed - received) * n < owed
  <2> DEFINE q == Quote(n)
             received == (wallet'[u] - wallet[u]) + pendingRedemptionsUsdc' - pendingRedemptionsUsdc
  <2>1. n \in Nat /\ 0 < n /\ n <= share[u] /\ q.idle < q.owed
    BY <1>1, VaultConstants DEF RedeemAndQueue
  <2>2. PICK owed \in Nat, idle \in Nat : owed = q.owed /\ idle = q.idle /\ idle < owed
    BY <1>1, <2>1, QuoteType
  <2>3. wallet[u] \in Nat /\ pendingRedemptionsUsdc \in Nat /\ wallet \in [User -> Nat]
    BY <1>1 DEF TypeOK
  <2>4. /\ wallet' = [wallet EXCEPT ![u] = @ + (IF PartialShares(n, q) > 0 THEN q.idle ELSE 0)]
        /\ pendingRedemptionsUsdc' = pendingRedemptionsUsdc + (q.owed - q.idle)
    BY <1>1 DEF RedeemAndQueue, Remainder
  <2> HIDE DEF q
  <2>5. PartialShares(n, q) \in Nat /\ PartialShares(n, q) = (n * idle) \div owed
    BY <2>1, <2>2, PartialType DEF PartialShares
  <2>6. CASE PartialShares(n, q) > 0
    <3>1. received = owed
      BY <2>2, <2>3, <2>4, <2>5, <2>6
    <3> QED
      BY <2>1, <2>2, <3>1 DEF q
  <2>7. CASE PartialShares(n, q) = 0
    <3>1. received = owed - idle
      BY <2>2, <2>3, <2>4, <2>7
    <3>2. n * idle < owed
      <4>1. n * idle \in Nat /\ owed > 0
        BY <2>1, <2>2
      <4>2. PICK a \in Nat : a = n * idle
        BY <4>1
      <4> QED
        BY <2>2, <2>5, <2>7, <4>1, <4>2
    <3>3. (owed - received) * n < owed
      BY <2>1, <2>2, <3>1, <3>2
    <3> QED
      BY <2>2, <3>1, <3>3 DEF q
  <2> QED
    BY <2>5, <2>6, <2>7
<1>2. TypeOK => Paid
  BY <1>1
<1>3. Spec => [][Paid]_vars
  <2>1. TypeOK /\ [Next]_vars => [Paid]_vars
    BY <1>2
  <2> HIDE DEF Paid
  <2> QED
    BY <2>1, VaultTyped, PTL DEF Spec
<1> QED
  BY <1>3 DEF RedemptionPaid

-----------------------------------------------------------------------------
(* What is behind the queue.  In the arithmetic n shares are left unlocked, *)
(* v of NAV is not owed, and a request is owed p for l locked shares.       *)

LEMMA Cancel ==
  ASSUME NEW a \in Int, NEW b \in Int, NEW t \in Nat, t > 0, a * t <= b * t
  PROVE  a <= b
<1>1. CASE a > b
  <2>1. (a - b - 1) * t >= 0
    BY <1>1
  <2>2. a * t >= b * t + t
    BY <2>1
  <2>3. PICK x \in Int, y \in Int : x = a * t /\ y = b * t
    OBVIOUS
  <2> QED
    BY <2>2, <2>3
<1> QED
  BY <1>1

\* Who takes at most the price for his shares takes at most his part of what is
\* left when the queue is paid.
LEMMA GrossBelowLeft ==
  ASSUME NEW s \in Nat, NEW locks \in Nat, NEW n \in Nat, NEW v \in Nat, NEW owes \in Nat,
         NEW g \in Nat, NEW k \in Nat, s > 0, s = n + locks, 0 < k, k <= n,
         owes * n <= locks * v, g * s <= k * (v + owes)
  PROVE  g * n <= k * v /\ g <= v
<1>1. owes * s <= locks * (v + owes)
  BY SMT
<1>2. (v + owes) * n <= v * s
  BY <1>1, SMT
<1>3. g * n <= k * v
  <2>1. (g * s) * n <= (k * (v + owes)) * n
    <3>1. g * s \in Nat /\ k * (v + owes) \in Nat
      OBVIOUS
    <3> QED
      BY <3>1, ProductUp
  <2>2. ((v + owes) * n) * k <= (v * s) * k
    <3>1. (v + owes) * n \in Nat /\ v * s \in Nat
      OBVIOUS
    <3> QED
      BY <1>2, <3>1, ProductUp
  <2>3. (g * n) * s <= (k * v) * s
    <3>1. (g * s) * n = (g * n) * s /\ (k * (v + owes)) * n = ((v + owes) * n) * k
          /\ (v * s) * k = (k * v) * s
      BY SMT
    <3>2. PICK a \in Int, b \in Int, c \in Int, d \in Int :
            a = (g * n) * s /\ b = ((v + owes) * n) * k /\ c = (k * v) * s /\ d = (g * s) * n
      OBVIOUS
    <3> QED
      BY <2>1, <2>2, <3>1, <3>2
  <2>4. g * n \in Int /\ k * v \in Int
    OBVIOUS
  <2> QED
    BY <2>3, <2>4, Cancel
<1>4. g <= v
  <2>1. k * v <= n * v
    BY ProductUp
  <2>2. g * n <= v * n
    <3>1. PICK a \in Int, b \in Int, c \in Int : a = g * n /\ b = k * v /\ c = n * v
      OBVIOUS
    <3>2. v * n = n * v
      OBVIOUS
    <3> QED
      BY <1>3, <2>1, <3>1, <3>2
  <2>3. n > 0
    OBVIOUS
  <2> QED
    BY <2>2, <2>3, Cancel
<1> QED
  BY <1>3, <1>4

\* A request stays covered when k shares go with g.
LEMMA CoveredAfter ==
  ASSUME NEW n \in Nat, NEW v \in Nat, NEW g \in Nat, NEW k \in Nat, NEW p \in Nat, NEW l \in Nat,
         0 < n, k <= n, g <= v, g * n <= k * v, p * n <= l * v
  PROVE  p * (n - k) <= l * (v - g)
<1>1. PICK m \in Nat, w \in Nat : m = n - k /\ w = v - g
  OBVIOUS
<1>2. v * m <= w * n
  <2>1. PICK a \in Int, b \in Int, c \in Int : a = v * n /\ b = k * v /\ c = g * n
    OBVIOUS
  <2>2. v * m = a - b /\ w * n = a - c
    BY <1>1, <2>1, SMT
  <2> QED
    BY <2>1, <2>2
<1>3. (p * n) * m <= (l * v) * m
  <2>1. p * n \in Nat /\ l * v \in Nat
    OBVIOUS
  <2> QED
    BY <2>1, ProductUp
<1>4. (v * m) * l <= (w * n) * l
  <2>1. v * m \in Nat /\ w * n \in Nat
    OBVIOUS
  <2> QED
    BY <1>2, <2>1, ProductUp
<1>5. (p * m) * n <= (l * w) * n
  <2>1. (p * n) * m = (p * m) * n /\ (l * v) * m = (v * m) * l /\ (w * n) * l = (l * w) * n
    BY SMT
  <2>2. PICK a \in Int, b \in Int, c \in Int : a = (p * m) * n /\ b = (v * m) * l /\ c = (l * w) * n
    OBVIOUS
  <2> QED
    BY <1>3, <1>4, <2>1, <2>2
<1>6. p * m <= l * w
  <2>1. p * m \in Int /\ l * w \in Int
    OBVIOUS
  <2> QED
    BY <1>5, <2>1, Cancel
<1> QED
  BY <1>1, <1>6

\* The request that is queued for what could not be paid: i of o was, for b of
\* the k shares.
LEMMA NewCovered ==
  ASSUME NEW n \in Nat, NEW v \in Nat, NEW g \in Nat, NEW k \in Nat,
         NEW o \in Nat, NEW i \in Nat, NEW b \in Nat,
         k <= n, g <= v, g * n <= k * v, o <= g, i < o, b <= k, b * o <= k * i
  PROVE  (o - i) * (n - k) <= (k - b) * (v - g)
<1>1. PICK m \in Nat, w \in Nat, p \in Nat, l \in Nat : m = n - k /\ w = v - g /\ p = o - i /\ l = k - b
  OBVIOUS
<1>2. g * m <= k * w
  <2>1. PICK x \in Int, y \in Int, z \in Int : x = g * n /\ y = k * v /\ z = g * k
    OBVIOUS
  <2>2. g * m = x - z /\ k * w = y - z
    BY <1>1, <2>1, SMT
  <2> QED
    BY <2>1, <2>2
<1>3. o * m <= k * w
  <2>1. o * m <= g * m
    BY ProductUp
  <2>2. PICK x \in Int, y \in Int, z \in Int : x = o * m /\ y = g * m /\ z = k * w
    OBVIOUS
  <2> QED
    BY <1>2, <2>1, <2>2
<1>4. p * k <= l * o
  <2>1. PICK x \in Int, y \in Int, z \in Int : x = o * k /\ y = k * i /\ z = b * o
    OBVIOUS
  <2>2. p * k = x - y /\ l * o = x - z
    BY <1>1, <2>1, SMT
  <2> QED
    BY <2>1, <2>2
<1>5. (o * m) * p <= (k * w) * p
  <2>1. o * m \in Nat /\ k * w \in Nat
    OBVIOUS
  <2> QED
    BY <1>3, <2>1, ProductUp
<1>6. (p * k) * w <= (l * o) * w
  <2>1. p * k \in Nat /\ l * o \in Nat
    OBVIOUS
  <2> QED
    BY <1>4, <2>1, ProductUp
<1>7. (p * m) * o <= (l * w) * o
  <2>1. (o * m) * p = (p * m) * o /\ (k * w) * p = (p * k) * w /\ (l * o) * w = (l * w) * o
    BY SMT
  <2>2. PICK x \in Int, y \in Int, z \in Int : x = (p * m) * o /\ y = (p * k) * w /\ z = (l * w) * o
    OBVIOUS
  <2> QED
    BY <1>5, <1>6, <2>1, <2>2
<1>8. p * m <= l * w
  <2>1. p * m \in Int /\ l * w \in Int /\ o > 0
    OBVIOUS
  <2> QED
    BY <1>7, <2>1, Cancel
<1> QED
  BY <1>1, <1>8

\* A deposit at a price that no request is above.
LEMMA DepositCovered ==
  ASSUME NEW s \in Nat, NEW nav \in Nat, NEW n \in Nat, NEW v \in Nat, NEW m \in Nat, NEW net \in Nat,
         NEW p \in Nat, NEW l \in Nat, 0 < nav,
         p * n <= l * v, p * s <= l * nav, m * nav <= net * s
  PROVE  p * (n + m) <= l * (v + net)
<1>1. (m * nav) * p <= (net * s) * p
  <2>1. m * nav \in Nat /\ net * s \in Nat
    OBVIOUS
  <2> QED
    BY <2>1, ProductUp
<1>2. (p * s) * net <= (l * nav) * net
  <2>1. p * s \in Nat /\ l * nav \in Nat
    OBVIOUS
  <2> QED
    BY <2>1, ProductUp
<1>3. (p * m) * nav <= (l * net) * nav
  <2>1. (m * nav) * p = (p * m) * nav /\ (net * s) * p = (p * s) * net /\ (l * nav) * net = (l * net) * nav
    BY SMT
  <2>2. PICK x \in Int, y \in Int, z \in Int : x = (p * m) * nav /\ y = (p * s) * net /\ z = (l * net) * nav
    OBVIOUS
  <2> QED
    BY <1>1, <1>2, <2>1, <2>2
<1>4. p * m <= l * net
  <2>1. p * m \in Int /\ l * net \in Int
    OBVIOUS
  <2> QED
    BY <1>3, <2>1, Cancel
<1>5. PICK a \in Int, b \in Int, c \in Int, d \in Int : a = p * n /\ b = l * v /\ c = p * m /\ d = l * net
  OBVIOUS
<1>6. p * (n + m) = a + c /\ l * (v + net) = b + d
  BY <1>5, SMT
<1> QED
  BY <1>4, <1>5, <1>6

\* The shares that are not locked, and what of NAV is not owed.
LEMMA CoverParts ==
  ASSUME TypeOK, QueueExact, QueueCovered
  PROVE  \E n, v, locks, owes \in Nat :
           /\ n = Unlocked /\ v = Left /\ locks = Locked /\ owes = pendingRedemptionsUsdc
           /\ TotalSupply = n + locks /\ PricingNav = v + owes
           /\ owes * n <= locks * v
           /\ \A u \in User : share[u] <= n
           /\ \A id \in Outstanding :
                OwedOf(id) * n <= pendingRedemptions[id].sharesLocked * v
<1> DEFINE owed == [i \in Id |-> OwedOf(i)]
           kept == [i \in Id |-> pendingRedemptions[i].sharesLocked]
<1>1. /\ IsFiniteSet(Outstanding) /\ Outstanding \subseteq Id
      /\ \A i \in Outstanding : owed[i] \in Nat /\ kept[i] \in Nat
  BY QueueTypes
<1>2. Owed = SumFunctionOnSet(owed, Outstanding) /\ Locked = SumFunctionOnSet(kept, Outstanding)
  BY DEF Owed, Locked
<1>3. \A i \in Outstanding : owed[i] = OwedOf(i) /\ kept[i] = pendingRedemptions[i].sharesLocked
  BY <1>1
<1> HIDE DEF owed, kept
<1>4. PICK locks \in Nat, owes \in Nat : locks = Locked /\ owes = Owed
  BY <1>1, <1>2, SumNat
<1>5. owes = pendingRedemptionsUsdc /\ locks <= share[Self]
  BY <1>4 DEF QueueExact, QueueSumExact, LockedSharesCovered
<1>6. PICK supply \in Nat, nav \in Nat : supply = TotalSupply /\ nav = PricingNav
  BY SupplyType, NavType
<1>7. \A u \in User : share[u] + share[Self] <= supply
  <2>1. /\ IsFiniteSet(Holder) /\ Self \in Holder /\ \A h \in Holder : share[h] \in Nat
        /\ Holder \ {Self} = User /\ IsFiniteSet(User)
    BY HolderFinite, VaultConstants DEF Holder, TypeOK
  <2>2. \A h \in Holder : share[h] \in Int
    BY <2>1
  <2>3. SumFunctionOnSet(share, Holder) = share[Self] + SumFunctionOnSet(share, User)
    BY <2>1, <2>2, SumRemove
  <2>4. SumFunctionOnSet(share, User) \in Nat /\ \A u \in User : share[u] <= SumFunctionOnSet(share, User)
    <3>1. \A u \in User : share[u] \in Nat
      BY <2>1
    <3> QED
      BY <2>1, <3>1, SumNat
  <2> QED
    BY <1>6, <2>1, <2>3, <2>4 DEF TotalSupply, Holder
<1>8. share[Self] \in Nat /\ share[Self] <= supply /\ \A u \in User : share[u] \in Nat
  BY <1>6, SupplyType DEF TypeOK, Holder
<1>9. PICK n \in Nat : n = supply - locks
  BY <1>5, <1>8
<1>10. PICK v \in Nat : v = nav - owes
  BY <1>4, <1>5, <1>6 DEF QueueCovered, Left
<1>11. Unlocked = n /\ Left = v
  BY <1>4, <1>5, <1>6, <1>9, <1>10 DEF Unlocked, Left
<1>12. \A i \in Outstanding : OwedOf(i) * n <= pendingRedemptions[i].sharesLocked * v
  BY <1>11 DEF QueueCovered
<1>13. owes * n <= locks * v
  <2>1. \A i \in Outstanding : owed[i] \in Nat /\ kept[i] \in Nat /\ owed[i] * n <= kept[i] * v
    BY <1>1, <1>3, <1>12
  <2>2. SumFunctionOnSet(owed, Outstanding) * n <= SumFunctionOnSet(kept, Outstanding) * v
    BY <1>1, <2>1, SumBelow
  <2> QED
    BY <1>2, <1>4, <2>2
<1>14. \A u \in User : share[u] <= n
  BY <1>5, <1>7, <1>8, <1>9
<1>15. TotalSupply = n + locks /\ PricingNav = v + owes
  BY <1>6, <1>9, <1>10
<1> HIDE DEF TotalSupply, PricingNav
<1> QED
  BY <1>4, <1>5, <1>11, <1>12, <1>13, <1>14, <1>15

LEMMA NavLowered ==
  ASSUME TypeOK, TypeOK', UNCHANGED <<perpAllocated, perp>>, NEW taken \in Nat,
         Floored(usdc' - collectedFees') >= Floored(usdc - collectedFees) - taken
  PROVE  PricingNav' \in Nat /\ PricingNav' >= PricingNav - taken
<1>1. usdc \in Nat /\ collectedFees \in Nat /\ usdc' \in Nat /\ collectedFees' \in Nat
      /\ perpAllocated \in Nat /\ mark \in Int
  BY DEF TypeOK
<1>2. PICK gain \in Int : gain = Gain /\ gain = Gain'
  BY DEF Gain, TypeOK, perp, account
<1>3. PICK idle \in Nat, idleThen \in Nat :
        idle = Floored(usdc - collectedFees) /\ idleThen = Floored(usdc' - collectedFees')
  <2>1. usdc - collectedFees \in Int /\ usdc' - collectedFees' \in Int
    BY <1>1
  <2> QED
    BY <2>1, FlooredType
<1>4. PricingNav = Floored(idle + perpAllocated + mark + gain)
  BY <1>2, <1>3 DEF PricingNav, TotalVaultValue, Idle, IdleBeside, Gain
<1>5. PricingNav' = Floored(idleThen + perpAllocated + mark + gain)
  <2>1. Idle' = idleThen
    BY <1>3 DEF Idle, IdleBeside, Floored
  <2> QED
    BY <1>2, <2>1 DEF PricingNav, TotalVaultValue, Gain, perp, Floored
<1>6. idleThen >= idle - taken
  BY <1>3
<1> QED
  BY <1>1, <1>4, <1>5, <1>6 DEF Floored

\* A quote is worth at most the shares' part of NAV.
LEMMA QuoteParts ==
  ASSUME TypeOK, NEW u \in User, NEW n \in Nat, 0 < n, n <= share[u]
  PROVE  \E gross, fee, owed, idle \in Nat :
           /\ fee = Quote(n).fee /\ owed = Quote(n).owed /\ idle = Quote(n).idle
           /\ fee + owed = gross /\ gross * TotalSupply <= n * PricingNav
           /\ idle = Floored(usdc - (collectedFees + fee))
           /\ idle >= Floored(usdc - collectedFees) - fee
<1>1. TotalSupply \in Nat /\ TotalSupply > 0 /\ PricingNav \in Nat
  BY SupplyType, NavType DEF Holder, TypeOK
<1>2. PICK fee \in Nat, owed \in Nat, idle \in Nat :
        fee = Quote(n).fee /\ owed = Quote(n).owed /\ idle = Quote(n).idle
  BY QuoteType
<1>3. n * PricingNav \in Nat
  BY <1>1
<1>4. PICK gross \in Nat : gross = (n * PricingNav) \div TotalSupply
                           /\ gross * TotalSupply <= n * PricingNav
  <2> HIDE DEF PricingNav, TotalSupply
  <2> QED
    BY <1>1, <1>3, DivTimes
<1>5. fee = FeeOn(gross, redeemFeeBps) /\ owed = gross - FeeOn(gross, redeemFeeBps)
      /\ idle = IdleBeside(collectedFees + fee)
  BY <1>2, <1>4 DEF Quote
<1>6. fee + owed = gross
  BY <1>2, <1>4, <1>5
<1>7. idle = Floored(usdc - (collectedFees + fee)) /\ idle >= Floored(usdc - collectedFees) - fee
  BY <1>2, <1>5 DEF IdleBeside, Floored, TypeOK
<1> HIDE DEF PricingNav, TotalSupply
<1> QED
  BY <1>2, <1>4, <1>6, <1>7

\* The cover after a step, from what the step leaves of shares and NAV.
LEMMA CoverNext ==
  ASSUME NEW n \in Int, NEW v \in Nat, NEW w \in Nat,
         n = TotalSupply' - Locked', w = PricingNav' - pendingRedemptionsUsdc', v <= w,
         \A id \in Outstanding' : /\ pendingRedemptions'[id].sharesLocked \in Nat
                                  /\ pendingRedemptions'[id].usdcOwed * n
                                       <= pendingRedemptions'[id].sharesLocked * v,
         \A id \in Outstanding' : pendingRedemptions'[id].usdcOwed \in Nat
  PROVE  QueueCovered'
<1>1. Unlocked' = n /\ Left' = w
  BY DEF Unlocked, Left
<1>2. ASSUME NEW id \in Outstanding'
      PROVE  pendingRedemptions'[id].usdcOwed * n <= pendingRedemptions'[id].sharesLocked * w
  <2>1. PICK l \in Nat, p \in Nat : l = pendingRedemptions'[id].sharesLocked
                                    /\ p = pendingRedemptions'[id].usdcOwed /\ p * n <= l * v
    BY <1>2
  <2>2. v * l <= w * l
    BY ProductUp
  <2>3. PICK x \in Int, y \in Int, z \in Int : x = p * n /\ y = l * v /\ z = l * w
    OBVIOUS
  <2>4. v * l = y /\ w * l = z
    BY <2>3
  <2> QED
    BY <2>1, <2>2, <2>3, <2>4
<1>3. \A id \in Outstanding' : OwedOf(id)' = pendingRedemptions'[id].usdcOwed
  BY DEF OwedOf
<1> DEFINE opened == Outstanding'
           requests == pendingRedemptions'
           left == Left'
           unlocked == Unlocked'
<1>4. QueueCovered' <=> /\ 0 <= left
                        /\ \A id \in opened : requests[id].usdcOwed * unlocked <= requests[id].sharesLocked * left
  BY DEF QueueCovered, OwedOf
<1>5. 0 <= left /\ \A id \in opened : requests[id].usdcOwed * unlocked <= requests[id].sharesLocked * left
  BY <1>1, <1>2
<1> QED
  BY <1>4, <1>5

LEMMA RequestTypes ==
  ASSUME TypeOK
  PROVE  \A id \in Outstanding : OwedOf(id) \in Nat /\ pendingRedemptions[id].sharesLocked \in Nat
                                 /\ OwedOf(id) = pendingRedemptions[id].usdcOwed
BY QueueTypes DEF OwedOf

\* The queue and its cover when no share, request or owed amount changes.
LEMMA RestCovered ==
  ASSUME TypeOK, TypeOK', QueueExact, QueueCovered, UNCHANGED queue,
         TotalSupply' = TotalSupply, PricingNav <= PricingNav'
  PROVE  QueueCovered'
<1>1. PICK n \in Nat, v \in Nat, locks \in Nat, owes \in Nat :
           /\ n = Unlocked /\ v = Left /\ locks = Locked /\ owes = pendingRedemptionsUsdc
           /\ TotalSupply = n + locks /\ PricingNav = v + owes
           /\ \A id \in Outstanding : OwedOf(id) * n <= pendingRedemptions[id].sharesLocked * v
  BY CoverParts
<1>2. UNCHANGED <<pendingRedemptions, pendingRedemptionCount, pendingRedemptionsUsdc>>
  BY DEF queue
<1>3. Outstanding' = Outstanding /\ Locked' = Locked
  BY <1>2 DEF Outstanding, OpenRequest, Locked
<1>4. PricingNav' \in Nat
  BY NavOfWorthNext
<1>5. PICK w \in Nat : w = PricingNav' - pendingRedemptionsUsdc' /\ v <= w
  <2>1. PICK nav \in Nat : nav = PricingNav'
    BY <1>4
  <2>2. v + owes <= nav /\ pendingRedemptionsUsdc' = owes
    BY <1>1, <1>2, <2>1
  <2>3. PICK w \in Nat : w = nav - owes /\ v <= w
    BY <2>2
  <2>4. w = PricingNav' - pendingRedemptionsUsdc'
    BY <2>1, <2>2, <2>3
  <2> QED
    BY <2>3, <2>4
<1>6. n = TotalSupply' - Locked'
  <2> HIDE DEF TotalSupply, Locked
  <2> QED
    BY <1>1, <1>3
<1>7. \A id \in Outstanding' : /\ pendingRedemptions'[id].sharesLocked \in Nat
                               /\ pendingRedemptions'[id].usdcOwed * n
                                    <= pendingRedemptions'[id].sharesLocked * v
                               /\ pendingRedemptions'[id].usdcOwed \in Nat
  BY <1>1, <1>2, <1>3, RequestTypes
<1> QED
  BY <1>5, <1>6, <1>7, CoverNext

LEMMA RedeemNowCovered ==
  ASSUME TypeOK, TypeOK', QueueExact, QueueCovered,
         NEW u \in User, NEW k \in ShareAmount, RedeemNow(u, k)
  PROVE  QueueCovered'
<1>1. k \in Nat /\ 0 < k /\ k <= share[u]
  BY VaultConstants DEF RedeemNow
<1>2. PICK n \in Nat, v \in Nat, locks \in Nat, owes \in Nat :
           /\ n = Unlocked /\ v = Left /\ locks = Locked /\ owes = pendingRedemptionsUsdc
           /\ TotalSupply = n + locks /\ PricingNav = v + owes
           /\ owes * n <= locks * v
           /\ \A h \in User : share[h] <= n
           /\ \A id \in Outstanding : OwedOf(id) * n <= pendingRedemptions[id].sharesLocked * v
  BY CoverParts
<1>3. PICK gross \in Nat, fee \in Nat, owed \in Nat, idle \in Nat :
           /\ fee = Quote(k).fee /\ owed = Quote(k).owed /\ idle = Quote(k).idle
           /\ fee + owed = gross /\ gross * TotalSupply <= k * PricingNav
           /\ idle = Floored(usdc - (collectedFees + fee))
           /\ idle >= Floored(usdc - collectedFees) - fee
  BY <1>1, QuoteParts
<1>4. k <= n
  BY <1>1, <1>2 DEF TypeOK, Holder
<1>5. gross * n <= k * v /\ gross <= v
  <2>1. PICK s \in Nat : s = n + locks /\ s > 0
    BY <1>1, <1>4
  <2>2. gross * s <= k * (v + owes)
    BY <1>2, <1>3, <2>1
  <2> QED
    BY <1>1, <1>2, <1>4, <2>1, <2>2, GrossBelowLeft
<1>6. /\ owed <= idle /\ collectedFees' = collectedFees + fee
      /\ share' = [share EXCEPT ![u] = @ - k] /\ usdc' = usdc - owed
      /\ UNCHANGED <<perpAllocated, queue, perp>>
  BY <1>3 DEF RedeemNow
<1>7. Floored(usdc' - collectedFees') >= Floored(usdc - collectedFees) - gross
  BY <1>3, <1>6 DEF TypeOK, Floored
<1>8. PricingNav' \in Nat /\ PricingNav' >= PricingNav - gross
  BY <1>6, <1>7, NavLowered
<1>9. TotalSupply' = TotalSupply - k
  <2>1. PICK d \in Int : d = 0 - k
    BY <1>1
  <2>2. share' = [share EXCEPT ![u] = @ + d]
    <3>1. share[u] - k = share[u] + d
      BY <1>1, <2>1 DEF TypeOK, Holder
    <3> QED
      BY <1>6, <3>1
  <2>3. TotalSupply' = TotalSupply + d
    BY <2>2, SupplyChange
  <2>4. TotalSupply \in Nat
    BY SupplyType
  <2> HIDE DEF TotalSupply
  <2> QED
    BY <1>1, <2>1, <2>3, <2>4
<1>10. UNCHANGED <<pendingRedemptions, pendingRedemptionCount, pendingRedemptionsUsdc>>
  BY <1>6 DEF queue
<1>11. Outstanding' = Outstanding /\ Locked' = Locked
  BY <1>10 DEF Outstanding, OpenRequest, Locked
<1>12. PICK m \in Nat, left \in Nat : m = n - k /\ left = v - gross
  BY <1>1, <1>4, <1>5
<1>13. PICK w \in Nat : w = PricingNav' - pendingRedemptionsUsdc' /\ left <= w
  <2>1. PICK nav \in Nat : nav = PricingNav'
    BY <1>8
  <2>2. v + owes - gross <= nav /\ pendingRedemptionsUsdc' = owes
    BY <1>2, <1>8, <1>10, <2>1
  <2>3. PICK w \in Nat : w = nav - owes /\ left <= w
    BY <1>5, <1>12, <2>2
  <2>4. w = PricingNav' - pendingRedemptionsUsdc'
    BY <2>1, <2>2, <2>3
  <2> QED
    BY <2>3, <2>4
<1>14. m = TotalSupply' - Locked'
  <2> HIDE DEF TotalSupply, Locked
  <2> QED
    BY <1>1, <1>2, <1>9, <1>11, <1>12
<1>15. ASSUME NEW id \in Outstanding'
       PROVE  /\ pendingRedemptions'[id].sharesLocked \in Nat /\ pendingRedemptions'[id].usdcOwed \in Nat
              /\ pendingRedemptions'[id].usdcOwed * m <= pendingRedemptions'[id].sharesLocked * left
  <2>1. PICK p \in Nat, l \in Nat : /\ p = pendingRedemptions'[id].usdcOwed
                                    /\ l = pendingRedemptions'[id].sharesLocked
                                    /\ p * n <= l * v
    BY <1>2, <1>10, <1>11, <1>15, RequestTypes
  <2>2. p * (n - k) <= l * (v - gross)
    BY <1>1, <1>4, <1>5, <2>1, CoveredAfter
  <2> QED
    BY <1>12, <2>1, <2>2
<1> QED
  BY <1>13, <1>14, <1>15, CoverNext

LEMMA RedeemAndQueueCovered ==
  ASSUME TypeOK, QueueExact, QueueCovered,
         NEW u \in User, NEW k \in ShareAmount, RedeemAndQueue(u, k)
  PROVE  QueueCovered'
<1>1. k \in Nat /\ 0 < k /\ k <= share[u] /\ TypeOK'
  BY QueueGrows
<1>2. PICK n \in Nat, v \in Nat, locks \in Nat, owes \in Nat :
           /\ n = Unlocked /\ v = Left /\ locks = Locked /\ owes = pendingRedemptionsUsdc
           /\ TotalSupply = n + locks /\ PricingNav = v + owes
           /\ owes * n <= locks * v
           /\ \A h \in User : share[h] <= n
           /\ \A id \in Outstanding : OwedOf(id) * n <= pendingRedemptions[id].sharesLocked * v
  BY CoverParts
<1>3. PICK gross \in Nat, fee \in Nat, owed \in Nat, idle \in Nat :
           /\ fee = Quote(k).fee /\ owed = Quote(k).owed /\ idle = Quote(k).idle
           /\ fee + owed = gross /\ gross * TotalSupply <= k * PricingNav
           /\ idle = Floored(usdc - (collectedFees + fee))
           /\ idle >= Floored(usdc - collectedFees) - fee
  BY <1>1, QuoteParts
<1>4. PICK burned \in Nat, rest \in Nat, paid \in Nat, r \in Request :
         /\ NewRequest(u, k, burned, rest, paid, r)
         /\ usdc' = usdc - paid /\ collectedFees' = collectedFees + Quote(k).fee
         /\ share' = [share EXCEPT ![u] = @ - k, ![Self] = @ + k - burned]
         /\ pendingRedemptionsUsdc' = pendingRedemptionsUsdc + rest
         /\ Locked' = (k - burned) + Locked
         /\ \A i \in Outstanding' : \/ i \in Outstanding /\ pendingRedemptions'[i] = pendingRedemptions[i]
                                    \/ pendingRedemptions'[i] = r
  BY QueueGrows
<1>5. k <= n
  BY <1>1, <1>2 DEF TypeOK, Holder
<1>6. gross * n <= k * v /\ gross <= v
  <2>1. PICK s \in Nat : s = n + locks /\ s > 0
    BY <1>1, <1>5
  <2>2. gross * s <= k * (v + owes)
    BY <1>2, <1>3, <2>1
  <2> QED
    BY <1>1, <1>2, <1>5, <2>1, <2>2, GrossBelowLeft
<1>7. idle < owed /\ UNCHANGED <<perpAllocated, perp>>
  BY <1>3 DEF RedeemAndQueue
<1>8. /\ burned <= k /\ burned * owed <= k * idle
      /\ rest = owed - idle /\ paid \in {0, idle} /\ (idle = 0 => paid = 0)
      /\ r.sharesLocked = k - burned /\ r.usdcOwed = rest
  <2>1. burned = (k * idle) \div owed
    BY <1>3, <1>4 DEF NewRequest, PartialShares
  <2>2. k * idle \in Nat /\ owed > 0
    BY <1>1, <1>7
  <2>3. burned * owed <= k * idle
    BY <2>1, <2>2, DivTimes
  <2> QED
    BY <1>3, <1>4, <2>3 DEF NewRequest, Remainder
<1>9. Floored(usdc' - collectedFees') >= Floored(usdc - collectedFees) - (fee + paid)
  <2>1. usdc \in Nat /\ collectedFees \in Nat
    BY DEF TypeOK
  <2>2. usdc' = usdc - paid /\ collectedFees' = collectedFees + fee
    BY <1>3, <1>4
  <2>3. Floored(usdc' - collectedFees') = idle - paid
    BY <1>3, <1>8, <2>1, <2>2 DEF Floored
  <2>4. Floored(usdc - collectedFees) \in Nat
    BY <2>1 DEF Floored
  <2> QED
    BY <1>3, <2>3, <2>4
<1>10. PricingNav' \in Nat /\ PricingNav' >= PricingNav - (fee + paid)
  <2>1. PICK taken \in Nat : taken = fee + paid
    OBVIOUS
  <2> QED
    BY <1>1, <1>7, <1>9, <2>1, NavLowered
<1>11. TotalSupply' = TotalSupply - burned
  <2>1. PICK d \in Int, e \in Int : d = 0 - k /\ e = k - burned
    BY <1>1
  <2>2. u \in Holder /\ u # Self /\ Self \in Holder /\ IsFiniteSet(Holder) /\ share \in [Holder -> Nat]
        /\ share' \in [Holder -> Nat]
    BY <1>1, HolderFinite, VaultConstants DEF TypeOK, Holder
  <2> DEFINE between == [share EXCEPT ![u] = @ - k]
             then == share'
  <2>3. /\ \A g \in Holder : share[g] \in Int /\ between[g] \in Int /\ then[g] \in Int
        /\ \A g \in Holder \ {u} : between[g] = share[g]
        /\ \A g \in Holder \ {Self} : then[g] = between[g]
        /\ between[u] = share[u] - k /\ then[Self] = between[Self] + k - burned
    BY <1>1, <1>4, <2>2
  <2> HIDE DEF between, then
  <2>4. SumFunctionOnSet(between, Holder) = SumFunctionOnSet(share, Holder) + between[u] - share[u]
    <3>1. /\ u \in Holder /\ IsFiniteSet(Holder)
          /\ \A g \in Holder : share[g] \in Int
          /\ \A g \in Holder : between[g] \in Int
          /\ \A g \in Holder \ {u} : between[g] = share[g]
      BY <2>2, <2>3
    <3> QED
      BY <3>1, SumChange
  <2>5. SumFunctionOnSet(then, Holder) = SumFunctionOnSet(between, Holder) + then[Self] - between[Self]
    <3>1. PICK h \in Holder : h = Self
      BY <2>2
    <3>2. /\ IsFiniteSet(Holder)
          /\ \A g \in Holder : between[g] \in Int
          /\ \A g \in Holder : then[g] \in Int
          /\ \A g \in Holder \ {h} : then[g] = between[g]
      BY <2>2, <2>3, <3>1
    <3>3. SumFunctionOnSet(then, Holder) = SumFunctionOnSet(between, Holder) + then[h] - between[h]
      BY <3>2, SumChange
    <3> QED
      BY <3>1, <3>3
  <2>6. SumFunctionOnSet(share, Holder) \in Int /\ SumFunctionOnSet(between, Holder) \in Int
    BY <2>2, <2>3, SumType
  <2>7. SumFunctionOnSet(then, Holder) = SumFunctionOnSet(share, Holder) - burned
    BY <1>1, <2>2, <2>3, <2>4, <2>5, <2>6
  <2> QED
    BY <2>7 DEF TotalSupply, then
<1>12. PICK m \in Nat, left \in Nat : m = n - k /\ left = v - gross
  BY <1>1, <1>5, <1>6
<1>13. PICK w \in Nat : w = PricingNav' - pendingRedemptionsUsdc' /\ left <= w
  <2>1. PICK nav \in Nat : nav = PricingNav'
    BY <1>10
  <2>2. v + owes - (fee + paid) <= nav
    BY <1>2, <1>10, <2>1
  <2>3. paid <= idle
    BY <1>8
  <2>4. pendingRedemptionsUsdc' = owes + (owed - idle)
    BY <1>2, <1>4, <1>8
  <2>5. PICK w \in Nat : w = nav - (owes + (owed - idle)) /\ left <= w
    BY <1>3, <1>6, <1>12, <2>2, <2>3
  <2>6. w = PricingNav' - pendingRedemptionsUsdc'
    BY <2>1, <2>4, <2>5
  <2> QED
    BY <2>5, <2>6
<1>14. m = TotalSupply' - Locked'
  <2>1. TotalSupply' = n + locks - burned /\ Locked' = (k - burned) + locks
    <3> HIDE DEF TotalSupply, Locked
    <3> QED
      BY <1>2, <1>4, <1>11
  <2> HIDE DEF TotalSupply, Locked
  <2> QED
    BY <1>1, <1>12, <2>1
<1>15. ASSUME NEW id \in Outstanding'
       PROVE  /\ pendingRedemptions'[id].sharesLocked \in Nat /\ pendingRedemptions'[id].usdcOwed \in Nat
              /\ pendingRedemptions'[id].usdcOwed * m <= pendingRedemptions'[id].sharesLocked * left
  <2>1. CASE id \in Outstanding /\ pendingRedemptions'[id] = pendingRedemptions[id]
    <3>1. PICK p \in Nat, l \in Nat : /\ p = pendingRedemptions'[id].usdcOwed
                                      /\ l = pendingRedemptions'[id].sharesLocked
                                      /\ p * n <= l * v
      BY <1>2, <2>1, RequestTypes
    <3>2. p * (n - k) <= l * (v - gross)
      BY <1>1, <1>5, <1>6, <3>1, CoveredAfter
    <3> QED
      BY <1>12, <3>1, <3>2
  <2>2. CASE pendingRedemptions'[id] = r
    <3>1. (owed - idle) * (n - k) <= (k - burned) * (v - gross)
      <4>1. owed <= gross
        BY <1>3
      <4> QED
        BY <1>1, <1>5, <1>6, <1>7, <1>8, <4>1, NewCovered
    <3>2. pendingRedemptions'[id].usdcOwed = owed - idle /\ pendingRedemptions'[id].sharesLocked = k - burned
      BY <1>8, <2>2
    <3>3. owed - idle \in Nat /\ k - burned \in Nat
      BY <1>1, <1>7, <1>8
    <3> QED
      BY <1>12, <3>1, <3>2, <3>3
  <2> QED
    BY <1>4, <1>15, <2>1, <2>2
<1> QED
  BY <1>13, <1>14, <1>15, CoverNext

LEMMA FillCovered ==
  ASSUME TypeOK, QueueExact, QueueCovered, NEW id \in Id, NEW received \in Nat, Fill(id, received)
  PROVE  QueueCovered'
<1>1. TypeOK' /\ id \in Outstanding
      /\ \A i \in Outstanding' : /\ i \in Outstanding
                                 /\ OwedOf(i)' = OwedOf(i)
                                 /\ pendingRedemptions'[i].sharesLocked = pendingRedemptions[i].sharesLocked
  BY QueueShrinks
<1>2. PICK owed \in Nat, kept \in Nat :
        /\ usdc' = usdc + received - owed /\ owed <= Floored(usdc + received - collectedFees)
        /\ share' = [share EXCEPT ![Self] = @ - kept] /\ kept <= share[Self]
        /\ pendingRedemptionsUsdc' = Floored(pendingRedemptionsUsdc - owed)
        /\ Owed = owed + Owed' /\ Locked = kept + Locked' /\ Owed' \in Nat /\ Locked' \in Nat
  BY QueueShrinks
<1>3. PICK n \in Nat, v \in Nat, locks \in Nat, owes \in Nat :
           /\ n = Unlocked /\ v = Left /\ locks = Locked /\ owes = pendingRedemptionsUsdc
           /\ TotalSupply = n + locks /\ PricingNav = v + owes
           /\ \A i \in Outstanding : OwedOf(i) * n <= pendingRedemptions[i].sharesLocked * v
  BY CoverParts
<1>4. UNCHANGED <<collectedFees, perpAllocated, perp>>
  BY DEF Fill
<1>5. usdc \in Nat /\ collectedFees \in Nat
  BY DEF TypeOK
<1>6. Floored(usdc' - collectedFees') >= Floored(usdc - collectedFees) - owed
  BY <1>2, <1>4, <1>5 DEF Floored
<1>7. PricingNav' \in Nat /\ PricingNav' >= PricingNav - owed
  BY <1>1, <1>4, <1>6, NavLowered
<1>8. TotalSupply' = TotalSupply - kept
  <2> DEFINE then == share'
  <2>1. /\ Self \in Holder /\ IsFiniteSet(Holder)
        /\ \A g \in Holder : share[g] \in Int
        /\ \A g \in Holder : then[g] \in Int
        /\ \A g \in Holder \ {Self} : then[g] = share[g]
        /\ then[Self] = share[Self] - kept
    BY <1>1, <1>2, HolderFinite DEF TypeOK, Holder
  <2> HIDE DEF then
  <2>2. SumFunctionOnSet(then, Holder) = SumFunctionOnSet(share, Holder) + then[Self] - share[Self]
    BY <2>1, SumChange
  <2>3. SumFunctionOnSet(share, Holder) \in Int
    BY <2>1, SumType
  <2>4. SumFunctionOnSet(then, Holder) = SumFunctionOnSet(share, Holder) - kept
    BY <2>1, <2>2, <2>3
  <2> QED
    BY <2>4 DEF TotalSupply, then
<1>9. owes = owed + Owed' /\ pendingRedemptionsUsdc' = Owed'
  BY <1>2, <1>3 DEF QueueExact, QueueSumExact, Floored
<1>10. PICK w \in Nat : w = PricingNav' - pendingRedemptionsUsdc' /\ v <= w
  <2>1. PICK nav \in Nat, o \in Nat : nav = PricingNav' /\ o = Owed'
    BY <1>2, <1>7
  <2>2. v + owes - owed <= nav /\ owes = owed + o
    BY <1>3, <1>7, <1>9, <2>1
  <2>3. PICK w \in Nat : w = nav - o /\ v <= w
    BY <2>2
  <2>4. w = PricingNav' - pendingRedemptionsUsdc'
    BY <1>9, <2>1, <2>3
  <2> QED
    BY <2>3, <2>4
<1>11. n = TotalSupply' - Locked'
  <2>1. PICK l \in Nat : l = Locked'
    BY <1>2
  <2>2. locks = kept + l
    BY <1>2, <1>3, <2>1
  <2>3. PICK t \in Int : t = n + locks - kept
    OBVIOUS
  <2>4. TotalSupply' = t
    BY <1>3, <1>8, <2>3
  <2>5. n = t - l
    BY <2>2, <2>3
  <2> QED
    BY <2>1, <2>4, <2>5
<1>12. ASSUME NEW i \in Outstanding'
       PROVE  /\ pendingRedemptions'[i].sharesLocked \in Nat /\ pendingRedemptions'[i].usdcOwed \in Nat
              /\ pendingRedemptions'[i].usdcOwed * n <= pendingRedemptions'[i].sharesLocked * v
  <2>1. OwedOf(i)' = pendingRedemptions'[i].usdcOwed
    BY DEF OwedOf
  <2> QED
    BY <1>1, <1>3, <1>12, <2>1, RequestTypes
<1> QED
  BY <1>10, <1>11, <1>12, CoverNext

\* An open request locks at least a share: the partial fill never burns all.
OpenLocked == \A id \in Outstanding : pendingRedemptions[id].sharesLocked > 0

LEMMA DepositKeepsCover ==
  ASSUME TypeOK, TypeOK', QueueExact, QueueCovered, OpenLocked,
         TotalSupply < TotalSupply' => FeesInHand /\ QueuedBelowPrice,
         NEW u \in User, NEW amount \in Deposits, NEW weight, Deposit(u, amount, weight)
  PROVE  QueueCovered'
<1>1. amount \in Nat /\ PricingNav \in Nat /\ TotalSupply \in Nat /\ (TotalSupply = 0 \/ 0 < PricingNav)
  BY VaultConstants, NavType, SupplyType DEF Deposit
<1>2. PICK fee \in Nat : fee = FeeOn(amount, depositFeeBps) /\ fee <= amount
  BY <1>1, FeeBelow DEF TypeOK
<1>3. PICK minted \in Nat : minted = Minted(amount, amount - FeeOn(amount, depositFeeBps)) /\ 0 < minted
  BY <1>1, MintedType DEF Deposit
<1>4. PICK net \in Nat : net = amount - fee
  BY <1>1, <1>2
<1>5. /\ usdc' = usdc + amount /\ collectedFees' = collectedFees + fee
      /\ share' = [share EXCEPT ![u] = @ + minted]
      /\ UNCHANGED <<perpAllocated, queue, perp>>
  BY <1>2, <1>3 DEF Deposit
<1>6. TotalSupply' = TotalSupply + minted
  <2>1. minted \in Int
    OBVIOUS
  <2> QED
    BY <1>5, <2>1, SupplyChange
<1>7. FeesInHand /\ QueuedBelowPrice
  <2>1. TotalSupply < TotalSupply'
    <3> HIDE DEF TotalSupply
    <3> QED
      BY <1>1, <1>3, <1>6
  <2> QED
    BY <2>1
<1>8. PICK n \in Nat, v \in Nat, locks \in Nat, owes \in Nat :
           /\ n = Unlocked /\ v = Left /\ locks = Locked /\ owes = pendingRedemptionsUsdc
           /\ TotalSupply = n + locks /\ PricingNav = v + owes
           /\ \A id \in Outstanding : OwedOf(id) * n <= pendingRedemptions[id].sharesLocked * v
  BY CoverParts
<1>9. UNCHANGED <<pendingRedemptions, pendingRedemptionCount, pendingRedemptionsUsdc>>
  BY <1>5 DEF queue
<1>10. Outstanding' = Outstanding /\ Locked' = Locked
  BY <1>9 DEF Outstanding, OpenRequest, Locked
<1>11. PricingNav' \in Nat
  BY NavOfWorthNext
<1>12. CASE TotalSupply = 0
  <2>1. locks = 0 /\ n = 0
    BY <1>8, <1>12
  <2>2. Outstanding = {}
    <3> DEFINE kept == [i \in Id |-> pendingRedemptions[i].sharesLocked]
    <3>1. /\ IsFiniteSet(Outstanding) /\ Outstanding \subseteq Id
          /\ \A i \in Outstanding : kept[i] \in Nat /\ kept[i] = pendingRedemptions[i].sharesLocked
      BY QueueTypes
    <3>2. Locked = SumFunctionOnSet(kept, Outstanding)
      BY DEF Locked
    <3> HIDE DEF kept
    <3>3. \A i \in Outstanding : kept[i] <= Locked
      BY <3>1, <3>2, SumNat
    <3> QED
      BY <1>8, <2>1, <3>1, <3>3 DEF OpenLocked
  <2>3. Owed = 0
    BY <2>2, SumEmpty DEF Owed
  <2>4. owes = 0
    BY <1>8, <2>3 DEF QueueExact, QueueSumExact
  <2>5. PICK w \in Nat : w = PricingNav' - pendingRedemptionsUsdc'
    <3>1. PICK after \in Nat : after = PricingNav'
      BY <1>11
    <3>2. owes = pendingRedemptionsUsdc'
      BY <1>8, <1>9
    <3>3. PICK w \in Nat : w = after - owes
      BY <2>4
    <3>4. w = PricingNav' - pendingRedemptionsUsdc'
      BY <3>1, <3>2, <3>3
    <3> QED
      BY <3>4
  <2>6. PICK m \in Int : m = TotalSupply' - Locked'
    BY <1>6, <1>8, <1>10, <1>12
  <2> QED
    BY <1>10, <2>2, <2>5, <2>6, CoverNext
<1>13. CASE TotalSupply # 0
  <2>1. 0 < PricingNav
    BY <1>1, <1>13
  <2>2. minted * PricingNav <= net * TotalSupply
    <3>1. net * TotalSupply \in Nat
      BY <1>1
    <3>2. minted = (net * TotalSupply) \div PricingNav
      BY <1>2, <1>3, <1>4, <1>13 DEF Minted
    <3> HIDE DEF PricingNav, TotalSupply
    <3> QED
      BY <1>1, <2>1, <3>1, <3>2, DivTimes
  <2>3. Worth' = Worth + net
    <3>1. usdc \in Nat /\ collectedFees \in Nat /\ perpAllocated \in Nat /\ mark \in Int /\ Gain \in Int
      BY DEF TypeOK, Gain
    <3>2. Gain' = Gain
      BY <1>5 DEF Gain, perp, account
    <3> QED
      BY <1>1, <1>2, <1>4, <1>5, <3>1, <3>2 DEF Worth, perp
  <2>4. PricingNav' >= PricingNav + net
    BY <1>1, <1>7, <2>1, <2>3, NavOfWorth, NavOfWorthNext DEF Floored
  <2>5. PICK s \in Nat, nav \in Nat : s = TotalSupply /\ nav = PricingNav /\ 0 < nav /\ minted * nav <= net * s
    BY <1>1, <2>1, <2>2
  <2>6. PICK m \in Nat, left \in Nat : m = n + minted /\ left = v + net
    OBVIOUS
  <2>7. PICK w \in Nat : w = PricingNav' - pendingRedemptionsUsdc' /\ left <= w
    <3>1. PICK after \in Nat : after = PricingNav'
      BY <1>11
    <3>2. v + owes + net <= after /\ pendingRedemptionsUsdc' = owes
      BY <1>8, <1>9, <2>4, <3>1
    <3>3. PICK w \in Nat : w = after - owes /\ left <= w
      BY <2>6, <3>2
    <3>4. w = PricingNav' - pendingRedemptionsUsdc'
      BY <3>1, <3>2, <3>3
    <3> QED
      BY <3>3, <3>4
  <2>8. m = TotalSupply' - Locked'
    <3>1. TotalSupply' = n + locks + minted /\ Locked' = locks
      BY <1>6, <1>8, <1>10
    <3> QED
      BY <2>6, <3>1
  <2>9. ASSUME NEW id \in Outstanding'
        PROVE  /\ pendingRedemptions'[id].sharesLocked \in Nat /\ pendingRedemptions'[id].usdcOwed \in Nat
               /\ pendingRedemptions'[id].usdcOwed * m <= pendingRedemptions'[id].sharesLocked * left
    <3>1. PICK p \in Nat, l \in Nat : /\ p = pendingRedemptions'[id].usdcOwed
                                      /\ l = pendingRedemptions'[id].sharesLocked
                                      /\ p * n <= l * v /\ p * s <= l * nav
      BY <1>7, <1>8, <1>9, <1>10, <2>5, <2>9, RequestTypes DEF QueuedBelowPrice
    <3>2. p * (n + minted) <= l * (v + net)
      <4>1. 0 < nav /\ minted * nav <= net * s /\ p * n <= l * v /\ p * s <= l * nav
        BY <2>5, <3>1
      <4> QED
        BY <4>1, DepositCovered
    <3> QED
      BY <2>6, <3>1, <3>2
  <2> QED
    BY <2>7, <2>8, <2>9, CoverNext
<1> QED
  BY <1>12, <1>13

\* The calls of the vault, alone or with fills from other chains.
VaultCall ==
  \/ UserStep \/ GiftStep \/ OwnerStep \/ PolicyStep \/ MarketStep \/ OutsiderStep
  \/ \E id \in Id, received \in Nat : Fill(id, received)
  \/ UNCHANGED vars

LEMMA CallKinds ==
  ASSUME VaultCall
  PROVE  \/ UNCHANGED <<share, queue>>
         \/ \E u \in User, amount \in Deposits, weight \in Weight : Deposit(u, amount, weight)
         \/ \E u \in User, n \in ShareAmount : RedeemNow(u, n)
         \/ \E u \in User, n \in ShareAmount : RedeemAndQueue(u, n)
         \/ \E u \in User, h \in Holder, n \in ShareAmount : TransferShares(u, h, n)
         \/ \E id \in Id, received \in Nat : Fill(id, received)
<1>1. GiftStep => \/ UNCHANGED <<share, queue>>
                  \/ \E u \in User, h \in Holder, n \in ShareAmount : TransferShares(u, h, n)
  BY DEF GiftStep, Approve, TopUpReserve
<1>2. OwnerStep => UNCHANGED <<share, queue>>
  BY DEF OwnerStep, AllocateToPerp, WithdrawFromPerp, CollectFees
<1>3. PolicyStep => UNCHANGED <<share, queue>>
  BY DEF PolicyStep, PolicyOnly, SetFees, SetMaxPerpAllocation, SetMinReserveBps,
     SetMinDepositWeightBps, SetVaultAccounting
<1>4. MarketStep \/ OutsiderStep => UNCHANGED <<share, queue>>
  BY DEF MarketStep, OutsiderStep, MarkMoves, PositionStep, OpenPosition, ClosePosition,
     DepositCapitalBy, WithdrawCapitalByAnyone, Untouched
<1>5. UNCHANGED vars => UNCHANGED <<share, queue>>
  BY DEF vars
<1> QED
  BY <1>1, <1>2, <1>3, <1>4, <1>5 DEF VaultCall, UserStep, Redeem

LEMMA LockedStays ==
  ASSUME TypeOK, OpenLocked, VaultCall
  PROVE  OpenLocked'
<1>1. ASSUME UNCHANGED queue PROVE OpenLocked'
  <2>1. pendingRedemptions' = pendingRedemptions /\ pendingRedemptionCount' = pendingRedemptionCount
    BY <1>1 DEF queue
  <2> QED
    BY <2>1 DEF OpenLocked, Outstanding, OpenRequest
<1>2. ASSUME NEW u \in User, NEW n \in ShareAmount, RedeemAndQueue(u, n) PROVE OpenLocked'
  <2>1. n \in Nat /\ 0 < n /\ n <= share[u]
    BY <1>2, QueueGrows
  <2>2. PICK burned \in Nat, owed \in Nat, paid \in Nat, r \in Request :
          /\ NewRequest(u, n, burned, owed, paid, r)
          /\ \A i \in Outstanding' : \/ i \in Outstanding /\ pendingRedemptions'[i] = pendingRedemptions[i]
                                     \/ pendingRedemptions'[i] = r
    BY <1>2, QueueGrows
  <2>3. PICK quoted \in Nat, idle \in Nat : quoted = Quote(n).owed /\ idle = Quote(n).idle /\ idle < quoted
    BY <1>2, <2>1, QuoteType DEF RedeemAndQueue
  <2>4. burned * quoted <= n * idle
    <3>1. n * idle \in Nat /\ burned = (n * idle) \div quoted /\ quoted > 0
      BY <2>1, <2>2, <2>3 DEF NewRequest, PartialShares
    <3> QED
      BY <2>3, <3>1, DivTimes
  <2>5. burned # n
    <3>1. n * quoted > n * idle
      <4>1. n * (quoted - idle) > 0
        BY <2>1, <2>3
      <4> QED
        BY <2>1, <2>3, <4>1
    <3> QED
      BY <2>1, <2>4, <3>1
  <2>6. r.sharesLocked > 0
    BY <2>1, <2>2, <2>5 DEF NewRequest
  <2>7. \A i \in Outstanding' : pendingRedemptions'[i].sharesLocked > 0
    BY <2>2, <2>6 DEF OpenLocked
  <2> QED
    BY <2>7 DEF OpenLocked
<1>3. ASSUME NEW id \in Id, NEW received \in Nat, Fill(id, received) PROVE OpenLocked'
  <2>1. \A i \in Outstanding' : i \in Outstanding
                                /\ pendingRedemptions'[i].sharesLocked = pendingRedemptions[i].sharesLocked
    BY <1>3, QueueShrinks
  <2>2. \A i \in Outstanding' : pendingRedemptions'[i].sharesLocked > 0
    BY <2>1 DEF OpenLocked
  <2> QED
    BY <2>2 DEF OpenLocked
<1>4. (\E u \in User, amount \in Deposits, weight \in Weight : Deposit(u, amount, weight))
        \/ (\E u \in User, n \in ShareAmount : RedeemNow(u, n))
        \/ (\E u \in User, h \in Holder, n \in ShareAmount : TransferShares(u, h, n))
      => UNCHANGED queue
  BY DEF Deposit, RedeemNow, TransferShares
<1> QED
  BY <1>1, <1>2, <1>3, <1>4, CallKinds

\* Every call keeps the cover, but for a loss and for a deposit below the price
\* of a request.
LEMMA CallCovered ==
  ASSUME TypeOK, QueueExact, OpenLocked, QueueCovered, VaultCall,
         UNCHANGED <<share, pendingRedemptions>> => PricingNav <= PricingNav',
         TotalSupply < TotalSupply' => FeesInHand /\ QueuedBelowPrice
  PROVE  QueueCovered'
<1>1. TypeOK'
  BY VaultSteps DEF VaultCall
<1>2. CASE UNCHANGED <<share, queue>>
  <2>1. TotalSupply' = TotalSupply /\ PricingNav <= PricingNav'
    BY <1>2 DEF TotalSupply, queue
  <2> QED
    BY <1>1, <1>2, <2>1, RestCovered
<1>3. CASE \E u \in User, amount \in Deposits, weight \in Weight : Deposit(u, amount, weight)
  BY <1>1, <1>3, DepositKeepsCover
<1>4. CASE \E u \in User, n \in ShareAmount : RedeemNow(u, n)
  BY <1>1, <1>4, RedeemNowCovered
<1>5. CASE \E u \in User, n \in ShareAmount : RedeemAndQueue(u, n)
  BY <1>5, RedeemAndQueueCovered
<1>6. CASE \E u \in User, h \in Holder, n \in ShareAmount : TransferShares(u, h, n)
  <2>1. PICK u \in User, h \in Holder, n \in ShareAmount : TransferShares(u, h, n)
    BY <1>6
  <2>2. TotalSupply' = TotalSupply
    BY <1>1, <2>1, SupplyMoved
  <2>3. UNCHANGED <<usdc, collectedFees, perpAllocated, mark, wired, realised, queue>>
    BY <2>1 DEF TransferShares, perp, account
  <2>4. PricingNav' = PricingNav
    BY <2>3 DEF PricingNav, TotalVaultValue, Idle, IdleBeside, Floored
  <2>5. PricingNav <= PricingNav'
    BY <2>4, NavType
  <2> QED
    BY <1>1, <2>2, <2>3, <2>5, RestCovered
<1>7. CASE \E id \in Id, received \in Nat : Fill(id, received)
  BY <1>7, FillCovered
<1> QED
  BY <1>2, <1>3, <1>4, <1>5, <1>6, <1>7, CallKinds

\* The book entry for perp capital follows the principal on the account.
LEMMA PrincipalStays ==
  ASSUME TypeOK, AllocationIsPrincipal,
         UserStep \/ GiftStep \/ KeeperStep \/ OwnerStep \/ MarketStep
  PROVE  AllocationIsPrincipal'
<1>1. perpAllocated \in Nat /\ deposited \in Nat
  BY DEF TypeOK
<1>2. ASSUME UNCHANGED <<perpAllocated, wired, deposited>> PROVE AllocationIsPrincipal'
  BY <1>2 DEF AllocationIsPrincipal
<1>3. ASSUME NEW amount \in PerpAmount, AllocateToPerp(amount) PROVE AllocationIsPrincipal'
  BY <1>1, <1>3 DEF AllocationIsPrincipal, AllocateToPerp, PayIn
<1>4. ASSUME NEW amount \in PerpAmount, WithdrawFromPerp(amount) PROVE AllocationIsPrincipal'
  BY <1>1, <1>4 DEF AllocationIsPrincipal, WithdrawFromPerp, TakeOut, AllocationLeft, Floored
<1>5. UserStep \/ GiftStep \/ KeeperStep \/ CollectFees => UNCHANGED <<perpAllocated, wired, deposited>>
  BY DEF UserStep, Deposit, Redeem, RedeemNow, RedeemAndQueue, GiftStep, TransferShares, Approve,
     TopUpReserve, KeeperStep, ProcessPendingRedemption, Fill, CollectFees, perp, account
<1>6. MarketStep => UNCHANGED <<perpAllocated, wired, deposited>>
  BY DEF MarketStep, MarkMoves, PositionStep, OpenPosition, ClosePosition, Lock, Settle, Untouched,
     account
<1> QED
  BY <1>2, <1>3, <1>4, <1>5, <1>6 DEF OwnerStep

CoverInv == TypeOK /\ QueueExact /\ OpenLocked

PrincipalStep ==
  /\ AllocationIsPrincipal
  /\ UserStep \/ GiftStep \/ KeeperStep \/ OwnerStep \/ MarketStep
  => AllocationIsPrincipal'

CoverStep ==
  /\ QueueCovered
  /\ UNCHANGED <<share, pendingRedemptions>> => PricingNav <= PricingNav'
  /\ TotalSupply < TotalSupply' => FeesInHand /\ QueuedBelowPrice
  => QueueCovered'

LEMMA CoverInits ==
  ASSUME Init
  PROVE  CoverInv
<1>1. Outstanding = {}
  BY DEF Init, Outstanding, OpenRequest, Id
<1> QED
  BY <1>1, VaultInits DEF CoverInv, OpenLocked

LEMMA CoverCalls ==
  ASSUME CoverInv, VaultCall
  PROVE  CoverInv' /\ PrincipalStep /\ CoverStep
<1>1. TypeOK /\ QueueExact /\ OpenLocked
  BY DEF CoverInv
<1>2. CoverInv'
  BY <1>1, VaultSteps, LockedStays DEF VaultCall, CoverInv
<1>3. PrincipalStep
  BY <1>1, PrincipalStays DEF PrincipalStep
<1>4. CoverStep
  BY <1>1, CallCovered DEF CoverStep
<1> QED
  BY <1>2, <1>3, <1>4

LEMMA NextIsCall ==
  ASSUME [Next]_vars
  PROVE  VaultCall
<1>1. KeeperStep => \E id \in Id, received \in Nat : Fill(id, received)
  BY DEF KeeperStep, ProcessPendingRedemption
<1> QED
  BY <1>1 DEF VaultCall, Next

\* What is behind the promises of a vault: its book entry for perp capital is the
\* principal on its account, through profit, losses and withdrawals of both, and
\* the queue stays covered through redemptions that are paid or queued, their
\* fees and roundings, and fills in any order (BasketVault.sol:281, 333, 376).
THEOREM PromisesCovered == Spec => CapitalKept
<1>1. Init => CoverInv
  BY CoverInits
<1>2. CoverInv /\ [Next]_vars => CoverInv' /\ PrincipalStep /\ CoverStep
  BY NextIsCall, CoverCalls
<1>3. Spec => [][PrincipalStep]_vars /\ [][CoverStep]_vars
  BY <1>1, <1>2, PTL DEF Spec
<1> QED
  BY <1>3 DEF CapitalKept, PrincipalKept, QueueKept, PrincipalStep, CoverStep

FillInv ==
  /\ TypeOK /\ QueueExact
  /\ message \in Seq([id : Id, usdc : Nat, executed : BOOLEAN])

LEMMA FillInits ==
  ASSUME FillInit
  PROVE  FillInv
<1>1. <<>> \in Seq([id : Id, usdc : Nat, executed : BOOLEAN])
  OBVIOUS
<1> QED
  BY <1>1, VaultInits DEF FillInit, FillInv

LEMMA FillNexts ==
  ASSUME FillInv, [FillNext]_fillVars
  PROVE  FillInv'
<1> DEFINE Sent == [id : Id, usdc : Nat, executed : BOOLEAN]
<1>1. TypeOK /\ QueueExact /\ message \in Seq(Sent)
  BY DEF FillInv
<1>2. CASE \E id \in Id, amount \in Bridged : SendFill(id, amount)
  <2>1. PICK id \in Id, amount \in Bridged : SendFill(id, amount)
    BY <1>2
  <2>2. [id |-> id, usdc |-> amount, executed |-> FALSE] \in Sent
    BY FillConstants
  <2> HIDE DEF Sent
  <2>3. message' \in Seq(Sent) /\ UNCHANGED vars
    BY <1>1, <2>1, <2>2 DEF SendFill
  <2> QED
    BY <1>1, <2>3, VaultSteps DEF FillInv, Sent
<1>3. CASE \E n \in 1..MaxFills : Receive(n)
  <2>1. PICK n \in 1..MaxFills : Receive(n)
    BY <1>3
  <2>2. n \in DOMAIN message /\ message[n] \in Sent
    <3>1. n \in DOMAIN message
      BY <2>1 DEF Receive
    <3> HIDE DEF Sent
    <3> QED
      BY <1>1, <3>1
  <2>3. Fill(message[n].id, message[n].usdc) /\ message[n].id \in Id /\ message[n].usdc \in Nat
    BY <2>1, <2>2 DEF Receive, TransferAndProcess
  <2>4. [message[n] EXCEPT !.executed = TRUE] \in Sent
    BY <2>2
  <2>5. message' = [message EXCEPT ![n] = [message[n] EXCEPT !.executed = TRUE]]
    BY <2>1 DEF Receive
  <2> DEFINE m == [message[n] EXCEPT !.executed = TRUE]
  <2> HIDE DEF Sent, m
  <2>6. message' \in Seq(Sent)
    <3>1. n \in 1..Len(message) /\ m \in Sent
      BY <1>1, <2>2, <2>4 DEF m
    <3> QED
      BY <1>1, <2>5, <3>1, ExceptSeq DEF m
  <2>7. TypeOK' /\ QueueExact'
    BY <1>1, <2>3, VaultSteps
  <2> QED
    BY <2>6, <2>7 DEF FillInv, Sent
<1>4. CASE ProcessByService
  <2>1. \E id \in Id, received \in Nat : Fill(id, received)
    BY <1>4 DEF ProcessByService, KeeperStep, ProcessPendingRedemption
  <2> QED
    BY <1>1, <1>4, <2>1, VaultSteps DEF ProcessByService, fills, FillInv
<1>5. CASE \/ \E who \in {"service", "receiver"} : setKeeper(who)
           \/ \E trusted \in BOOLEAN : setTrustedSender(trusted)
           \/ UNCHANGED fillVars
  <2>1. UNCHANGED <<vars, message>>
    BY <1>5 DEF setKeeper, setTrustedSender, fillVars, fills
  <2> QED
    BY <1>1, <2>1, VaultSteps DEF FillInv
<1>6. CASE /\ UserStep \/ GiftStep \/ OwnerStep \/ PolicyStep \/ MarketStep \/ OutsiderStep
           /\ UNCHANGED fills
  BY <1>1, <1>6, VaultSteps DEF fills, FillInv
<1> QED
  BY <1>2, <1>3, <1>4, <1>5, <1>6 DEF FillNext, FillStep

\* The same with USDC and fills coming from other chains, late, repeated or in
\* any order (RedemptionReceiver.sol).
THEOREM QueueAddsUpUnderFills == FillSpec => []QueueExact
<1>1. FillInv => QueueExact
  BY DEF FillInv
<1> QED
  BY <1>1, FillInits, FillNexts, PTL DEF FillSpec

LEMMA FillIsCall ==
  ASSUME FillInv, [FillNext]_fillVars
  PROVE  VaultCall
<1> DEFINE Sent == [id : Id, usdc : Nat, executed : BOOLEAN]
<1>1. CASE \E n \in 1..MaxFills : Receive(n)
  <2>1. PICK n \in 1..MaxFills : Receive(n)
    BY <1>1
  <2>2. message \in Seq(Sent) /\ n \in DOMAIN message
    BY <2>1 DEF FillInv, Receive
  <2>3. message[n] \in Sent
    <3> HIDE DEF Sent
    <3> QED
      BY <2>2
  <2>4. Fill(message[n].id, message[n].usdc) /\ message[n].id \in Id /\ message[n].usdc \in Nat
    BY <2>1, <2>3 DEF Receive, TransferAndProcess
  <2> QED
    BY <2>4 DEF VaultCall
<1>2. CASE ProcessByService
  BY <1>2 DEF ProcessByService, KeeperStep, ProcessPendingRedemption, VaultCall
<1>3. CASE ~ (ProcessByService \/ \E n \in 1..MaxFills : Receive(n))
  BY <1>3 DEF FillNext, FillStep, SendFill, setKeeper, setTrustedSender, fillVars, VaultCall
<1> QED
  BY <1>1, <1>2, <1>3

\* The same where fills come from other chains and bring the USDC.
THEOREM PromisesCoveredUnderFills == FillSpec => CapitalKept
<1>1. FillInit => FillInv /\ CoverInv
  BY FillInits, CoverInits DEF FillInit
<1>2. FillInv /\ CoverInv /\ [FillNext]_fillVars
        => FillInv' /\ CoverInv' /\ PrincipalStep /\ CoverStep
  BY FillNexts, FillIsCall, CoverCalls
<1>3. FillSpec => [][PrincipalStep]_vars /\ [][CoverStep]_vars
  BY <1>1, <1>2, PTL DEF FillSpec
<1> QED
  BY <1>3 DEF CapitalKept, PrincipalKept, QueueKept, PrincipalStep, CoverStep

-----------------------------------------------------------------------------
(* The reserve in tokens.  A conversion rounds down once, in tokens worth  *)
(* no more than a USDC unit or in USDC units, and all tokens are of the    *)
(* kind that NAV counts.                                                   *)

LEMMA DivLaw ==
  ASSUME NEW x \in Nat, NEW c \in Nat, c > 0
  PROVE  x \div c \in Nat /\ (x \div c) * c <= x /\ x < (x \div c) * c + c
OBVIOUS

\* Quotients by c compare as what was divided does.
LEMMA ByFactor ==
  ASSUME NEW a \in Int, NEW b \in Int, NEW c \in Nat, c > 0, a * c < b * c + c
  PROVE  a <= b
<1>1. ASSUME a >= b + 1 PROVE FALSE
  <2>1. PICK k \in Nat : a = b + 1 + k
    <3>1. a - b - 1 \in Nat /\ a = b + 1 + (a - b - 1)
      BY <1>1
    <3> QED
      BY <3>1
  <2>2. a * c = b * c + c + k * c /\ k * c \in Nat
    BY <2>1
  <2> QED
    BY <2>2
<1> QED
  BY <1>1

\* A sum is divided in two up to one unit.
LEMMA DivSum ==
  ASSUME NEW x \in Nat, NEW y \in Nat, NEW c \in Nat, c > 0
  PROVE  /\ x \div c + y \div c <= (x + y) \div c
         /\ (x + y) \div c <= x \div c + y \div c + 1
<1> DEFINE a == x \div c
           b == y \div c
           d == (x + y) \div c
<1>1. /\ a \in Nat /\ a * c <= x /\ x < a * c + c
      /\ b \in Nat /\ b * c <= y /\ y < b * c + c
      /\ d \in Nat /\ d * c <= x + y /\ x + y < d * c + c
  <2>1. x + y \in Nat
    OBVIOUS
  <2> QED
    BY <2>1, DivLaw
<1> HIDE DEF a, b, d
<1>2. (a + b) * c < d * c + c
  BY <1>1
<1>3. d * c < (a + b + 1) * c + c
  BY <1>1
<1>4. a + b <= d
  BY <1>1, <1>2, ByFactor
<1>5. d <= a + b + 1
  BY <1>1, <1>3, ByFactor
<1> QED
  BY <1>4, <1>5 DEF a, b, d

\* Tokens bought for an amount, at a price of at most c for c units.
LEMMA BoughtFor ==
  ASSUME NEW h \in Nat, NEW amount \in Nat, NEW p \in Nat, p > 0, NEW c \in Nat, p <= c
  PROVE  LET n == (amount * c) \div p
             before == (h * p) \div c
             after == ((h + n) * p) \div c
         IN n \in Nat /\ after <= before + amount /\ before + amount <= after + 1
<1> DEFINE n == (amount * c) \div p
           before == (h * p) \div c
           after == ((h + n) * p) \div c
<1>1. c > 0 /\ amount * c \in Nat /\ h * p \in Nat
  OBVIOUS
<1>2. n \in Nat /\ n * p <= amount * c /\ amount * c < n * p + p
  BY <1>1, DivLaw
<1> HIDE DEF n
<1>3. (h + n) * p = h * p + n * p /\ n * p \in Nat /\ (h + n) * p \in Nat
  BY <1>2
<1>4. before \in Nat /\ before * c <= h * p /\ h * p < before * c + c
  BY <1>1, DivLaw
<1>5. after \in Nat /\ after * c <= (h + n) * p /\ (h + n) * p < after * c + c
  BY <1>1, <1>3, DivLaw
<1> HIDE DEF before, after
<1>6. after * c < (before + amount) * c + c
  <2>1. (before + amount) * c = before * c + amount * c
    BY <1>4
  <2> QED
    BY <1>1, <1>2, <1>3, <1>4, <1>5, <2>1
<1>7. (before + amount) * c < (after + 1) * c + c
  <2>1. (before + amount) * c = before * c + amount * c /\ (after + 1) * c = after * c + c
    BY <1>4, <1>5
  <2> QED
    BY <1>1, <1>2, <1>3, <1>4, <1>5, <2>1
<1>8. after <= before + amount
  BY <1>1, <1>4, <1>5, <1>6, ByFactor
<1>9. before + amount <= after + 1
  BY <1>1, <1>4, <1>5, <1>7, ByFactor
<1> QED
  BY <1>2, <1>8, <1>9 DEF n, before, after

\* Tokens sold.
LEMMA SoldOf ==
  ASSUME NEW h \in Nat, NEW n \in Nat, n <= h, NEW p \in Nat, NEW c \in Nat, c > 0
  PROVE  LET before == (h * p) \div c
             after == ((h - n) * p) \div c
             delivered == (n * p) \div c
         IN /\ delivered \in Nat /\ after \in Nat
            /\ after + delivered <= before /\ before <= after + delivered + 1
<1> DEFINE m == h - n
<1>1. m \in Nat /\ m * p \in Nat /\ n * p \in Nat
  OBVIOUS
<1>2. h * p = m * p + n * p
  OBVIOUS
<1>3. (m * p) \div c \in Nat /\ (n * p) \div c \in Nat
  BY <1>1, DivLaw
<1>4. /\ (m * p) \div c + (n * p) \div c <= (m * p + n * p) \div c
      /\ (m * p + n * p) \div c <= (m * p) \div c + (n * p) \div c + 1
  BY <1>1, DivSum
<1> QED
  BY <1>2, <1>3, <1>4

-----------------------------------------------------------------------------
(* The reserve.  Its invariant: NAV counts the current token, and nothing  *)
(* is held in another.  A request names a user, so that paying it shows in *)
(* a wallet and is no step of the reserve.                                 *)

ReserveTyped ==
  /\ rwaAdapter \in BOOLEAN /\ reserveToken \in ReserveToken
  /\ held \in [ReserveToken -> Nat] /\ price \in [ReserveToken -> 1..Scale]
OneTokenHeld == \A t \in ReserveToken : t # reserveToken => held[t] = 0
UsersQueued == \A id \in Id : id < pendingRedemptionCount => pendingRedemptions[id].user \in User
ReserveInv ==
  /\ TypeOK /\ QueueExact /\ UsersQueued
  /\ ReserveTyped /\ OneTokenHeld /\ mark = ReserveValue

LEMMA ScaleType == Scale \in Nat /\ 0 < Scale /\ ORACLE_PRECISION \in 1..Scale
<1>1. E12 \in Nat \ {0} /\ ORACLE_PRECISION \in Nat \ {0}
  BY ReserveConstants
<1>2. E12 * ORACLE_PRECISION = (E12 - 1) * ORACLE_PRECISION + ORACLE_PRECISION
  BY <1>1
<1>3. (E12 - 1) * ORACLE_PRECISION \in Nat
  BY <1>1
<1> QED
  BY <1>1, <1>2, <1>3 DEF Scale

LEMMA ConversionTypes ==
  ASSUME ReserveTyped, NEW t \in ReserveToken, NEW n \in Nat
  PROVE  /\ price[t] \in Nat /\ 0 < price[t] /\ price[t] <= Scale
         /\ TokensFor(t, n) \in Nat /\ UsdcFor(t, n) \in Nat /\ TokensNeeded(t, n) \in Nat
<1>1. price[t] \in 1..Scale
  BY DEF ReserveTyped
<1>2. price[t] \in Nat /\ 0 < price[t] /\ price[t] <= Scale
  BY <1>1, ScaleType
<1>3. n * Scale \in Nat /\ n * price[t] \in Nat
  BY <1>2, ScaleType
<1>4. TokensFor(t, n) \in Nat /\ UsdcFor(t, n) \in Nat
  BY <1>2, <1>3, ScaleType, DivLaw DEF TokensFor, UsdcFor
<1> QED
  BY <1>2, <1>4 DEF TokensNeeded

LEMMA ValueType ==
  ASSUME ReserveTyped
  PROVE  ReserveValue \in Nat
<1>1. reserveToken \in ReserveToken /\ held[reserveToken] \in Nat
  BY DEF ReserveTyped
<1> QED
  BY <1>1, ConversionTypes DEF ReserveValue

LEMMA ValueNext ==
  ASSUME ReserveTyped'
  PROVE  ReserveValue' \in Nat
<1>1. (ReserveTyped => ReserveValue \in Nat)'
  BY ValueType, PTL
<1> QED
  BY <1>1

\* What a step of the reserve leaves of the vault.
LEMMA VaultKeeps ==
  ASSUME ReserveInv, VaultKept, usdc' \in Nat, mark' \in Int
  PROVE  TypeOK' /\ QueueExact' /\ UsersQueued'
<1>1. /\ wallet' = wallet /\ share' = share /\ approved' = approved
      /\ collectedFees' = collectedFees /\ perpAllocated' = perpAllocated
      /\ UNCHANGED queue /\ UNCHANGED policy /\ UNCHANGED account /\ wired' = wired
  BY DEF VaultKept
<1>2. pendingRedemptions' = pendingRedemptions /\ pendingRedemptionCount' = pendingRedemptionCount
      /\ pendingRedemptionsUsdc' = pendingRedemptionsUsdc
  BY <1>1 DEF queue
<1>3. TypeOK'
  BY <1>1, <1>2 DEF ReserveInv, TypeOK, policy, account
<1>4. share'[Self] >= share[Self]
  BY <1>1 DEF ReserveInv, TypeOK, Holder
<1>5. QueueExact'
  BY <1>1, <1>3, <1>4, QueueStays DEF ReserveInv
<1>6. UsersQueued'
  BY <1>2 DEF ReserveInv, UsersQueued
<1> QED
  BY <1>3, <1>5, <1>6

\* What USDC and mark lose together, NAV loses.
LEMMA NavMoves ==
  ASSUME TypeOK, TypeOK', VaultKept, FeesInHand, NEW u \in Nat, usdc' = u, collectedFees <= u,
         NEW m \in Int, mark' = m, NEW d \in 0..1, u + m = usdc + mark - d
  PROVE  PricingNav' \in (PricingNav - 1)..PricingNav
<1>1. /\ collectedFees' = collectedFees /\ perpAllocated' = perpAllocated
      /\ wired' = wired /\ realised' = realised
  BY DEF VaultKept, account
<1>2. /\ usdc \in Nat /\ collectedFees \in Nat /\ perpAllocated \in Nat /\ mark \in Int
      /\ realised \in Int
  BY DEF TypeOK
<1>3. PICK gain \in Int : gain = Gain
  BY <1>2 DEF Gain
<1>4. Idle = usdc - collectedFees
  BY <1>2 DEF Idle, IdleBeside, Floored, FeesInHand
<1>5. Idle' = u - collectedFees
  <2>1. Idle' = Floored(u - collectedFees)
    BY <1>1 DEF Idle, IdleBeside, Floored
  <2>2. u - collectedFees \in Nat
    BY <1>2
  <2> QED
    BY <2>1, <2>2, FlooredType
<1>6. PricingNav = Floored(usdc - collectedFees + perpAllocated + mark + gain)
  BY <1>3, <1>4 DEF PricingNav, TotalVaultValue, Gain
<1>7. PricingNav' = Floored(u - collectedFees + perpAllocated + m + gain)
  BY <1>1, <1>3, <1>5 DEF PricingNav, TotalVaultValue, Gain, Floored
<1>8. PICK x \in Int : x = usdc - collectedFees + perpAllocated + mark + gain
  BY <1>2
<1>9. x - d = u - collectedFees + perpAllocated + m + gain
  BY <1>2, <1>8
<1>10. PricingNav = Floored(x) /\ PricingNav' = Floored(x - d)
  BY <1>6, <1>7, <1>8, <1>9
<1> QED
  BY <1>10 DEF Floored

LEMMA OneOff ==
  ASSUME NEW a \in Nat, NEW b \in Nat, a <= b, b <= a + 1
  PROVE  \E d \in 0..1 : a = b - d
<1>1. b - a \in 0..1 /\ a = b - (b - a)
  OBVIOUS
<1> QED
  BY <1>1

\* USDC becomes tokens: the amount leaves the balance and, but for one unit that
\* rounds away, comes back in the reserve.
LEMMA AllocateWorth ==
  ASSUME ReserveInv, NEW amount \in ReserveAmount, allocateToRWA(amount)
  PROVE  ReserveInv' /\ (FeesInHand => PricingNav' \in (PricingNav - 1)..PricingNav)
<1> DEFINE t == reserveToken
           n == TokensFor(t, amount)
<1>1. /\ rwaAdapter = TRUE /\ 0 < amount /\ amount <= Idle
      /\ usdc' = usdc - amount /\ held' = [held EXCEPT ![t] = @ + n]
      /\ rwaAdapter' = rwaAdapter /\ reserveToken' = reserveToken /\ price' = price
      /\ VaultKept /\ mark' = ReserveValue'
  BY DEF allocateToRWA, ReserveInv, ReserveTyped
<1>2. ReserveTyped /\ TypeOK /\ OneTokenHeld /\ mark = ReserveValue
  BY DEF ReserveInv
<1>3. amount \in Nat /\ t \in ReserveToken /\ held[t] \in Nat /\ usdc \in Nat /\ collectedFees \in Nat
  BY <1>2, ReserveConstants DEF ReserveTyped, TypeOK
<1>4. price[t] \in Nat /\ 0 < price[t] /\ price[t] <= Scale /\ n \in Nat
  BY <1>2, <1>3, ConversionTypes
<1>5. n = (amount * Scale) \div price[t]
  BY DEF TokensFor
<1>6. ReserveValue = (held[t] * price[t]) \div Scale
  BY <1>1 DEF ReserveValue, UsdcFor
<1> HIDE DEF n
<1>7. /\ held' \in [ReserveToken -> Nat] /\ held'[t] = held[t] + n
      /\ \A o \in ReserveToken : o # t => held'[o] = held[o]
  BY <1>1, <1>2, <1>3, <1>4 DEF ReserveTyped
<1>8. ReserveValue' = ((held[t] + n) * price[t]) \div Scale
  BY <1>1, <1>7 DEF ReserveValue, UsdcFor
<1>9. ReserveTyped' /\ OneTokenHeld'
  BY <1>1, <1>2, <1>7 DEF ReserveTyped, OneTokenHeld
<1>10. Idle \in Nat /\ Idle <= usdc
  BY <1>2, NavType
<1>11. PICK u \in Nat : u = usdc' /\ u = usdc - amount
  BY <1>1, <1>3, <1>10
<1>12. PICK after \in Nat : after = ReserveValue'
  BY <1>9, ValueNext
<1>13. PICK before \in Nat : before = ReserveValue
  BY <1>2, ValueType
<1>14. TypeOK' /\ QueueExact' /\ UsersQueued'
  BY <1>1, <1>11, <1>12, VaultKeeps
<1>16. ReserveInv'
  BY <1>1, <1>9, <1>14 DEF ReserveInv
<1>15. after <= before + amount /\ before + amount <= after + 1
  BY <1>3, <1>4, <1>5, <1>6, <1>8, <1>12, <1>13, ScaleType, BoughtFor
<1>17. ASSUME FeesInHand PROVE PricingNav' \in (PricingNav - 1)..PricingNav
  <2>1. collectedFees <= u
    BY <1>1, <1>3, <1>11, <1>17 DEF Idle, IdleBeside, Floored, FeesInHand
  <2>2. PICK d \in 0..1 : after = before + amount - d
    BY <1>3, <1>15, OneOff
  <2>3. u + after = usdc + mark - d
    BY <1>2, <1>3, <1>11, <1>13, <2>2
  <2> QED
    BY <1>1, <1>2, <1>11, <1>12, <1>14, <1>17, <2>1, <2>3, NavMoves
<1> QED
  BY <1>16, <1>17

\* Tokens become USDC: what is delivered, up to one unit that rounds away, was
\* counted.
LEMMA WithdrawWorth ==
  ASSUME ReserveInv, NEW amount \in ReserveAmount, withdrawFromRWA(amount)
  PROVE  ReserveInv' /\ (FeesInHand => PricingNav' \in (PricingNav - 1)..PricingNav)
<1> DEFINE t == reserveToken
           n == TokensNeeded(t, amount)
           delivered == UsdcFor(t, n)
<1>1. /\ rwaAdapter = TRUE /\ n <= held[t]
      /\ usdc' = usdc + delivered /\ held' = [held EXCEPT ![t] = @ - n]
      /\ rwaAdapter' = rwaAdapter /\ reserveToken' = reserveToken /\ price' = price
      /\ VaultKept /\ mark' = ReserveValue'
  BY DEF withdrawFromRWA, ReserveInv, ReserveTyped
<1>2. ReserveTyped /\ TypeOK /\ OneTokenHeld /\ mark = ReserveValue
  BY DEF ReserveInv
<1>3. amount \in Nat /\ t \in ReserveToken /\ held[t] \in Nat /\ usdc \in Nat /\ collectedFees \in Nat
  BY <1>2, ReserveConstants DEF ReserveTyped, TypeOK
<1>4. price[t] \in Nat /\ n \in Nat
  BY <1>2, <1>3, ConversionTypes
<1>5. delivered = (n * price[t]) \div Scale
  BY DEF UsdcFor
<1>6. ReserveValue = (held[t] * price[t]) \div Scale
  BY <1>1 DEF ReserveValue, UsdcFor
<1>7. delivered \in Nat
  BY <1>2, <1>3, <1>4, ConversionTypes
<1> HIDE DEF n, delivered
<1>8. held[t] - n \in Nat
  BY <1>1, <1>3, <1>4
<1>9. /\ held' \in [ReserveToken -> Nat] /\ held'[t] = held[t] - n
      /\ \A o \in ReserveToken : o # t => held'[o] = held[o]
  BY <1>1, <1>2, <1>3, <1>8 DEF ReserveTyped
<1>10. ReserveValue' = ((held[t] - n) * price[t]) \div Scale
  BY <1>1, <1>9 DEF ReserveValue, UsdcFor
<1>11. ReserveTyped' /\ OneTokenHeld'
  BY <1>1, <1>2, <1>9 DEF ReserveTyped, OneTokenHeld
<1>12. PICK u \in Nat : u = usdc' /\ u = usdc + delivered
  BY <1>1, <1>3, <1>7
<1>13. PICK after \in Nat : after = ReserveValue'
  BY <1>11, ValueNext
<1>14. PICK before \in Nat : before = ReserveValue
  BY <1>2, ValueType
<1>15. TypeOK' /\ QueueExact' /\ UsersQueued'
  BY <1>1, <1>12, <1>13, VaultKeeps
<1>16. ReserveInv'
  BY <1>1, <1>11, <1>15 DEF ReserveInv
<1>17. after + delivered <= before /\ before <= after + delivered + 1
  BY <1>1, <1>3, <1>4, <1>5, <1>6, <1>10, <1>13, <1>14, ScaleType, SoldOf
<1>18. ASSUME FeesInHand PROVE PricingNav' \in (PricingNav - 1)..PricingNav
  <2>1. collectedFees <= u
    BY <1>3, <1>7, <1>12, <1>18 DEF FeesInHand
  <2>2. PICK d \in 0..1 : after + delivered = before - d
    BY <1>7, <1>17, OneOff
  <2>3. u + after = usdc + mark - d
    BY <1>2, <1>3, <1>7, <1>12, <1>14, <2>2
  <2> QED
    BY <1>1, <1>2, <1>12, <1>13, <1>15, <1>18, <2>1, <2>3, NavMoves
<1> QED
  BY <1>16, <1>18

\* What the old token is worth buys the new one.
LEMMA RotateWorth ==
  ASSUME ReserveInv, NEW token \in ReserveToken, rotateReserveToken(token)
  PROVE  ReserveInv' /\ (FeesInHand => PricingNav' \in (PricingNav - 1)..PricingNav)
<1> DEFINE old == reserveToken
           freed == UsdcFor(old, held[old])
           n == TokensFor(token, freed)
<1>1. /\ rwaAdapter = TRUE /\ token # old /\ reserveToken' = token
      /\ held' = [[held EXCEPT ![old] = 0] EXCEPT ![token] = @ + n]
      /\ rwaAdapter' = rwaAdapter /\ price' = price /\ usdc' = usdc
      /\ VaultKept /\ mark' = ReserveValue'
  BY DEF rotateReserveToken, Leaving, ReserveInv, ReserveTyped
<1>2. ReserveTyped /\ TypeOK /\ OneTokenHeld /\ mark = ReserveValue
  BY DEF ReserveInv
<1>3. old \in ReserveToken /\ held[old] \in Nat /\ usdc \in Nat /\ collectedFees \in Nat
  BY <1>2 DEF ReserveTyped, TypeOK
<1>4. freed \in Nat
  BY <1>2, <1>3, ConversionTypes
<1>5. freed = ReserveValue
  BY <1>1 DEF ReserveValue
<1>6. held[token] = 0
  BY <1>1, <1>2 DEF OneTokenHeld
<1> HIDE DEF freed
<1>7. price[token] \in Nat /\ 0 < price[token] /\ price[token] <= Scale /\ n \in Nat
  BY <1>2, <1>4, ConversionTypes
<1>8. n = (freed * Scale) \div price[token]
  BY DEF TokensFor
<1> HIDE DEF n
<1>9. /\ held' \in [ReserveToken -> Nat] /\ held'[token] = n
      /\ \A o \in ReserveToken : o # token => held'[o] = 0
  <2>1. held \in [ReserveToken -> Nat]
    BY <1>2 DEF ReserveTyped
  <2>2. \A o \in ReserveToken : held'[o] = IF o = token THEN 0 + n ELSE IF o = old THEN 0 ELSE held[o]
    BY <1>1, <1>3, <1>6, <2>1
  <2>3. \A o \in ReserveToken : o # old => held[o] = 0
    BY <1>2 DEF OneTokenHeld
  <2>4. held' \in [ReserveToken -> Nat]
    <3>1. [held EXCEPT ![old] = 0] \in [ReserveToken -> Nat] /\ [held EXCEPT ![old] = 0][token] = 0
      BY <1>1, <1>3, <1>6, <2>1
    <3> DEFINE emptied == [held EXCEPT ![old] = 0]
    <3> HIDE DEF emptied
    <3>2. held' = [emptied EXCEPT ![token] = 0 + n] /\ emptied \in [ReserveToken -> Nat]
      BY <1>1, <3>1 DEF emptied
    <3> QED
      BY <1>7, <3>2
  <2> QED
    BY <1>7, <2>2, <2>3, <2>4
<1>10. ReserveTyped' /\ OneTokenHeld'
  BY <1>1, <1>2, <1>9 DEF ReserveTyped, OneTokenHeld
<1>11. ReserveValue' = (n * price[token]) \div Scale
  BY <1>1, <1>9 DEF ReserveValue, UsdcFor
<1>12. PICK u \in Nat : u = usdc' /\ u = usdc
  BY <1>1, <1>3
<1>13. PICK after \in Nat : after = ReserveValue'
  BY <1>10, ValueNext
<1>14. TypeOK' /\ QueueExact' /\ UsersQueued'
  BY <1>1, <1>12, <1>13, VaultKeeps
<1>15. ReserveInv'
  BY <1>1, <1>10, <1>14 DEF ReserveInv
<1>16. after <= freed /\ freed <= after + 1
  <2>1. 0 \in Nat /\ (0 * price[token]) \div Scale = 0 /\ 0 + n = n
    <3>1. 0 * price[token] = 0
      BY <1>7
    <3>2. 0 \div Scale \in Nat /\ (0 \div Scale) * Scale <= 0
      BY ScaleType, DivLaw
    <3>3. 0 \div Scale = 0
      BY <3>2, ScaleType, ByFactor
    <3> QED
      BY <1>7, <3>1, <3>3
  <2>2. ((0 + n) * price[token]) \div Scale <= (0 * price[token]) \div Scale + freed
        /\ (0 * price[token]) \div Scale + freed <= ((0 + n) * price[token]) \div Scale + 1
    BY <1>4, <1>7, <1>8, <2>1, ScaleType, BoughtFor
  <2> QED
    BY <1>4, <1>11, <1>13, <2>1, <2>2
<1>17. ASSUME FeesInHand PROVE PricingNav' \in (PricingNav - 1)..PricingNav
  <2>1. collectedFees <= u
    BY <1>12, <1>17 DEF FeesInHand
  <2>2. PICK d \in 0..1 : after = freed - d
    BY <1>4, <1>16, OneOff
  <2>3. u + after = usdc + mark - d
    BY <1>2, <1>3, <1>4, <1>5, <1>12, <2>2
  <2> QED
    BY <1>1, <1>2, <1>12, <1>13, <1>14, <1>17, <2>1, <2>3, NavMoves
<1> QED
  BY <1>15, <1>17

\* The adapter wired or not, prices and yield: no call of the reserve.
LEMMA ReserveMoves ==
  ASSUME ReserveInv,
         \/ \E flag \in BOOLEAN : setRWAAdapter(flag)
         \/ \E t \in Quoted, p \in TokenPrice : PriceSubmitted(t, p)
         \/ \E t \in Quoted : PriceLapses(t)
         \/ Rebase
  PROVE  ReserveInv' /\ usdc' = usdc /\ reserveToken' = reserveToken
<1>1. ReserveTyped /\ TypeOK /\ OneTokenHeld /\ mark = ReserveValue /\ usdc \in Nat
  BY DEF ReserveInv, TypeOK
<1>2. ASSUME ReserveTyped', OneTokenHeld', VaultKept, usdc' = usdc, mark' = ReserveValue'
      PROVE  ReserveInv'
  <2>1. PICK value \in Nat : value = ReserveValue'
    BY <1>2, ValueNext
  <2>2. usdc' \in Nat /\ mark' \in Int
    BY <1>1, <1>2, <2>1
  <2>3. TypeOK' /\ QueueExact' /\ UsersQueued'
    BY <1>2, <2>2, VaultKeeps
  <2> QED
    BY <1>2, <2>3 DEF ReserveInv
<1>3. CASE \E flag \in BOOLEAN : setRWAAdapter(flag)
  <2>1. PICK flag \in BOOLEAN : setRWAAdapter(flag)
    BY <1>3
  <2>2. /\ rwaAdapter' = flag /\ reserveToken' = reserveToken /\ held' = held /\ price' = price
        /\ usdc' = usdc /\ VaultKept /\ mark' = ReserveValue'
    BY <2>1 DEF setRWAAdapter
  <2>3. ReserveTyped' /\ OneTokenHeld'
    BY <1>1, <2>2 DEF ReserveTyped, OneTokenHeld
  <2> QED
    BY <1>2, <2>2, <2>3
<1>4. CASE \E t \in Quoted, p \in TokenPrice : PriceSubmitted(t, p)
  <2>1. PICK t \in Quoted, p \in TokenPrice : PriceSubmitted(t, p)
    BY <1>4
  <2>2. /\ rwaAdapter' = rwaAdapter /\ reserveToken' = reserveToken /\ held' = held
        /\ price' = [price EXCEPT ![t] = p]
        /\ usdc' = usdc /\ VaultKept /\ mark' = ReserveValue'
    BY <2>1 DEF PriceSubmitted
  <2>3. p \in 1..Scale
    BY ReserveConstants
  <2>4. ReserveTyped' /\ OneTokenHeld'
    BY <1>1, <2>2, <2>3 DEF ReserveTyped, OneTokenHeld
  <2> QED
    BY <1>2, <2>2, <2>4
<1>5. CASE \E t \in Quoted : PriceLapses(t)
  <2>1. UNCHANGED <<rwaAdapter, reserveToken, held, price>> /\ UNCHANGED vars
    BY <1>5 DEF PriceLapses
  <2>2. ReserveTyped' /\ OneTokenHeld' /\ usdc' = usdc /\ mark' = mark /\ VaultKept
    BY <1>1, <2>1 DEF ReserveTyped, OneTokenHeld, VaultKept, vars, perp
  <2>3. ReserveValue' = ReserveValue
    BY <2>1 DEF ReserveValue, UsdcFor
  <2> QED
    BY <1>1, <1>2, <2>1, <2>2, <2>3
<1>6. CASE Rebase
  <2>1. /\ 0 < held["MUSD"] /\ held' = [held EXCEPT !["MUSD"] = @ + 1]
        /\ rwaAdapter' = rwaAdapter /\ reserveToken' = reserveToken /\ price' = price
        /\ usdc' = usdc /\ VaultKept /\ mark' = ReserveValue'
    BY <1>6 DEF Rebase
  <2>2. "MUSD" \in ReserveToken /\ held \in [ReserveToken -> Nat] /\ held["MUSD"] \in Nat
    BY <1>1 DEF ReserveToken, ReserveTyped
  <2>3. reserveToken = "MUSD"
    BY <1>1, <2>1, <2>2 DEF OneTokenHeld
  <2>4. held' \in [ReserveToken -> Nat] /\ \A o \in ReserveToken : o # "MUSD" => held'[o] = held[o]
    BY <2>1, <2>2
  <2>5. ReserveTyped' /\ OneTokenHeld'
    BY <1>1, <2>1, <2>3, <2>4 DEF ReserveTyped, OneTokenHeld
  <2> QED
    BY <1>2, <2>1, <2>5
<1> QED
  BY <1>3, <1>4, <1>5, <1>6

\* USDC that a user pays or is paid shows in a wallet.
LEMMA WalletMoves ==
  ASSUME ReserveInv, NEW u \in User, NEW n \in Nat, wallet' = [wallet EXCEPT ![u] = @ + n], n # 0
  PROVE  wallet' # wallet
<1>1. wallet \in [User -> Nat]
  BY DEF ReserveInv, TypeOK
<1>2. wallet[u] \in Nat /\ wallet'[u] = wallet[u] + n
  BY <1>1
<1>3. wallet[u] + n # wallet[u]
  BY <1>2
<1> QED
  BY <1>2, <1>3

\* A step of the vault itself leaves the reserve, and moves USDC only with a
\* wallet or with the fees.
LEMMA VaultBesideReserve ==
  ASSUME ReserveInv, UserStep \/ GiftStep \/ KeeperStep \/ CollectFees, UNCHANGED reserve
  PROVE  ReserveInv' /\ (usdc' = usdc \/ wallet' # wallet \/ collectedFees' # collectedFees)
<1>1. ReserveTyped' /\ OneTokenHeld' /\ ReserveValue' = ReserveValue
  BY DEF reserve, ReserveInv, ReserveTyped, OneTokenHeld, ReserveValue, UsdcFor
<1>2. TypeOK /\ QueueExact /\ UsersQueued /\ mark = ReserveValue
  BY DEF ReserveInv
<1>3. TypeOK' /\ QueueExact'
  <2>1. KeeperStep => \E id \in Id, received \in Nat : Fill(id, received)
    BY DEF KeeperStep, ProcessPendingRedemption
  <2> QED
    BY <1>2, <2>1, VaultSteps DEF OwnerStep
<1>4. SUFFICES /\ UsersQueued' /\ mark' = mark
               /\ usdc' = usdc \/ wallet' # wallet \/ collectedFees' # collectedFees
  BY <1>1, <1>2, <1>3 DEF ReserveInv
<1>5. ASSUME UNCHANGED queue PROVE UsersQueued'
  BY <1>2, <1>5 DEF queue, UsersQueued
<1>6. usdc \in Nat /\ wallet \in [User -> Nat] /\ collectedFees \in Nat
  BY <1>2 DEF TypeOK
<1>7. CASE \E u \in User, amount \in Deposits, weight \in Weight : Deposit(u, amount, weight)
  <2>1. PICK u \in User, amount \in Deposits, weight \in Weight : Deposit(u, amount, weight)
    BY <1>7
  <2>2. 0 < amount /\ wallet' = [wallet EXCEPT ![u] = @ - amount] /\ UNCHANGED queue /\ mark' = mark
    BY <2>1 DEF Deposit, perp
  <2>3. amount \in Nat /\ wallet[u] \in Nat
    BY <1>6, VaultConstants
  <2>4. wallet'[u] = wallet[u] - amount
    BY <1>6, <2>2
  <2>5. wallet[u] - amount # wallet[u]
    BY <2>2, <2>3
  <2> QED
    BY <1>5, <2>2, <2>4, <2>5
<1>8. CASE \E u \in User, n \in ShareAmount : RedeemNow(u, n)
  <2>1. PICK u \in User, n \in ShareAmount : RedeemNow(u, n)
    BY <1>8
  <2>2. /\ 0 < n /\ n <= share[u] /\ UNCHANGED queue /\ mark' = mark
        /\ usdc' = usdc - Quote(n).owed /\ wallet' = [wallet EXCEPT ![u] = @ + Quote(n).owed]
    BY <2>1 DEF RedeemNow, perp
  <2>3. PICK owed \in Nat : owed = Quote(n).owed
    BY <1>2, <2>2, QuoteType, VaultConstants
  <2>4. CASE owed = 0
    BY <1>5, <1>6, <2>2, <2>3, <2>4
  <2>5. CASE owed # 0
    <3>1. wallet' = [wallet EXCEPT ![u] = @ + owed]
      BY <2>2, <2>3
    <3>2. wallet' # wallet
      BY <2>5, <3>1, WalletMoves, Zenon
    <3> QED
      BY <1>5, <2>2, <3>2
  <2> QED
    BY <2>4, <2>5
<1>9. CASE \E u \in User, n \in ShareAmount : RedeemAndQueue(u, n)
  <2>1. PICK u \in User, n \in ShareAmount : RedeemAndQueue(u, n)
    BY <1>9
  <2> DEFINE q == Quote(n)
             burned == PartialShares(n, q)
  <2>2. PICK paid : /\ paid = (IF burned > 0 THEN q.idle ELSE 0)
                    /\ usdc' = usdc - paid /\ wallet' = [wallet EXCEPT ![u] = @ + paid]
    BY <2>1 DEF RedeemAndQueue
  <2>3. 0 < n /\ n <= share[u] /\ mark' = mark
    BY <2>1 DEF RedeemAndQueue, perp
  <2>4. q.idle \in Nat
    BY <1>2, <2>3, QuoteType, VaultConstants
  <2>5. /\ pendingRedemptionCount' = pendingRedemptionCount + 1
        /\ pendingRedemptions' = [pendingRedemptions EXCEPT ![pendingRedemptionCount] =
             [user |-> u, sharesLocked |-> n - burned, usdcOwed |-> Remainder(q),
              completed |-> FALSE]]
    BY <2>1 DEF RedeemAndQueue
  <2> HIDE DEF q, burned
  <2>6. paid \in Nat
    BY <2>2, <2>4
  <2>7. UsersQueued'
    <3>1. SUFFICES ASSUME NEW id \in Id, id < pendingRedemptionCount'
                   PROVE  pendingRedemptions'[id].user \in User
      BY DEF UsersQueued
    <3>2. pendingRedemptions \in [Id -> Request] /\ pendingRedemptionCount \in Nat /\ id \in Nat
      BY <1>2 DEF TypeOK, Id
    <3>3. CASE id = pendingRedemptionCount
      BY <2>5, <3>2, <3>3
    <3>4. CASE id # pendingRedemptionCount
      <4>1. pendingRedemptions'[id] = pendingRedemptions[id]
        BY <2>5, <3>2, <3>4
      <4>2. id < pendingRedemptionCount
        BY <2>5, <3>1, <3>2, <3>4
      <4> QED
        BY <1>2, <4>1, <4>2 DEF UsersQueued
    <3> QED
      BY <3>3, <3>4
  <2>8. usdc' = usdc \/ wallet' # wallet
    <3>1. CASE paid = 0
      BY <1>6, <2>2, <3>1
    <3>2. CASE paid # 0
      BY <2>2, <2>6, <3>2, WalletMoves, Zenon
    <3> QED
      BY <3>1, <3>2
  <2> QED
    BY <2>3, <2>7, <2>8
<1>10. CASE GiftStep
  <2>1. CASE \E u \in User, amount \in Deposits : TopUpReserve(u, amount)
    <3>1. PICK u \in User, amount \in Deposits : TopUpReserve(u, amount)
      BY <2>1
    <3>2. 0 < amount /\ wallet' = [wallet EXCEPT ![u] = @ - amount] /\ UNCHANGED queue /\ mark' = mark
      BY <3>1 DEF TopUpReserve, perp
    <3>3. amount \in Nat /\ wallet[u] \in Nat
      BY <1>6, VaultConstants
    <3>4. wallet'[u] = wallet[u] - amount
      BY <1>6, <3>2
    <3>5. wallet[u] - amount # wallet[u]
      BY <3>2, <3>3
    <3> QED
      BY <1>5, <3>2, <3>4, <3>5
  <2>2. ASSUME ~ \E u \in User, amount \in Deposits : TopUpReserve(u, amount)
        PROVE  UNCHANGED queue /\ mark' = mark /\ usdc' = usdc
    BY <1>10, <2>2 DEF GiftStep, TransferShares, Approve, perp
  <2> QED
    BY <1>5, <2>1, <2>2
<1>11. CASE KeeperStep
  <2>1. PICK id \in Id : Fill(id, 0)
    BY <1>11 DEF KeeperStep, ProcessPendingRedemption
  <2> DEFINE pr == pendingRedemptions[id]
  <2>2. /\ id < pendingRedemptionCount
        /\ pendingRedemptions' = [pendingRedemptions EXCEPT ![id].completed = TRUE]
        /\ usdc' = usdc + 0 - pr.usdcOwed
        /\ wallet' = [wallet EXCEPT ![pr.user] = @ + pr.usdcOwed]
        /\ pendingRedemptionCount' = pendingRedemptionCount /\ mark' = mark
    BY <2>1 DEF Fill, OpenRequest, perp
  <2>3. pendingRedemptions \in [Id -> Request] /\ pr.usdcOwed \in Nat
    BY <1>2 DEF TypeOK, Request
  <2>4. pr.user \in User
    BY <1>2, <2>2 DEF UsersQueued
  <2>5. \A i \in Id : pendingRedemptions'[i].user = pendingRedemptions[i].user
    <3>1. \A i \in Id : pendingRedemptions[i] \in Request
      BY <2>3
    <3>2. [pr EXCEPT !.completed = TRUE].user = pr.user
      BY <3>1 DEF Request
    <3>3. /\ \A i \in Id : i # id => pendingRedemptions'[i] = pendingRedemptions[i]
          /\ pendingRedemptions'[id] = [pr EXCEPT !.completed = TRUE]
      BY <2>2, <2>3
    <3> QED
      BY <3>2, <3>3
  <2>6. UsersQueued'
    BY <1>2, <2>2, <2>5 DEF UsersQueued
  <2> HIDE DEF pr
  <2>7. usdc' = usdc \/ wallet' # wallet
    <3>1. CASE pr.usdcOwed = 0
      BY <1>6, <2>2, <3>1
    <3>2. CASE pr.usdcOwed # 0
      <4>1. PICK v \in User, owed \in Nat : v = pr.user /\ owed = pr.usdcOwed
        BY <2>3, <2>4 DEF pr
      <4>2. wallet' = [wallet EXCEPT ![v] = @ + owed] /\ owed # 0
        BY <2>2, <3>2, <4>1 DEF pr
      <4> QED
        BY <4>2, WalletMoves, Zenon
    <3> QED
      BY <3>1, <3>2
  <2> QED
    BY <2>2, <2>6, <2>7
<1>12. CASE CollectFees
  <2>1. 0 < collectedFees /\ collectedFees' = 0 /\ UNCHANGED queue /\ mark' = mark
    BY <1>12 DEF CollectFees, perp
  <2> QED
    BY <1>5, <1>6, <2>1
<1> QED
  BY <1>7, <1>8, <1>9, <1>10, <1>11, <1>12 DEF UserStep, Redeem

LEMMA ReserveInits ==
  ASSUME Init, NEW funds \in Nat, ReserveInit(funds)
  PROVE  ReserveInv
<1>1. TypeOK /\ QueueExact
  BY VaultInits
<1>2. UsersQueued
  BY DEF Init, UsersQueued, Id
<1>3. ReserveTyped /\ OneTokenHeld
  BY ScaleType DEF ReserveInit, ReserveTyped, OneTokenHeld, ReserveToken, Quoted
<1>4. mark = ReserveValue
  BY DEF Init, ReserveInit, ReserveValue
<1> QED
  BY <1>1, <1>2, <1>3, <1>4 DEF ReserveInv

\* At standing prices no call of the reserve makes NAV or loses more than a unit
\* of it, for any amounts, prices, yield and order of conversions, as long as the
\* fees are in the balance.
THEOREM ReserveWorthKept == ReserveSpec => ReserveKeepsWorth
<1> DEFINE Kept == ReserveCall /\ FeesInHand => PricingNav' \in (PricingNav - 1)..PricingNav
<1>1. ReserveInv /\ [ReserveNext]_rwaVars => ReserveInv' /\ Kept
  <2> SUFFICES ASSUME ReserveInv, [ReserveNext]_rwaVars
               PROVE  ReserveInv' /\ Kept
    OBVIOUS
  <2>1. CASE \E amount \in ReserveAmount : allocateToRWA(amount)
    BY <2>1, AllocateWorth
  <2>2. CASE \E amount \in ReserveAmount : withdrawFromRWA(amount)
    BY <2>2, WithdrawWorth
  <2>3. CASE \E token \in ReserveToken : rotateReserveToken(token)
    BY <2>3, RotateWorth
  <2>4. CASE \/ \E flag \in BOOLEAN : setRWAAdapter(flag)
             \/ \E t \in Quoted, p \in TokenPrice : PriceSubmitted(t, p)
             \/ \E t \in Quoted : PriceLapses(t)
             \/ Rebase
    <3>1. ReserveInv' /\ usdc' = usdc /\ reserveToken' = reserveToken
      BY <2>4, ReserveMoves
    <3> QED
      BY <3>1 DEF ReserveCall
  <2>5. CASE ((UserStep /\ NavReadable) \/ GiftStep \/ KeeperStep \/ CollectFees) /\ UNCHANGED reserve
    <3>1. ReserveInv' /\ (usdc' = usdc \/ wallet' # wallet \/ collectedFees' # collectedFees)
      BY <2>5, VaultBesideReserve
    <3> QED
      BY <2>5, <3>1 DEF ReserveCall, reserve
  <2>6. CASE UNCHANGED rwaVars
    <3>1. UNCHANGED vars /\ UNCHANGED reserve
      BY <2>6 DEF rwaVars
    <3>2. usdc' = usdc /\ reserveToken' = reserveToken /\ mark' = mark
      BY <3>1 DEF vars, perp, reserve
    <3>3. TypeOK' /\ QueueExact'
      BY <3>1, VaultSteps DEF ReserveInv
    <3>4. UsersQueued'
      BY <3>1 DEF vars, queue, ReserveInv, UsersQueued
    <3>5. ReserveTyped' /\ OneTokenHeld' /\ ReserveValue' = ReserveValue
      BY <3>1 DEF reserve, ReserveInv, ReserveTyped, OneTokenHeld, ReserveValue, UsdcFor
    <3> QED
      BY <3>2, <3>3, <3>4, <3>5 DEF ReserveCall, ReserveInv
  <2> HIDE DEF Kept
  <2> QED
    BY <2>1, <2>2, <2>3, <2>4, <2>5, <2>6 DEF ReserveNext, ReserveStep
<1>2. Init /\ (\E funds \in Nat : ReserveInit(funds)) => ReserveInv
  BY ReserveInits
<1>3. ReserveSpec => [][Kept]_rwaVars
  <2> HIDE DEF Kept
  <2> QED
    BY <1>1, <1>2, PTL DEF ReserveSpec
<1> QED
  BY <1>3 DEF ReserveKeepsWorth

=============================================================================
