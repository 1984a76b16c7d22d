---------------------------- MODULE BasketVault ----------------------------
(***************************************************************************)
(* src/src/vault/BasketVault.sol: users buy and redeem shares at the       *)
(* vault's NAV, redemptions that the USDC at hand does not cover are       *)
(* queued for the keeper, and the owner moves USDC to and from             *)
(* VaultAccounting, whose part is PerpAccount.                             *)
(*                                                                         *)
(* mark stands for what VaultAccounting reports as unrealised and the      *)
(* StateRelay adds while it is fresh; it moves at any time.  RWAReserve    *)
(* adds to it what the reserve is worth.  Left out: assets, oracle and     *)
(* timestamps.  A revert is the absence of a step.                         *)
(***************************************************************************)
EXTENDS PerpAccount, Functions, FiniteSets

CONSTANTS
  User,          \* shareholders, and whoever else holds USDC
  Self,          \* the vault as a holder of its own shares
  Deposits,      \* USDC amounts users pass
  ShareAmount,   \* share amounts users pass
  PerpAmount,    \* USDC amounts moved to and from the perp account
  Collateral, Payback, \* what positions take and pay back
  Mark,          \* values of mark
  Weight,        \* routing weights the relay may report
  FeeBps, Bps, Cap, \* settings the owner may choose
  MaxQueue,      \* bound of the model: redemptions ever queued
  MaxUsdc,       \* bound of the model: USDC of users, vault and account;
                 \* and of perpAllocated, which can outgrow it
  StartWallet    \* USDC of each user at the start

BPS_DENOMINATOR == 10000
Holder == User \cup {Self}
Id == 0..(MaxQueue - 1)

ASSUME VaultConstants ==
  /\ IsFiniteSet(User) /\ Self \notin User
  /\ Deposits \subseteq Nat /\ ShareAmount \subseteq Nat
  /\ PerpAmount \subseteq Nat /\ Collateral \subseteq Nat /\ Payback \subseteq Nat
  /\ Mark \subseteq Int /\ 0 \in Mark
  /\ Weight \subseteq 0..BPS_DENOMINATOR /\ Bps \subseteq 0..BPS_DENOMINATOR
  /\ FeeBps \subseteq 0..500 /\ Cap \subseteq Nat
  /\ MaxQueue \in Nat /\ MaxUsdc \in Nat
  /\ StartWallet \in Nat

VARIABLES
  wallet,                 \* USDC of the users
  usdc,                   \* usdc.balanceOf(vault)
  share,                  \* shareToken balances
  approved,               \* whether a user lets the vault take shares
  collectedFees,
  perpAllocated,
  pendingRedemptions,
  pendingRedemptionCount,
  pendingRedemptionsUsdc,
  depositFeeBps, redeemFeeBps, maxPerpAllocation, minReserveBps,
  minDepositWeightBps,
  wired,                  \* vaultAccounting is set
  mark

queue == <<pendingRedemptions, pendingRedemptionCount, pendingRedemptionsUsdc>>
policy == <<depositFeeBps, redeemFeeBps, maxPerpAllocation, minReserveBps,
            minDepositWeightBps>>
perp == <<account, wired, mark>>
vars == <<wallet, usdc, share, approved, collectedFees, perpAllocated, queue,
          policy, perp>>

NoRequest == [user |-> Self, sharesLocked |-> 0, usdcOwed |-> 0, completed |-> FALSE]

Init ==
  /\ wallet = [u \in User |-> StartWallet]
  /\ usdc = 0
  /\ share = [h \in Holder |-> 0]
  /\ approved = [u \in User |-> FALSE]
  /\ collectedFees = 0 /\ perpAllocated = 0
  /\ pendingRedemptions = [id \in Id |-> NoRequest]
  /\ pendingRedemptionCount = 0 /\ pendingRedemptionsUsdc = 0
  /\ depositFeeBps = 0 /\ redeemFeeBps = 0
  /\ maxPerpAllocation = 0 /\ minReserveBps = 0 /\ minDepositWeightBps = 0
  /\ NewAccount /\ wired = FALSE /\ mark = 0

-----------------------------------------------------------------------------
(* Valuation.                                                              *)

Floored(n) == IF n > 0 THEN n ELSE 0

\* _idleUsdcExcludingFees, with the fees as they stand at the moment.
IdleBeside(fees) == Floored(usdc - fees)
Idle == IdleBeside(collectedFees)

\* The fees the vault owes are in its balance.
FeesInHand == collectedFees <= usdc

TotalVaultValue == Idle + perpAllocated

PricingNav == Floored(TotalVaultValue + mark + (IF wired THEN realised ELSE 0))

TotalSupply == SumFunctionOnSet(share, Holder)

FeeOn(amount, bps) == (amount * bps) \div BPS_DENOMINATOR

AvailableForPerp == Floored(Idle - (TotalVaultValue * minReserveBps) \div BPS_DENOMINATOR)

-----------------------------------------------------------------------------
(* Deposit and redeem.                                                     *)

\* Mutation: the price paid for the gross amount.
MintedForGross(gross, net) ==
  IF TotalSupply = 0 THEN gross ELSE (gross * TotalSupply) \div PricingNav

Minted(gross, net) ==
  IF TotalSupply = 0 THEN net ELSE (net * TotalSupply) \div PricingNav

Deposit(u, amount, weight) ==
  LET fee    == FeeOn(amount, depositFeeBps)
      minted == Minted(amount, amount - fee)
  IN
  /\ 0 < amount /\ amount <= wallet[u]
  /\ minDepositWeightBps <= weight
  /\ TotalSupply = 0 \/ 0 < PricingNav
  /\ 0 < minted
  /\ wallet' = [wallet EXCEPT ![u] = @ - amount]
  /\ usdc' = usdc + amount
  /\ collectedFees' = collectedFees + fee
  /\ share' = [share EXCEPT ![u] = @ + minted]
  /\ UNCHANGED <<approved, perpAllocated, queue, policy, perp>>

\* What a redemption of n shares is worth now.
Quote(n) ==
  LET gross == (n * PricingNav) \div TotalSupply
      fee   == FeeOn(gross, redeemFeeBps)
  IN [fee |-> fee, owed |-> gross - fee, idle |-> IdleBeside(collectedFees + fee)]

\* The whole amount is at hand.
RedeemNow(u, n) ==
  LET q == Quote(n) IN
  /\ 0 < n /\ n <= share[u]
  /\ q.owed <= q.idle
  /\ collectedFees' = collectedFees + q.fee
  /\ share' = [share EXCEPT ![u] = @ - n]
  /\ usdc' = usdc - q.owed
  /\ wallet' = [wallet EXCEPT ![u] = @ + q.owed]
  /\ UNCHANGED <<approved, perpAllocated, queue, policy, perp>>

\* Mutation: the remainder priced without what was paid at once.
RemainderUnpaid(q) == q.owed

\* What is still owed after the partial fill.
Remainder(q) == q.owed - q.idle

\* The shares the partial fill pays for; when they round to none, nothing is
\* burned and nothing is sent, and the remainder is what it would be otherwise.
PartialShares(n, q) == (n * q.idle) \div q.owed

\* It is not: pay what there is, lock the remaining shares in the vault (a
\* transferFrom, so the user must have approved it) and queue the rest.
RedeemAndQueue(u, n) ==
  LET q      == Quote(n)
      burned == PartialShares(n, q)
      paid   == IF burned > 0 THEN q.idle ELSE 0
      owed   == Remainder(q)
      id     == pendingRedemptionCount
  IN
  /\ 0 < n /\ n <= share[u]
  /\ q.idle < q.owed
  /\ approved[u]
  /\ id < MaxQueue
  /\ collectedFees' = collectedFees + q.fee
  /\ usdc' = usdc - paid
  /\ wallet' = [wallet EXCEPT ![u] = @ + paid]
  /\ share' = [share EXCEPT ![u] = @ - n, ![Self] = @ + n - burned]
  /\ pendingRedemptionCount' = id + 1
  /\ pendingRedemptions' = [pendingRedemptions EXCEPT ![id] =
        [user |-> u, sharesLocked |-> n - burned, usdcOwed |-> owed,
         completed |-> FALSE]]
  /\ pendingRedemptionsUsdc' = pendingRedemptionsUsdc + owed
  /\ UNCHANGED <<approved, perpAllocated, policy, perp>>

Redeem(u, n) == RedeemNow(u, n) \/ RedeemAndQueue(u, n)

\* Mutation: paid without looking at whether it was paid before.
OpenRequestAgain(id) == id < pendingRedemptionCount

\* An id that was never queued would send to the zero address, which reverts.
OpenRequest(id) == id < pendingRedemptionCount /\ ~ pendingRedemptions[id].completed

\* The keeper fills a request, with USDC that came in just before, or none.
Fill(id, received) ==
  LET pr == pendingRedemptions[id] IN
  /\ OpenRequest(id)
  /\ pr.usdcOwed <= Floored(usdc + received - collectedFees)
  /\ pendingRedemptions' = [pendingRedemptions EXCEPT ![id].completed = TRUE]
  /\ pendingRedemptionsUsdc' = Floored(pendingRedemptionsUsdc - pr.usdcOwed)
  /\ pr.sharesLocked <= share[Self]
  /\ share' = [share EXCEPT ![Self] = @ - pr.sharesLocked]
  /\ usdc' = usdc + received - pr.usdcOwed
  /\ wallet' = [wallet EXCEPT ![pr.user] = @ + pr.usdcOwed]
  /\ UNCHANGED <<approved, collectedFees, perpAllocated, pendingRedemptionCount,
                 policy, perp>>

ProcessPendingRedemption(id) == Fill(id, 0)

\* approve and transfer of the share token.
Approve(u) ==
  /\ approved' = [approved EXCEPT ![u] = TRUE]
  /\ UNCHANGED <<wallet, usdc, share, collectedFees, perpAllocated, queue, policy, perp>>

TransferShares(u, h, n) ==
  /\ u # h /\ 0 < n /\ n <= share[u]
  /\ share' = [share EXCEPT ![u] = @ - n, ![h] = @ + n]
  /\ UNCHANGED <<wallet, usdc, approved, collectedFees, perpAllocated, queue, policy,
                 perp>>

\* By topUpReserve, or by sending the vault USDC.
TopUpReserve(u, amount) ==
  /\ 0 < amount /\ amount <= wallet[u]
  /\ wallet' = [wallet EXCEPT ![u] = @ - amount]
  /\ usdc' = usdc + amount
  /\ UNCHANGED <<share, approved, collectedFees, perpAllocated, queue, policy, perp>>

-----------------------------------------------------------------------------
(* The owner.                                                              *)

AllocateToPerp(amount) ==
  /\ wired
  /\ amount <= AvailableForPerp
  /\ maxPerpAllocation > 0 => perpAllocated + amount <= maxPerpAllocation
  /\ perpAllocated + amount <= MaxUsdc  \* bound of the model
  /\ PayIn(amount)
  /\ usdc' = usdc - amount
  /\ perpAllocated' = perpAllocated + amount
  /\ UNCHANGED <<wallet, share, approved, collectedFees, queue, policy, wired, mark>>

\* Mutations: a withdrawal that leaves the book entry, and one that does not
\* stop at zero when it takes out profit.
AllocationUntouched(amount) == perpAllocated
AllocationUnfloored(amount) == perpAllocated - amount

AllocationLeft(amount) == Floored(perpAllocated - amount)

WithdrawFromPerp(amount) ==
  /\ wired
  /\ TakeOut(amount)
  /\ usdc' = usdc + amount
  /\ perpAllocated' = AllocationLeft(amount)
  /\ UNCHANGED <<wallet, share, approved, collectedFees, queue, policy, wired, mark>>

\* The fees go to an address that is not one of the users.
CollectFees ==
  /\ 0 < collectedFees /\ collectedFees <= usdc
  /\ collectedFees' = 0
  /\ usdc' = usdc - collectedFees
  /\ UNCHANGED <<wallet, share, approved, perpAllocated, queue, policy, perp>>

\* Everything but the policy.
PolicyOnly == UNCHANGED <<wallet, usdc, share, approved, collectedFees, perpAllocated,
                          queue, perp>>

SetFees(deposit, redeem) ==
  /\ depositFeeBps' = deposit /\ redeemFeeBps' = redeem
  /\ UNCHANGED <<maxPerpAllocation, minReserveBps, minDepositWeightBps>>
  /\ PolicyOnly

SetMaxPerpAllocation(cap) ==
  /\ maxPerpAllocation' = cap
  /\ UNCHANGED <<depositFeeBps, redeemFeeBps, minReserveBps, minDepositWeightBps>>
  /\ PolicyOnly

SetMinReserveBps(bps) ==
  /\ minReserveBps' = bps
  /\ UNCHANGED <<depositFeeBps, redeemFeeBps, maxPerpAllocation, minDepositWeightBps>>
  /\ PolicyOnly

SetMinDepositWeightBps(bps) ==
  /\ minDepositWeightBps' = bps
  /\ UNCHANGED <<depositFeeBps, redeemFeeBps, maxPerpAllocation, minReserveBps>>
  /\ PolicyOnly

\* A fresh VaultAccounting, with nothing in it for this vault, or none.
SetVaultAccounting(flag) ==
  /\ wired' = flag
  /\ Reset
  /\ mark' \in Mark
  /\ UNCHANGED <<wallet, usdc, share, approved, collectedFees, perpAllocated, queue,
                 policy>>

-----------------------------------------------------------------------------
(* VaultAccounting and the relay, without the vault being called.          *)

Untouched == UNCHANGED <<wallet, share, approved, collectedFees, perpAllocated, queue,
                         policy, wired>>

MarkMoves ==
  /\ mark' \in Mark
  /\ UNCHANGED <<account, usdc>> /\ Untouched

OpenPosition(collateral) ==
  /\ wired /\ Lock(collateral)
  /\ UNCHANGED <<usdc, mark>> /\ Untouched

AllUsdc == SumFunctionOnSet(wallet, User) + usdc + deposited + realised

ClosePosition(atRisk, back) ==
  /\ wired /\ Settle(atRisk, back)
  /\ AllUsdc + back - atRisk <= MaxUsdc
  /\ mark' \in Mark
  /\ UNCHANGED usdc /\ Untouched

\* VaultAccounting.depositCapital and withdrawCapital ask nobody who calls.
DepositCapitalBy(u, amount) ==
  /\ wired /\ amount <= wallet[u]
  /\ PayIn(amount)
  /\ wallet' = [wallet EXCEPT ![u] = @ - amount]
  /\ UNCHANGED <<usdc, share, approved, collectedFees, perpAllocated, queue, policy,
                 wired, mark>>

WithdrawCapitalByAnyone(amount) ==
  /\ wired /\ TakeOut(amount)
  /\ usdc' = usdc + amount
  /\ UNCHANGED mark /\ Untouched

-----------------------------------------------------------------------------
UserStep ==
  \/ \E u \in User, amount \in Deposits, weight \in Weight : Deposit(u, amount, weight)
  \/ \E u \in User, n \in ShareAmount : Redeem(u, n)

GiftStep ==
  \/ \E u \in User, h \in Holder, n \in ShareAmount : TransferShares(u, h, n)
  \/ \E u \in User : Approve(u)
  \/ \E u \in User, amount \in Deposits : TopUpReserve(u, amount)

KeeperStep == \E id \in Id : ProcessPendingRedemption(id)

OwnerStep ==
  \/ \E amount \in PerpAmount : AllocateToPerp(amount)
  \/ \E amount \in PerpAmount : WithdrawFromPerp(amount)
  \/ CollectFees

PolicyStep ==
  \/ \E deposit, redeem \in FeeBps : SetFees(deposit, redeem)
  \/ \E cap \in Cap : SetMaxPerpAllocation(cap)
  \/ \E bps \in Bps : SetMinReserveBps(bps)
  \/ \E bps \in Bps : SetMinDepositWeightBps(bps)
  \/ \E flag \in BOOLEAN : SetVaultAccounting(flag)

PositionStep ==
  \/ \E collateral \in Collateral : OpenPosition(collateral)
  \/ \E atRisk \in Collateral, back \in Payback : ClosePosition(atRisk, back)

MarketStep == MarkMoves \/ PositionStep

OutsiderStep ==
  \/ \E u \in User, amount \in PerpAmount : DepositCapitalBy(u, amount)
  \/ \E amount \in PerpAmount : WithdrawCapitalByAnyone(amount)

Next ==
  \/ UserStep \/ GiftStep \/ KeeperStep \/ OwnerStep \/ PolicyStep
  \/ MarketStep \/ OutsiderStep

Spec == Init /\ [][Next]_vars

-----------------------------------------------------------------------------
(* Properties.                                                             *)

Request == [user : Holder, sharesLocked : Nat, usdcOwed : Nat, completed : BOOLEAN]

TypeOK ==
  /\ wallet \in [User -> Nat] /\ usdc \in Nat
  /\ share \in [Holder -> Nat] /\ approved \in [User -> BOOLEAN]
  /\ collectedFees \in Nat /\ perpAllocated \in Nat
  /\ pendingRedemptions \in [Id -> Request]
  /\ pendingRedemptionCount \in 0..MaxQueue /\ pendingRedemptionsUsdc \in Nat
  /\ depositFeeBps \in 0..500 /\ redeemFeeBps \in 0..500
  /\ maxPerpAllocation \in Nat
  /\ minReserveBps \in 0..BPS_DENOMINATOR /\ minDepositWeightBps \in 0..BPS_DENOMINATOR
  /\ deposited \in Nat /\ realised \in Int /\ locked \in Nat
  /\ wired \in BOOLEAN /\ mark \in Int

Outstanding == {id \in Id : OpenRequest(id)}
OwedOf(id) == pendingRedemptions[id].usdcOwed
Owed == SumFunctionOnSet([id \in Id |-> OwedOf(id)], Outstanding)
Locked == SumFunctionOnSet([id \in Id |-> pendingRedemptions[id].sharesLocked], Outstanding)

\* pendingRedemptionsUsdc, from which the rwa-treasurer sizes its reserve, is
\* what the open requests are owed: the floor at zero in
\* processPendingRedemption never hides a difference.
QueueSumExact == pendingRedemptionsUsdc = Owed

\* The vault holds the locked shares of all open requests, so no sequence of
\* fills, in any order, makes the burn of a later one revert.
LockedSharesCovered == Locked <= share[Self]

\* The queue's counter and the shares it holds agree with its open requests,
\* whatever the keeper fills, in any order and more than once.
QueueExact == QueueSumExact /\ LockedSharesCovered

\* As long as the capital that the vault allocated is on its account, no step but
\* a price move, a redemption that is queued or filled from the queue, and the
\* owner's pointing the vault at another VaultAccounting lowers what a share is
\* worth: not a deposit or a redemption by others, an allocation, a withdrawal of
\* principal, profit or loss, a sweep of fees, a top-up, or capital others move.
PrincipalThere == wired => perpAllocated <= deposited
NoDilution ==
  [][/\ FeesInHand /\ PrincipalThere /\ 0 < TotalSupply
     /\ UNCHANGED <<pendingRedemptions, mark, locked, wired>>
     /\ \A flag \in BOOLEAN : ~ SetVaultAccounting(flag)
     => PricingNav * TotalSupply' <= PricingNav' * TotalSupply]_vars

\* A redemption that is queued is worth the quoted amount, at once and later
\* together, never more, and less only by what the partial fill rounds away:
\* less than the price of one share.
RedemptionPaid ==
  [][\A u \in User, n \in ShareAmount : RedeemAndQueue(u, n) =>
       LET owed     == Quote(n).owed
           received == (wallet'[u] - wallet[u])
                         + pendingRedemptionsUsdc' - pendingRedemptionsUsdc
       IN received <= owed /\ (owed - received) * n < owed]_vars

\* What is queued can be paid out of NAV, and whoever is in the queue is owed, for
\* each share locked, at most what is then left for each of the other shares.
Unlocked == TotalSupply - Locked
Left == PricingNav - pendingRedemptionsUsdc
QueueCovered ==
  /\ 0 <= Left
  /\ \A id \in Outstanding : OwedOf(id) * Unlocked <= pendingRedemptions[id].sharesLocked * Left

\* Nobody in the queue is owed more than the locked shares would bring now.
QueuedBelowPrice ==
  \A id \in Outstanding :
    OwedOf(id) * TotalSupply <= pendingRedemptions[id].sharesLocked * PricingNav

\* The cover of the queue gets lost by a loss, or by a deposit that is priced
\* below what a request was, never otherwise: not by redemptions that are paid or
\* queued in between, with their fees and roundings, nor by the order of fills.
QueueKept ==
  [][/\ QueueCovered
     /\ UNCHANGED <<share, pendingRedemptions>> => PricingNav <= PricingNav'
     /\ TotalSupply < TotalSupply' => FeesInHand /\ QueuedBelowPrice
     => QueueCovered']_vars

\* perpAllocated is the principal on the perp account until somebody else moves
\* capital or the owner points the vault elsewhere: profit and losses taken out
\* and paid in again never leave NAV counting capital that is not there.
AllocationIsPrincipal == wired => perpAllocated = deposited
PrincipalKept ==
  [][/\ AllocationIsPrincipal
     /\ UserStep \/ GiftStep \/ KeeperStep \/ OwnerStep \/ MarketStep
     => AllocationIsPrincipal']_vars

\* What is behind the vault's promises stays behind them: the capital of its book
\* entry on the perp account, and NAV behind the queue.
CapitalKept == PrincipalKept /\ QueueKept

-----------------------------------------------------------------------------
(* What comments and docs say and the code does not keep; see README.      *)

\* The fees are "reserved in vault balance until `collectFees`"
\* (BasketVault.sol:50): redemptions and allocations never spend them.
FeesBacked == FeesInHand
=============================================================================
