----------------------------- MODULE RWAReserve -----------------------------
(***************************************************************************)
(* src/src/rwa on top of the vault: the owner (an agent) keeps idle USDC   *)
(* in one of three tokens, USDY and mETH at the oracle's price and mUSD at *)
(* one dollar, and NAV counts the token that is current.  A conversion is  *)
(* one transaction; it reverts on a stale price and when the issuer has    *)
(* too little USDC.                                                        *)
(*                                                                         *)
(* What the reserve is worth is part of mark, the share of NAV that is not *)
(* the vault's own book.  Left out: a second adapter (it is like this one  *)
(* when it is not wired), rwaTargetBps, which no contract reads, and       *)
(* capital with VaultAccounting at the same time.                          *)
(***************************************************************************)
EXTENDS BasketVault

CONSTANTS
  ReserveAmount,     \* USDC amounts the owner moves to and from the reserve
  TokenPrice,        \* prices of USDY and mETH
  E12,               \* token units in one USDC unit at a price of one
  ORACLE_PRECISION,  \* a price of one
  MaxHeld            \* bound of the model: token units that a rebase leads to

Quoted == {"USDY", "METH"}
ReserveToken == Quoted \cup {"MUSD"}
Scale == E12 * ORACLE_PRECISION

\* A token unit is worth no more than a USDC unit.
ASSUME ReserveConstants ==
  /\ ReserveAmount \subseteq Nat /\ MaxHeld \in Nat
  /\ E12 \in Nat \ {0} /\ ORACLE_PRECISION \in Nat \ {0}
  /\ TokenPrice \subseteq 1..Scale

VARIABLES
  rwaAdapter,    \* whether the vault has its adapter wired
  reserveToken,  \* the current token
  held,          \* the adapter's balance of each token
  liquidity,     \* USDC of each token's issuer
  price,         \* of one token; one for mUSD
  stale          \* tokens whose price is too old

reserve == <<rwaAdapter, reserveToken, held, liquidity, price, stale>>
rwaVars == <<vars, reserve>>

ReserveInit(funds) ==
  /\ rwaAdapter = FALSE /\ reserveToken = "USDY"
  /\ held = [t \in ReserveToken |-> 0]
  /\ liquidity = [t \in ReserveToken |-> funds]
  /\ price = [t \in ReserveToken |-> ORACLE_PRECISION]
  /\ stale = {}

-----------------------------------------------------------------------------
(* Conversions.                                                            *)

Readable(t) == t \notin stale

TokensFor(t, amount) == (amount * Scale) \div price[t]
UsdcFor(t, n) == (n * price[t]) \div Scale

\* The tokens to redeem for an amount; a quoted price may round it down.
TokensNeeded(t, amount) == TokensFor(t, amount) + (IF t \in Quoted THEN 1 ELSE 0)

CanSubscribe(t, amount) == Readable(t) /\ 0 < TokensFor(t, amount)

CanRedeem(t, n) ==
  /\ Readable(t)
  /\ t \in Quoted => 0 < UsdcFor(t, n)
  /\ UsdcFor(t, n) <= liquidity[t]

\* getReserveValueUsdc, and whether it can be read.
ReserveValue == IF rwaAdapter THEN UsdcFor(reserveToken, held[reserveToken]) ELSE 0
NavReadable == rwaAdapter /\ held[reserveToken] > 0 => Readable(reserveToken)

\* All that is not the reserve or worth something by it.
VaultKept == UNCHANGED <<wallet, share, approved, collectedFees, perpAllocated, queue,
                         policy, account, wired>>

-----------------------------------------------------------------------------
(* The owner.                                                              *)

allocateToRWA(amount) ==
  LET t == reserveToken IN
  /\ rwaAdapter
  /\ 0 < amount /\ amount <= Idle
  /\ CanSubscribe(t, amount)
  /\ usdc' = usdc - amount
  /\ held' = [held EXCEPT ![t] = @ + TokensFor(t, amount)]
  /\ liquidity' = [liquidity EXCEPT ![t] = @ + amount]
  /\ UNCHANGED <<rwaAdapter, reserveToken, price, stale>> /\ VaultKept
  /\ mark' = ReserveValue'

withdrawFromRWA(amount) ==
  LET t         == reserveToken
      spent     == TokensNeeded(t, amount)
      delivered == UsdcFor(t, spent)
  IN
  /\ rwaAdapter
  /\ 0 < amount
  /\ spent <= held[t]
  /\ CanRedeem(t, spent)
  /\ amount <= delivered
  /\ usdc' = usdc + delivered
  /\ held' = [held EXCEPT ![t] = @ - spent]
  /\ liquidity' = [liquidity EXCEPT ![t] = @ - delivered]
  /\ UNCHANGED <<rwaAdapter, reserveToken, price, stale>> /\ VaultKept
  /\ mark' = ReserveValue'

\* Mutation: the balance is read when the token is switched already.
LeavingSwitched(token) == token

\* The token that a rotation redeems.
Leaving(token) == reserveToken

\* Redeem all there is, switch, and subscribe what came out.
rotateReserveToken(token) ==
  LET old   == Leaving(token)
      freed == UsdcFor(old, held[old])
  IN
  /\ rwaAdapter
  /\ token # reserveToken
  /\ held[old] > 0 => CanRedeem(old, held[old])
  /\ reserveToken' = token
  /\ freed > 0 => CanSubscribe(token, freed)
  /\ held' = [[held EXCEPT ![old] = 0] EXCEPT ![token] = @ + TokensFor(token, freed)]
  /\ liquidity' = [[liquidity EXCEPT ![old] = @ - freed] EXCEPT ![token] = @ + freed]
  /\ UNCHANGED <<rwaAdapter, price, stale, usdc>> /\ VaultKept
  /\ mark' = ReserveValue'

\* The tokens stay with the adapter, whether the vault knows it or not.
setRWAAdapter(flag) ==
  /\ rwaAdapter' = flag
  /\ UNCHANGED <<reserveToken, held, liquidity, price, stale, usdc>> /\ VaultKept
  /\ mark' = ReserveValue'

-----------------------------------------------------------------------------
(* The oracle and the issuers.                                             *)

PriceSubmitted(t, p) ==
  /\ price' = [price EXCEPT ![t] = p]
  /\ stale' = stale \ {t}
  /\ UNCHANGED <<rwaAdapter, reserveToken, held, liquidity, usdc>> /\ VaultKept
  /\ mark' = ReserveValue'

PriceLapses(t) ==
  /\ stale' = stale \cup {t}
  /\ UNCHANGED <<rwaAdapter, reserveToken, held, liquidity, price>>
  /\ UNCHANGED vars

\* Yield of mUSD is paid in balance.
Rebase ==
  /\ 0 < held["MUSD"] /\ held["MUSD"] < MaxHeld
  /\ held' = [held EXCEPT !["MUSD"] = @ + 1]
  /\ UNCHANGED <<rwaAdapter, reserveToken, liquidity, price, stale, usdc>> /\ VaultKept
  /\ mark' = ReserveValue'

ReserveStep ==
  \/ \E amount \in ReserveAmount : allocateToRWA(amount)
  \/ \E amount \in ReserveAmount : withdrawFromRWA(amount)
  \/ \E token \in ReserveToken : rotateReserveToken(token)
  \/ \E flag \in BOOLEAN : setRWAAdapter(flag)
  \/ \E t \in Quoted, p \in TokenPrice : PriceSubmitted(t, p)
  \/ \E t \in Quoted : PriceLapses(t)
  \/ Rebase

\* The vault's own operations; deposits and redemptions read NAV.
ReserveNext ==
  \/ ReserveStep
  \/ ((UserStep /\ NavReadable) \/ GiftStep \/ KeeperStep \/ CollectFees) /\ UNCHANGED reserve

ReserveSpec ==
  /\ Init /\ \E funds \in Nat : ReserveInit(funds)
  /\ [][ReserveNext]_rwaVars

-----------------------------------------------------------------------------
(* Properties.                                                             *)

\* At standing prices no call of the reserve makes NAV, and each loses at most
\* one unit of it: whatever was allocated, withdrawn or rotated before, through
\* price moves, yield and reverts, no token that was bought is left uncounted.
\* Where the vault owes fees that are not in its balance, USDC that comes out of
\* the reserve pays for them first, which NAV shows.
ReserveCall ==
  /\ rwaAdapter /\ UNCHANGED <<rwaAdapter, price, wallet, collectedFees>>
  /\ usdc' # usdc \/ reserveToken' # reserveToken
ReserveKeepsWorth ==
  [][ReserveCall /\ FeesInHand => PricingNav' \in (PricingNav - 1)..PricingNav]_rwaVars
=============================================================================
