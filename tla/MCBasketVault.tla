--------------------------- MODULE MCBasketVault ---------------------------
(***************************************************************************)
(* A vault in five setups, each an instance of its module with the         *)
(* amounts that its question needs:                                        *)
(*   hub     one shareholder, wired and charging fees: the vault, its      *)
(*           keeper and owner, and the market;                             *)
(*   queue   two shareholders, the market stands still: what queued        *)
(*           redemptions do to each other;                                 *)
(*   policy  every operation and setting, from the empty state;            *)
(*   fills   a spoke, whose queue is filled from other chains;             *)
(*   rwa     a vault with a reserve in tokens, one shareholder.            *)
(***************************************************************************)
EXTENDS RedemptionFills, RWAReserve, TLC

CONSTANTS u1, u2, Setups,
  Funds        \* USDC of the issuers of reserve tokens at the start

VARIABLE setup

MCvars == <<fillVars, reserve, setup>>

MCMark == {-10, 0, 10}

Hub ==
  INSTANCE BasketVault WITH Deposits <- {40}, ShareAmount <- {38}, PerpAmount <- {20},
    Collateral <- {20}, Payback <- {0, 40}, Weight <- {10000}, MaxUsdc <- 60
Queue ==
  INSTANCE BasketVault WITH Deposits <- {40}, ShareAmount <- {13, 25, 38}, PerpAmount <- {30},
    Collateral <- {20}, Payback <- {0, 20}, Mark <- {0}, Weight <- {10000}, MaxUsdc <- 50
Policy ==
  INSTANCE BasketVault WITH Deposits <- {20}, ShareAmount <- {19}, PerpAmount <- {10},
    Collateral <- {10}, Payback <- {0}, Mark <- {0, 10}, Weight <- {0, 5000}, MaxUsdc <- 20

Spoke ==
  INSTANCE RedemptionFills WITH Deposits <- {40}, ShareAmount <- {13, 19, 38}, PerpAmount <- {},
    Collateral <- {}, Payback <- {}, Mark <- {0, 10}, Weight <- {10000}, MaxUsdc <- 60

Saver ==
  INSTANCE RWAReserve WITH Deposits <- {10}, ShareAmount <- {4, 10}, PerpAmount <- {},
    Collateral <- {}, Payback <- {}, Mark <- {0}, Weight <- {10000}, MaxUsdc <- 20

Running == setup # "policy"
Fee == IF setup \in {"policy", "rwa"} THEN 0 ELSE 500

MCInit ==
  /\ setup \in Setups
  /\ wallet = [u \in User |-> CASE setup = "hub"    -> IF u = u1 THEN 40 ELSE 0
                                [] setup = "queue"  -> 40
                                [] setup = "policy" -> IF u = u1 THEN 20 ELSE 0
                                [] setup = "fills"  -> IF u = u1 THEN 40 ELSE 0
                                [] setup = "rwa"    -> IF u = u1 THEN 10 ELSE 0]
  /\ usdc = 0
  /\ share = [h \in Holder |-> 0]
  /\ approved = [u \in User |-> Running]
  /\ collectedFees = 0 /\ perpAllocated = 0
  /\ pendingRedemptions = [id \in Id |-> NoRequest]
  /\ pendingRedemptionCount = 0 /\ pendingRedemptionsUsdc = 0
  /\ depositFeeBps = Fee /\ redeemFeeBps = Fee
  /\ maxPerpAllocation = 0 /\ minReserveBps = 0 /\ minDepositWeightBps = 0
  /\ NewAccount /\ wired = (setup \in {"hub", "queue"}) /\ mark = 0
  /\ keeper = "service" /\ trustedSender = FALSE /\ message = <<>>
  /\ ReserveInit(Funds)

\* The second user stands by, but for the queue.
Alone == /\ pendingRedemptionCount' <= (IF setup = "fills" THEN 2 ELSE 1)
         /\ share'[u2] = 0 /\ wallet'[u2] = 0 /\ approved'[u2] = approved[u2]

\* All shares of the spoke were bought before the first of them is redeemed.
OneDeposit == wallet'[u1] < wallet[u1] => pendingRedemptionCount = 0 /\ TotalSupply = 0

VaultStep ==
  \/ setup = "hub" /\ (Hub!UserStep \/ Hub!KeeperStep \/ Hub!OwnerStep \/ Hub!MarketStep)
  \/ setup = "queue" /\ (Queue!UserStep \/ Queue!KeeperStep \/ Queue!OwnerStep)
  \/ setup = "policy" /\ Policy!Next
  \/ setup = "fills" /\ (Spoke!UserStep \/ Spoke!MarkMoves \/ Spoke!CollectFees) /\ OneDeposit

\* USDY rises once, mETH falls once, and mUSD pays yield on a full allocation.
Drift ==
  /\ price'["USDY"] \in {price["USDY"], 5} /\ price'["METH"] \in {price["METH"], 3}
  /\ Saver!Rebase => held["MUSD"] = 12

SaverStep ==
  \/ Saver!ReserveStep
  \/ ((Saver!UserStep /\ NavReadable) \/ Saver!KeeperStep \/ Saver!CollectFees) /\ UNCHANGED reserve

MCNext ==
  /\ UNCHANGED setup
  /\ \/ VaultStep /\ UNCHANGED <<fills, reserve>>
     \/ setup = "fills" /\ Spoke!FillStep /\ UNCHANGED reserve
     \/ setup = "rwa" /\ SaverStep /\ Drift /\ UNCHANGED fills
  /\ setup = "queue" \/ Alone

MCSpec ==
  /\ MCInit /\ [][MCNext]_MCvars
  /\ \A n \in 1..MaxFills : WF_MCvars(UNCHANGED <<setup, reserve>> /\ setup = "fills" /\ Receive(n))
=============================================================================
