-------------------------- MODULE RedemptionFills --------------------------
(***************************************************************************)
(* src/src/coordination/RedemptionReceiver.sol on a spoke: USDC from       *)
(* another chain arrives with the id of a queued redemption, goes to the   *)
(* vault and pays that redemption, all in one transaction.                 *)
(*                                                                         *)
(* CCIP (external) executes a message at any time after it was sent and    *)
(* keeps one whose execution reverts, with its USDC, to be executed again  *)
(* by whoever likes.  Nothing in the repository sends messages yet: any    *)
(* amount may come for any request, more than once.  The vault has one     *)
(* keeper, which is the receiver or the keeper service.                    *)
(***************************************************************************)
EXTENDS BasketVault, Sequences

CONSTANTS
  Bridged,       \* USDC amounts sent with a message
  MaxFills       \* bound of the model: messages ever sent

ASSUME FillConstants == Bridged \subseteq Nat /\ MaxFills \in Nat

VARIABLES
  keeper,            \* who may process redemptions
  trustedSender,     \* the sender of the messages is the trusted one
  message            \* what was sent, by number, and whether it was executed

fills == <<keeper, trustedSender, message>>
fillVars == <<vars, fills>>

FillInit == Init /\ keeper = "service" /\ trustedSender = FALSE /\ message = <<>>

-----------------------------------------------------------------------------

\* From another chain, for a redemption that was queued.
SendFill(id, amount) ==
  /\ Len(message) < MaxFills
  /\ id < pendingRedemptionCount
  /\ message' = Append(message, [id |-> id, usdc |-> amount, executed |-> FALSE])
  /\ UNCHANGED <<vars, keeper, trustedSender>>

\* Mutation: the redemption is processed before the USDC is the vault's.
FillFirst(id, amount) ==
  /\ pendingRedemptions[id].usdcOwed <= Idle
  /\ Fill(id, amount)

\* The USDC is transferred, then the redemption is processed.
TransferAndProcess(id, amount) == Fill(id, amount)

\* _ccipReceive.  Where it reverts nothing has changed and it may be tried again.
Receive(n) ==
  /\ n \in DOMAIN message /\ ~ message[n].executed
  /\ trustedSender
  /\ 0 < message[n].usdc
  /\ keeper = "receiver"
  /\ TransferAndProcess(message[n].id, message[n].usdc)
  /\ message' = [message EXCEPT ![n].executed = TRUE]
  /\ UNCHANGED <<keeper, trustedSender>>

\* The keeper service pays a redemption out of what the vault has.
ProcessByService ==
  /\ keeper = "service" /\ KeeperStep
  /\ UNCHANGED fills

setKeeper(who) ==
  /\ keeper' = who
  /\ UNCHANGED <<vars, trustedSender, message>>

setTrustedSender(trusted) ==
  /\ trustedSender' = trusted
  /\ UNCHANGED <<vars, keeper, message>>

FillStep ==
  \/ \E id \in Id, amount \in Bridged : SendFill(id, amount)
  \/ \E n \in 1..MaxFills : Receive(n)
  \/ ProcessByService
  \/ \E who \in {"service", "receiver"} : setKeeper(who)
  \/ \E trusted \in BOOLEAN : setTrustedSender(trusted)

FillNext ==
  \/ FillStep
  \/ (UserStep \/ GiftStep \/ OwnerStep \/ PolicyStep \/ MarketStep \/ OutsiderStep) /\ UNCHANGED fills

\* A message that can be executed is executed.
Executed == \A n \in 1..MaxFills : WF_fillVars(Receive(n))

FillSpec == FillInit /\ [][FillNext]_fillVars /\ Executed

-----------------------------------------------------------------------------
(* Properties.                                                             *)

\* A message that brings what its redemption is owed pays it, whatever users
\* deposit and redeem, other messages bring and the keeper pays in between:
\* unless the receiver is not, or no longer, in a position to, or the fees that
\* the vault owes are not in its balance.
Covers(n) == /\ n \in DOMAIN message /\ ~ message[n].executed
             /\ OpenRequest(message[n].id)
             /\ pendingRedemptions[message[n].id].usdcOwed <= message[n].usdc
             /\ 0 < message[n].usdc
FillsArrive ==
  \A n \in 1..MaxFills :
    Covers(n) ~> \/ n \in DOMAIN message /\ pendingRedemptions[message[n].id].completed
                 \/ keeper # "receiver" \/ ~ trustedSender \/ ~ FeesInHand
=============================================================================
