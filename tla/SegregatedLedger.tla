-------------------------- MODULE SegregatedLedger --------------------------
(***************************************************************************)
(* What VaultAccounting promises to the vaults that share it: one purse,   *)
(* held, and for each client the part of it that is free for that client.  *)
(* A step moves USDC on behalf of one client and changes that client's     *)
(* entry by exactly what moved, never below zero; or USDC arrives that     *)
(* nobody is credited with; or a client's entry is written off.            *)
(*                                                                         *)
(* The actions constrain the new values and do not choose them from a set, *)
(* so TLC checks the steps of an implementation against them.              *)
(***************************************************************************)
EXTENDS Integers, Functions

CONSTANT Client

VARIABLES
  held,  \* USDC of the ledger
  free   \* free[c], what client c may take out or put at risk

ledgerVars == <<held, free>>

Init ==
  /\ held = 0
  /\ free = [c \in Client |-> 0]

OnlyChanges(c) == free' = [free EXCEPT ![c] = free'[c]]

\* A deposit, a withdrawal, collateral that leaves or a payout that returns.
Transact(c) ==
  /\ OnlyChanges(c)
  /\ free'[c] \in Nat /\ held' \in Nat
  /\ free'[c] - free[c] = held' - held

WriteOff(c) ==
  /\ OnlyChanges(c)
  /\ free'[c] \in Nat /\ free'[c] <= free[c]
  /\ held' = held

Windfall ==
  /\ held' \in Nat /\ held <= held'
  /\ UNCHANGED free

Next == Windfall \/ \E c \in Client : Transact(c) \/ WriteOff(c)

Spec == Init /\ [][Next]_ledgerVars

LedgerTypeOK == held \in Nat /\ free \in [Client -> Nat]

\* Every client can be paid what is free for it, all of them at once.
Covered == SumFunctionOnSet(free, Client) <= held
=============================================================================
