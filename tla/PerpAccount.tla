---------------------------- MODULE PerpAccount ----------------------------
(***************************************************************************)
(* One basket vault's account in VaultAccounting, as the vault sees it:    *)
(* capital paid in, profit realised, collateral at work.  Trades and other *)
(* vaults appear only through what a close pays back.  VaultAccounting     *)
(* implements this module once per vault, and BasketVault is built on it.  *)
(***************************************************************************)
EXTENDS Integers

VARIABLES
  deposited,  \* depositedCapital
  realised,   \* realisedPnL
  locked      \* collateralLocked

account == <<deposited, realised, locked>>

NewAccount == deposited = 0 /\ realised = 0 /\ locked = 0

FreeCapital == deposited + realised - locked

\* _availableCapital
AvailableCapital == IF FreeCapital > 0 THEN FreeCapital ELSE 0

PayIn(amount) ==
  /\ amount \in Nat \ {0}
  /\ deposited' = deposited + amount
  /\ UNCHANGED <<realised, locked>>

\* Principal goes first, then realised profit.
TakeOut(amount) ==
  /\ amount \in Nat /\ amount <= AvailableCapital
  /\ deposited' = IF amount > deposited THEN 0 ELSE deposited - amount
  /\ realised' = IF amount > deposited THEN realised - (amount - deposited) ELSE realised
  /\ UNCHANGED locked

\* A position is opened or enlarged.
Lock(collateral) ==
  /\ collateral \in Nat /\ collateral <= AvailableCapital
  /\ locked' = locked + collateral
  /\ UNCHANGED <<deposited, realised>>

\* A position is closed or reduced: atRisk comes off the books, back is what
\* GMX paid.
Settle(atRisk, back) ==
  /\ atRisk \in Nat /\ atRisk <= locked
  /\ back \in Nat
  /\ locked' = locked - atRisk
  /\ realised' = realised + back - atRisk
  /\ UNCHANGED deposited

\* Registered anew: the account starts from zero whatever was on it.
Reset == deposited' = 0 /\ realised' = 0 /\ locked' = 0

\* The amounts of a step are read off the values it leaves.
AccountNext ==
  \/ PayIn(deposited' - deposited)
  \/ TakeOut((deposited + realised) - (deposited' + realised'))
  \/ Lock(locked' - locked)
  \/ Settle(locked - locked', (realised' - locked') - (realised - locked))
  \/ Reset

AccountSpec == NewAccount /\ [][AccountNext]_account
=============================================================================
