----------------------- MODULE SegregatedLedgerProofs -----------------------
(***************************************************************************)
(* A segregated ledger always holds what is free for its clients.          *)
(***************************************************************************)
EXTENDS SegregatedLedger, SumLemmas

LedgerInv == LedgerTypeOK /\ Covered

\* The empty ledger holds what is free: nothing.
LEMMA LedgerInit == IsFiniteSet(Client) /\ Init => LedgerInv
<1> SUFFICES ASSUME IsFiniteSet(Client), Init PROVE LedgerInv
  OBVIOUS
<1>1. LedgerTypeOK
  BY DEF Init, LedgerTypeOK
<1>2. \A c \in Client : free[c] = 0
  BY DEF Init
<1>3. SumFunctionOnSet(free, Client) = 0
  BY <1>2, SumZero
<1> QED
  BY <1>1, <1>3 DEF LedgerInv, Covered, Init, LedgerTypeOK

\* A step that changes one entry moves the sum by as much as the entry.
LEMMA OneEntry ==
  ASSUME IsFiniteSet(Client), LedgerTypeOK, NEW c \in Client, OnlyChanges(c),
         free'[c] \in Nat
  PROVE  /\ free' \in [Client -> Nat]
         /\ SumFunctionOnSet(free, Client) \in Int
         /\ SumFunctionOnSet(free', Client)
              = SumFunctionOnSet(free, Client) + free'[c] - free[c]
<1>1. free \in [Client -> Nat] /\ free' \in [Client -> Nat]
  BY DEF LedgerTypeOK, OnlyChanges
<1>2. \A d \in Client \ {c} : free'[d] = free[d]
  BY <1>1 DEF OnlyChanges
<1>3. \A d \in Client : free[d] \in Int /\ free'[d] \in Int
  BY <1>1
<1> QED
  BY <1>1, <1>2, <1>3, SumChange, SumType

\* Every step keeps the purse at or above the sum of the entries.
LEMMA LedgerStep == IsFiniteSet(Client) /\ LedgerInv /\ [Next]_ledgerVars => LedgerInv'
<1> SUFFICES ASSUME IsFiniteSet(Client), LedgerInv, [Next]_ledgerVars PROVE LedgerInv'
  OBVIOUS
<1> USE DEF LedgerInv
<1>1. SumFunctionOnSet(free, Client) \in Int
  BY SumType DEF LedgerTypeOK
<1>2. ASSUME NEW c \in Client, Transact(c) PROVE LedgerInv'
  BY <1>1, <1>2, OneEntry DEF Transact, LedgerTypeOK, Covered
<1>3. ASSUME NEW c \in Client, WriteOff(c) PROVE LedgerInv'
  BY <1>1, <1>3, OneEntry DEF WriteOff, LedgerTypeOK, Covered
<1>4. ASSUME Windfall PROVE LedgerInv'
  BY <1>1, <1>4 DEF Windfall, LedgerTypeOK, Covered
<1>5. ASSUME UNCHANGED ledgerVars PROVE LedgerInv'
  BY <1>5 DEF ledgerVars, LedgerTypeOK, Covered
<1> QED
  BY <1>2, <1>3, <1>4, <1>5 DEF Next

\* Whatever clients do, and whatever is written off, all of them can be paid.
THEOREM LedgerCovered ==
  ASSUME IsFiniteSet(Client)
  PROVE  Spec => []LedgerInv
<1>1. Init => LedgerInv
  BY LedgerInit
<1>2. LedgerInv /\ [Next]_ledgerVars => LedgerInv'
  BY LedgerStep
<1> QED
  BY <1>1, <1>2, PTL DEF Spec
=============================================================================
