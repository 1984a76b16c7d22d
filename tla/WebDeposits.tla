---------------------------- MODULE WebDeposits ----------------------------
(***************************************************************************)
(* The deposit dialog of the web app: useParallelChainDeposits, which      *)
(* walks the chains of a split one after the other, the dialog's phases,   *)
(* and the records of the transaction dock.                                *)
(*                                                                         *)
(* A step is what JavaScript runs between two awaits.  A run is one call   *)
(* of execute; it outlives the dialog's interest in it when something it   *)
(* awaits does not answer.  Wallets, relayers and chains answer when and   *)
(* how they like.  Left out: hashes, messages, gas estimates, and records  *)
(* being dismissed.                                                        *)
(***************************************************************************)
EXTENDS Naturals, Sequences, FiniteSets, SequencesExt, FiniteSetsExt

CONSTANTS
  Chain,
  Order,        \* the chains as the routing table lists them
  Weight,       \* routing weights, in basis points
  Amount,       \* USDC amounts a user may enter
  MinSplit,     \* MIN_SPLIT_AMOUNT_USDC
  Allowance,    \* what a vault may take at the start
  MaxRuns       \* bound of the model: deposits confirmed in the dialog

Run == 1..MaxRuns
None == 0

ASSUME WebConstants ==
  /\ IsFiniteSet(Chain) /\ Order \in Seq(Chain) /\ IsInjective(Order)
  /\ Weight \subseteq Nat /\ Amount \subseteq Nat \ {0} /\ Allowance \subseteq Nat
  /\ MinSplit \in Nat \ {0} /\ MaxRuns \in Nat \ {0}

VARIABLES
  sponsored,   \* useSponsored: Privy pays, or the user's own wallet sends
  runs,        \* the runs so far
  tx,          \* what the wallet was asked to send: records of SendAsked
  allowance,   \* USDC.allowance(owner, vault) on each chain
  cached,      \* what useAllowancesPerChain last read of it
  status,      \* chainStatuses: a row for each chain of the current split
  isExecuting, completedCount, hasErrors,
  phase,       \* of the dialog
  parent,      \* parentTxIdRef: the run whose record is being mirrored
  record,      \* the dock: one record per run
  mounted,     \* the deposit panel is on the page
  stale        \* effects have not run since the hook's state changed

hook == <<status, isExecuting, completedCount, hasErrors>>
dialog == <<phase, parent, record, mounted>>
money == <<tx, allowance, cached>>
vars == <<sponsored, runs, hook, dialog, money, stale>>

NoRun == [pc |-> "none", at |-> 0, split |-> <<>>, need |-> {}, aborted |-> FALSE,
          timedOut |-> FALSE, deaf |-> FALSE]
NoRows == [c \in {} |-> "idle"]
NoRecord == [status |-> "none", rows |-> NoRows]

Init ==
  /\ sponsored \in BOOLEAN
  /\ runs = <<>>
  /\ tx = {}
  /\ allowance \in [Chain -> Allowance]
  /\ cached = allowance
  /\ status = NoRows
  /\ isExecuting = FALSE /\ completedCount = 0 /\ hasErrors = FALSE
  /\ phase = "preview" /\ parent = None
  /\ record = [r \in Run |-> NoRecord]
  /\ mounted = TRUE /\ stale = FALSE

-----------------------------------------------------------------------------
(* How an amount is split.                                                 *)

\* Those with a weight, in the order of the table.
ActiveChains(w) ==
  LET upTo[i \in 0..Len(Order)] ==
        IF i = 0 THEN <<>>
        ELSE IF w[Order[i]] > 0 THEN Append(upTo[i - 1], Order[i]) ELSE upTo[i - 1]
  IN upTo[Len(Order)]

\* The first of the chains with the highest weight.
TopChain(w) ==
  LET e == ActiveChains(w)
  IN e[CHOOSE i \in DOMAIN e : /\ \A j \in DOMAIN e : w[e[j]] <= w[e[i]]
                               /\ \A j \in 1..(i - 1) : w[e[j]] < w[e[i]]]

\* Mutation: the last chain gets its share and not what is left.
DepositSplitsByShare(total, w) ==
  LET e     == ActiveChains(w)
      sum   == SumFunctionOnSet([i \in DOMAIN e |-> w[e[i]]], DOMAIN e)
  IN IF e = <<>> THEN <<>>
     ELSE IF total < MinSplit * Len(e)
     THEN <<[chain |-> TopChain(w), amount |-> total]>>
     ELSE [i \in DOMAIN e |->
             [chain |-> e[i],
              amount |-> MinSplit + ((total - MinSplit * Len(e)) * w[e[i]]) \div sum]]

\* computeDepositSplits: every chain gets the minimum and, of what the chains
\* before it left of the rest, its share; the last chain gets all of that.
DepositSplits(total, w) ==
  LET e     == ActiveChains(w)
      sum   == SumFunctionOnSet([i \in DOMAIN e |-> w[e[i]]], DOMAIN e)
      left[i \in 0..Len(e)] ==
        IF i = 0 THEN total - MinSplit * Len(e)
        ELSE left[i - 1] - (IF i = Len(e) THEN left[i - 1] ELSE (left[i - 1] * w[e[i]]) \div sum)
  IN IF e = <<>> THEN <<>>
     ELSE IF total < MinSplit * Len(e)
     THEN <<[chain |-> TopChain(w), amount |-> total]>>
     ELSE [i \in DOMAIN e |->
             [chain |-> e[i], amount |-> MinSplit + left[i - 1] - left[i]]]

\* computeNeedsApprovalPerChain
NeedsApproval(split) ==
  {split[i].chain : i \in {j \in DOMAIN split : cached[split[j].chain] < split[j].amount}}

-----------------------------------------------------------------------------
(* The hook's state.                                                       *)

Terminal == {"success", "error"}
Finished(rows) == {c \in DOMAIN rows : rows[c] \in Terminal}
\* Mutation: every row must have failed.
FailedEvery(rows) ==
  IF \A c \in DOMAIN rows : rows[c] = "error" THEN DOMAIN rows ELSE {}

Failed(rows) == {c \in DOMAIN rows : rows[c] = "error"}

\* updateChainStatus: the rows are those of the present split, whichever run
\* calls it.
SetRows(rows) ==
  /\ status' = rows
  /\ completedCount' = Cardinality(Finished(rows))
  /\ hasErrors' = (Failed(rows) # {})
  /\ stale' = TRUE

UpdateRow(c, s) ==
  SetRows([d \in DOMAIN status |-> IF d = c THEN s ELSE status[d]])

NoUpdate == UNCHANGED <<status, completedCount, hasErrors, stale>>

\* Nothing runs between two steps of the same synchronous stretch.
AtRest == \A r \in DOMAIN runs : runs[r].pc # "next"

-----------------------------------------------------------------------------
(* One run, from await to await.                                           *)

Latest == Len(runs)

Row(r) == runs[r].split[runs[r].at]
Here(r) == Row(r).chain

SendAsked(r, k) ==
  [run |-> r, kind |-> k, chain |-> Here(r), amount |-> Row(r).amount,
   state |-> "asked", given |-> FALSE]

Goto(r, label) == runs' = [runs EXCEPT ![r].pc = label]

\* Mutation: the loop's step is taken twice.
NextRowSkips(r) == runs' = [runs EXCEPT ![r].pc = "next", ![r].at = @ + 2]

NextRow(r) == runs' = [runs EXCEPT ![r].pc = "next", ![r].at = @ + 1]

\* The wallet is asked; the listener for an abort is added, and hears nothing
\* when the abort was before.
Ask(r, k) ==
  /\ runs' = [runs EXCEPT ![r].pc = k, ![r].deaf = runs[r].aborted]
  /\ tx' = tx \cup {SendAsked(r, k)}
  /\ UpdateRow(Here(r), IF k = "approve" THEN "approving" ELSE "depositing")

FirstSend(r) == Ask(r, IF Here(r) \in runs[r].need THEN "approve" ELSE "deposit")

\* Mutation: the loop does not look at the abort.
NoMoreRowsLeft(r) == runs[r].at > Len(runs[r].split)

NoMoreRows(r) == runs[r].aborted \/ runs[r].at > Len(runs[r].split)

\* The finally block of execute.
FinishRun(r) ==
  /\ runs[r].pc = "next" /\ NoMoreRows(r)
  /\ Goto(r, "done")
  /\ isExecuting' = IF runs[r].timedOut THEN isExecuting ELSE FALSE
  /\ stale' = TRUE
  /\ UNCHANGED <<sponsored, status, completedCount, hasErrors, dialog, money>>

\* executeChainDeposit up to its first await.
StartRow(r) ==
  /\ runs[r].pc = "next" /\ ~ NoMoreRows(r)
  /\ IF sponsored THEN Goto(r, "resolve") /\ NoUpdate /\ UNCHANGED tx ELSE FirstSend(r)
  /\ UNCHANGED <<sponsored, isExecuting, dialog, allowance, cached>>

\* A chain without a vault, or no embedded wallet to sponsor.
RowFails(r) ==
  /\ runs[r].pc = "next" /\ ~ NoMoreRows(r)
  /\ NextRow(r) /\ UpdateRow(Here(r), "error")
  /\ UNCHANGED <<sponsored, isExecuting, dialog, money>>

\* getSenderAddress answers.  Nobody looks whether the run was aborted.
SenderResolved(r) ==
  /\ AtRest /\ runs[r].pc = "resolve"
  /\ FirstSend(r)
  /\ UNCHANGED <<sponsored, isExecuting, dialog, allowance, cached>>

\* The catch block: an aborted run reports nothing.
Caught(r) ==
  /\ NextRow(r)
  /\ IF runs[r].aborted THEN NoUpdate ELSE UpdateRow(Here(r), "error")

SenderFailed(r) ==
  /\ AtRest /\ runs[r].pc = "resolve"
  /\ Caught(r)
  /\ UNCHANGED <<sponsored, isExecuting, dialog, money>>

Waiting(r) == runs[r].pc \in {"approve", "deposit"}
Pending(r) == CHOOSE t \in tx : t.run = r /\ t.kind = runs[r].pc /\ t.chain = Here(r)

\* Mutation: the hash is enough for the user's own wallet, too.
AnsweredBySending(t) == t.state \in {"sent", "landed", "reverted"}

\* sendTx resolves: with the hash from Privy, with the receipt otherwise, of
\* which nobody reads the status.
Answered(t) ==
  t.state \in {"landed", "reverted"} \cup (IF sponsored THEN {"sent"} ELSE {})

ApprovalAnswered(r) ==
  /\ AtRest /\ runs[r].pc = "approve" /\ Answered(Pending(r))
  /\ IF runs[r].aborted
     THEN NextRow(r) /\ NoUpdate /\ UNCHANGED tx
     ELSE Ask(r, "deposit")
  /\ UNCHANGED <<sponsored, isExecuting, dialog, allowance, cached>>

\* The next read of the allowance follows at once or later: Refetch.
DepositAnswered(r) ==
  /\ AtRest /\ runs[r].pc = "deposit" /\ Answered(Pending(r))
  /\ NextRow(r)
  /\ UpdateRow(Here(r), "success")
  /\ UNCHANGED <<sponsored, isExecuting, dialog, money>>

\* The wallet or the relayer refuses.
SendFailed(r) ==
  /\ AtRest /\ Waiting(r) /\ Pending(r).state = "refused"
  /\ Caught(r)
  /\ UNCHANGED <<sponsored, isExecuting, dialog, money>>

\* What is given up on goes on without the run.
GivenUp(r) == (tx \ {Pending(r)}) \cup {[Pending(r) EXCEPT !.given = TRUE]}

\* CHAIN_TX_TIMEOUT_MS
SendTimeout(r) ==
  /\ AtRest /\ Waiting(r)
  /\ Caught(r)
  /\ tx' = GivenUp(r)
  /\ UNCHANGED <<sponsored, isExecuting, dialog, allowance, cached>>

\* What an abort does to a run: the guard rejects, unless it cannot hear.
Abort(r, late) ==
  LET heard == Waiting(r) /\ ~ runs[r].deaf
  IN /\ runs' = [runs EXCEPT ![r].aborted = TRUE, ![r].timedOut = @ \/ late,
                             ![r].pc = IF heard THEN "next" ELSE @,
                             ![r].at = IF heard THEN @ + 1 ELSE @]
     /\ tx' = IF heard THEN GivenUp(r) ELSE tx

Alive(r) == runs[r].pc \notin {"none", "done"}

\* Mutation: the timer does not count as an error.
ExecutionTimeoutQuiet(r) ==
  /\ AtRest /\ Alive(r) /\ ~ runs[r].timedOut
  /\ Abort(r, TRUE)
  /\ isExecuting' = FALSE
  /\ status' = [c \in DOMAIN status |->
                  IF status[c] \in Terminal THEN status[c] ELSE "error"]
  /\ stale' = TRUE
  /\ UNCHANGED <<sponsored, completedCount, hasErrors, dialog, allowance, cached>>

\* EXECUTION_TIMEOUT_MS; the count of finished rows is not brought up to date.
ExecutionTimeout(r) ==
  /\ AtRest /\ Alive(r) /\ ~ runs[r].timedOut
  /\ Abort(r, TRUE)
  /\ isExecuting' = FALSE /\ hasErrors' = TRUE
  /\ status' = [c \in DOMAIN status |->
                  IF status[c] \in Terminal THEN status[c] ELSE "error"]
  /\ stale' = TRUE
  /\ UNCHANGED <<sponsored, completedCount, dialog, allowance, cached>>

-----------------------------------------------------------------------------
(* Wallets and chains.                                                     *)

Becomes(t, s) == tx' = (tx \ {t}) \cup {[t EXCEPT !.state = s]}

Submit(t) ==
  /\ AtRest /\ t.state = "asked" /\ Becomes(t, "sent")
  /\ UNCHANGED <<sponsored, runs, hook, dialog, allowance, cached, stale>>

Refuse(t) ==
  /\ AtRest /\ t.state = "asked" /\ Becomes(t, "refused")
  /\ UNCHANGED <<sponsored, runs, hook, dialog, allowance, cached, stale>>

Land(t) ==
  /\ AtRest /\ t.state = "sent"
  /\ t.kind = "deposit" => t.amount <= allowance[t.chain]
  /\ Becomes(t, "landed")
  /\ allowance' = [allowance EXCEPT ![t.chain] =
                     IF t.kind = "approve" THEN t.amount ELSE @ - t.amount]
  /\ UNCHANGED <<sponsored, runs, hook, dialog, cached, stale>>

\* For want of allowance, or because the vault does not take the deposit.
Revert(t) ==
  /\ AtRest /\ t.state = "sent" /\ t.kind = "deposit"
  /\ Becomes(t, "reverted")
  /\ UNCHANGED <<sponsored, runs, hook, dialog, allowance, cached, stale>>

\* A read that fails counts as none.  Bound: only what a run may still use.
Refetch(c) ==
  /\ AtRest /\ Latest < MaxRuns
  /\ \E a \in {0, allowance[c]} : cached' = [cached EXCEPT ![c] = a]
  /\ UNCHANGED <<sponsored, runs, hook, dialog, tx, allowance, stale>>

-----------------------------------------------------------------------------
(* The dialog.                                                             *)

\* What a user does finds the effects of the last change done.
Settled == AtRest /\ ~ stale /\ mounted

ResetHook ==
  /\ status' = NoRows /\ isExecuting' = FALSE
  /\ completedCount' = 0 /\ hasErrors' = FALSE /\ stale' = TRUE

\* handleConfirm and the start of execute.
Confirm(split) ==
  LET r    == Latest + 1
      rows == [c \in {split[i].chain : i \in DOMAIN split} |-> "idle"]
      new  == [NoRun EXCEPT !.pc = "next", !.at = 1, !.split = split,
                            !.need = NeedsApproval(split)]
  IN
  /\ Settled /\ phase = "preview"
  /\ split # <<>> /\ r \in Run
  /\ runs' = Append([q \in DOMAIN runs |-> [runs[q] EXCEPT !.aborted = TRUE]], new)
  /\ status' = rows /\ isExecuting' = TRUE
  /\ completedCount' = 0 /\ hasErrors' = FALSE /\ stale' = TRUE
  /\ phase' = "executing" /\ parent' = r
  /\ record' = [record EXCEPT ![r] = [status |-> "signing", rows |-> rows]]
  /\ UNCHANGED <<sponsored, mounted, money>>

\* handleRetry and handleClose: the state is reset, what runs is aborted, and
\* the whole amount can be confirmed again.
BackToPreview ==
  /\ Settled /\ phase \in {"complete", "error"}
  /\ phase' = "preview"
  /\ ResetHook
  /\ IF Alive(Latest) THEN Abort(Latest, FALSE) ELSE UNCHANGED <<runs, tx>>
  /\ UNCHANGED <<sponsored, parent, record, mounted, allowance, cached>>

Retry == phase = "error" /\ BackToPreview

Close == BackToPreview

AllConfirmed == /\ DOMAIN status # {} /\ ~ hasErrors
                /\ completedCount = Cardinality(DOMAIN status)
SomeFailed == ~ isExecuting /\ hasErrors

\* Mutation: the dock's record is not let go of once it has settled.
MirrorKeeps ==
  IF parent = None \/ DOMAIN status = {} THEN UNCHANGED <<parent, record>>
  ELSE /\ record' = [record EXCEPT ![parent] =
             [status |-> IF AllConfirmed THEN "confirmed"
                         ELSE IF SomeFailed THEN "failed" ELSE @.status,
              rows |-> status]]
       /\ UNCHANGED parent

\* The effect that mirrors the hook into the dock.
Mirror ==
  IF parent = None \/ DOMAIN status = {} THEN UNCHANGED <<parent, record>>
  ELSE /\ record' = [record EXCEPT ![parent] =
             [status |-> IF AllConfirmed THEN "confirmed"
                         ELSE IF SomeFailed THEN "failed" ELSE @.status,
              rows |-> status]]
       /\ parent' = IF AllConfirmed \/ SomeFailed THEN None ELSE parent

\* The effect that moves the phase.
PhaseAfter ==
  IF isExecuting \/ DOMAIN status = {} THEN phase
  ELSE IF hasErrors THEN "error"
  ELSE IF completedCount = Cardinality(DOMAIN status) THEN "complete" ELSE phase

Effects ==
  /\ AtRest /\ stale /\ mounted
  /\ stale' = FALSE
  /\ Mirror
  /\ phase' = PhaseAfter
  /\ UNCHANGED <<sponsored, runs, hook, mounted, money>>

\* MODAL_SAFETY_TIMEOUT_MS, ten seconds after the run's own timer.
SafetyTimeout ==
  /\ AtRest /\ mounted /\ phase = "executing"
  /\ ~ Alive(Latest) \/ runs[Latest].timedOut
  /\ phase' = "error"
  /\ UNCHANGED <<sponsored, runs, hook, parent, record, mounted, money, stale>>

\* The user goes to another page: the run goes on, its effects do not.
Leave ==
  /\ AtRest /\ mounted
  /\ mounted' = FALSE
  /\ UNCHANGED <<sponsored, runs, hook, phase, parent, record, money, stale>>

-----------------------------------------------------------------------------
RunStep(r) ==
  \/ FinishRun(r) \/ StartRow(r) \/ RowFails(r)
  \/ ApprovalAnswered(r) \/ DepositAnswered(r) \/ SendFailed(r)

TimerStep(r) == SendTimeout(r) \/ ExecutionTimeout(r)
SenderStep(r) == SenderResolved(r) \/ SenderFailed(r)
WalletStep(t) == Submit(t) \/ Refuse(t) \/ Land(t) \/ Revert(t)

Splits ==
  {DepositSplits(a, w) : a \in Amount, w \in [Chain -> Weight]}
    \cup {<<[chain |-> c, amount |-> a]>> : c \in Chain, a \in Amount}

UserStep == (\E split \in Splits : Confirm(split)) \/ Retry \/ Close \/ Leave

Next ==
  \/ \E r \in DOMAIN runs : RunStep(r) \/ TimerStep(r) \/ SenderStep(r)
  \/ \E t \in tx : WalletStep(t)
  \/ \E c \in Chain : Refetch(c)
  \/ UserStep \/ Effects \/ SafetyTimeout

Spec == Init /\ [][Next]_vars

\* The event loop and its timers do not stop.  Nothing makes a wallet, a
\* relayer or a chain answer, nor a user press a button.
Fairness ==
  /\ \A r \in Run : WF_vars(r \in DOMAIN runs /\ RunStep(r))
                      /\ WF_vars(r \in DOMAIN runs /\ ExecutionTimeout(r))
  /\ WF_vars(Effects) /\ WF_vars(SafetyTimeout)

FairSpec == Spec /\ Fairness

-----------------------------------------------------------------------------
(* Properties.                                                             *)

Kinds == {"approve", "deposit"}
Sends == [run : Run, kind : Kinds, chain : Chain, amount : Nat, given : BOOLEAN,
          state : {"asked", "sent", "landed", "reverted", "refused"}]
RowStates == {"idle", "approving", "depositing"} \cup Terminal

TypeOK ==
  /\ sponsored \in BOOLEAN /\ isExecuting \in BOOLEAN /\ hasErrors \in BOOLEAN
  /\ mounted \in BOOLEAN /\ stale \in BOOLEAN
  /\ Latest \in 0..MaxRuns
  /\ \A r \in DOMAIN runs :
       /\ runs[r].pc \in {"next", "resolve", "done"} \cup Kinds
       /\ runs[r].at \in 1..(Len(runs[r].split) + 1)
       /\ runs[r].need \subseteq Chain
  /\ tx \subseteq Sends
  /\ allowance \in [Chain -> Nat] /\ cached \in [Chain -> Nat]
  /\ DOMAIN status \subseteq Chain /\ \A c \in DOMAIN status : status[c] \in RowStates
  /\ completedCount \in 0..Cardinality(Chain)
  /\ phase \in {"preview", "executing", "complete", "error"}
  /\ parent \in {None} \cup DOMAIN runs
  /\ \A r \in Run : record[r].status \in {"none", "signing", "confirmed", "failed"}

Total(split) == SumFunctionOnSet([i \in DOMAIN split |-> split[i].amount], DOMAIN split)

\* What is sent to the chains together is what the user entered, to the unit,
\* whatever the weights, and no chain of several gets less than the minimum
\* below which a deposit would round to no shares.
SplitsAddUp ==
  \A r \in DOMAIN runs :
    LET s == runs[r].split
    IN /\ Total(s) \in Amount
       /\ Len(s) > 1 => \A i \in DOMAIN s : MinSplit <= s[i].amount

\* What a user's own wallet was asked for and nobody has given up on is one
\* transaction at a time, over all the runs there have been.
Unanswered == {t \in tx : t.state \in {"asked", "sent"} /\ ~ t.given}
OneSendAtATime == ~ sponsored => Cardinality(Unanswered) <= 1

\* A deposit that was preceded by its approval finds the allowance it needs,
\* as long as nothing was given up on: approvals and deposits of one chain
\* never overtake each other.
ApprovedFirst ==
  ~ sponsored /\ (\A t \in tx : ~ t.given) =>
    \A t \in tx : /\ t.kind = "deposit" /\ t.state \in {"asked", "sent"}
                  /\ t.chain \in runs[t.run].need
                  => t.amount <= allowance[t.chain]

\* The dialog says complete only when a deposit went out to every chain.
WentOut(c) == \E t \in tx : /\ t.kind = "deposit" /\ t.chain = c
                            /\ t.state \in {"sent", "landed", "reverted"}
CompleteMeansSent == phase = "complete" => \A c \in DOMAIN status : WentOut(c)

\* A wallet gets one request at a time, an approval before its deposit, and all
\* of them before the dialog says complete.
SendsInOrder == OneSendAtATime /\ ApprovedFirst /\ CompleteMeansSent

\* A run that was aborted, by its timer or by the user, goes on with the chain
\* it is at, at most, and never starts another.
AbortStops ==
  [][\A r \in DOMAIN runs : runs[r].aborted =>
       /\ runs'[r].aborted
       /\ runs[r].pc = "next" => runs'[r].at = runs[r].at /\ runs'[r].pc \in {"next", "done"}
     ]_vars

\* A record of the dock that has settled stays as it is: what a run does after
\* its record was confirmed or failed reaches no record, not even a later one.
SettledIsFinal ==
  [][\A r \in Run : record[r].status \in {"confirmed", "failed"} => record'[r] = record[r]]_vars

\* What was given up on is over: it starts nothing and changes nothing settled.
GivenUpIsOver == AbortStops /\ SettledIsFinal

\* When the user's own wallet sends and the panel stays on the page, the dock
\* does not show a deposit as under way for ever, whatever wallets and chains
\* leave unanswered.
RecordSettles ==
  \A r \in Run : ~ sponsored /\ record[r].status = "signing"
                   ~> record[r].status \in {"confirmed", "failed"} \/ ~ mounted
=============================================================================
