------------------------------ MODULE MCKeeper ------------------------------
(***************************************************************************)
(* A hub and a spoke.  What the process does not do itself (users, faults, *)
(* owners) is rationed: change counts how often it may happen.             *)
(***************************************************************************)
EXTENDS Keeper, TLC

CONSTANTS hub, spoke, hubVault, hubTwin, spokeVault, MaxChanges

VARIABLE change

MCHome == [v \in Vault |-> IF v = spokeVault THEN spoke ELSE hub]
Both == {<<hub, spoke>>}
BothOrHub == {<<hub, spoke>>, <<hub>>}
MCPnL == {-31, 31}

Rationed(A) == change < MaxChanges /\ A /\ change' = change + 1
Free(A) == A /\ UNCHANGED change

\* Baskets hold USDC and are wired; the keeper starts, or runs and has not
\* managed to write yet.
Deployed ==
  /\ baskets = [c \in Chain |-> IF c = hub THEN <<hubVault>> ELSE <<spokeVault>>]
  /\ idle = [v \in Vault |-> IF v = hubVault THEN 1 ELSE 2]
  /\ pnl = [v \in Vault |-> IF v = hubVault THEN 31 ELSE 0]
  /\ keeper = [c \in Chain |-> Wallet] /\ maxStaleness = [c \in Chain |-> 1]
  /\ contexts = <<hub, spoke>>
  /\ Fresh({"booting", "looping"}) /\ change = 0

MCNext ==
  \/ Free(EpochStep \/ MineStep \/ Tick)
  \/ Rationed(MarketStep \/ FaultStep)
  \/ \E c \in Chain : Rationed(RelayOwner(c)) \/ Free(Recover(c))

MCSpec == Deployed /\ [][MCNext]_<<vars, change>>

-----------------------------------------------------------------------------
(* Without an end of time.  When the clock has reached MaxTime everything is *)
(* moved one second back instead, so that time is kept relative to the       *)
(* present.  Only the order of times matters to the program; times long past *)
(* meet at 1, and no update that is still under way is that old.             *)

Earlier(t) == IF t > 1 THEN t - 1 ELSE t
AllEarlier(f) == [x \in DOMAIN f |-> Earlier(f[x])]
UpdateEarlier(u) ==
  [u EXCEPT !.ts = Earlier(@)]

Slide ==
  /\ ~Recording
  /\ now = MaxTime
  /\ \A s \in Slot : epoch[s].phase = "writing" => epoch[s].update.ts > 2
  /\ \A c \in Chain : \A i \in DOMAIN mempool[c] : mempool[c][i].ts > 2
  /\ nextStart' = Earlier(nextStart)
  /\ lastUpdateTime' = AllEarlier(lastUpdateTime)
  /\ pnlUpdateTime' = [c \in Chain |-> AllEarlier(pnlUpdateTime[c])]
  /\ epoch' = [s \in Slot |-> [epoch[s] EXCEPT !.update = UpdateEarlier(@)]]
  /\ mempool' = [c \in Chain |-> [i \in DOMAIN mempool[c] |-> UpdateEarlier(mempool[c][i])]]
  /\ UNCHANGED <<history, settings, table, localWeight, globalPnLAdjustment, market, now, up,
                 process, contexts, change>>

EpochWork(s) ==
  \/ AbortEpoch(s) \/ ComputeUpdate(s)
  \/ \E c \in Chain : ReadStep(s, c) \/ SendUpdate(s, c) \/ FailToSend(s, c)

\* The event loop, the timer, miners and clocks do not stop.  Nothing makes an
\* RPC endpoint recover.
Fairness ==
  LET all == <<vars, change>>
  IN  /\ \A s \in Slot : WF_all(Free(EpochWork(s)))
      /\ WF_all(Free(\E s \in Slot : StartEpoch(s)))
      /\ WF_all(Free(FinishFirst))
      /\ \A c \in Chain : WF_all(Free(LandUpdate(c) \/ RevertUpdate(c)))
      /\ WF_all(Free(Tick) \/ Slide)

EndpointsRecover == \A c \in Chain : WF_<<vars, change>>(Free(Recover(c)))

Endless == Deployed /\ [][MCNext \/ Slide]_<<vars, change>> /\ Fairness
EndlessUp == Endless /\ EndpointsRecover
=============================================================================
