------------------------------- MODULE Keeper -------------------------------
(***************************************************************************)
(* services/keeper/src/index.ts over the StateRelays of all chains: a      *)
(* timer starts epochs, an epoch reads every chain one RPC call at a time, *)
(* computes one update and sends it to every relay.  Each call is a step,  *)
(* so calls of one epoch interleave with users, with blocks and with other *)
(* epochs: setInterval does not wait for the last one.                     *)
(*                                                                         *)
(* Beside the process: the baskets of each chain with their USDC, the PnL  *)
(* of hub baskets, RPC endpoints that fail and recover, and transactions   *)
(* that wait, land in nonce order, revert or get lost.  A chain's clock    *)
(* agrees with the keeper's.  Left out: perpAllocated, which               *)
(* computeGlobalNav ignores, and receipts, which later epochs do not await.*)
(***************************************************************************)
EXTENDS StateRelay, SequencesExt

CONSTANTS
  Slot,       \* bound of the model: epochs at work at the same time
  Hub,        \* chains with role "hub" and a VaultAccounting
  Relayed,    \* chains with a StateRelay in their deployment file
  Contexts,   \* lists of chains that buildChainContexts may come up with
  Home,       \* the chain of each vault
  Wallet,     \* the account of PRIVATE_KEY
  Interval,   \* EPOCH_INTERVAL_MS, in seconds
  RunOnce,    \* KEEPER_ONCE
  MinWeight,  \* minDepositWeightBps of the baskets
  Amount,     \* USDC of a deposit or a withdrawal
  PnL,        \* what a hub basket's PnL may be
  MaxIdle,    \* bound of the model: USDC of a basket
  MaxPending, \* bound of the model: transactions waiting on a chain
  MaxTime,    \* bound of the model: the clock
  Recording   \* whether a run needs the history variables

ASSUME KeeperConstants ==
  /\ Hub \subseteq Chain /\ Relayed \subseteq Chain
  /\ \A list \in Contexts : list \in Seq(Chain) /\ list # <<>> /\ IsInjective(list)
  /\ IsFiniteSet(Vault) /\ Home \in [Vault -> Chain] /\ Wallet \in Account
  /\ Staleness \subseteq Nat /\ Interval \in Nat \ {0} /\ RunOnce \in BOOLEAN
  /\ MinWeight \in 0..BPS /\ Amount \subseteq Nat \ {0} /\ PnL \subseteq Int
  /\ MaxIdle \in Nat /\ MaxPending \in Nat /\ MaxTime \in Nat
  /\ Recording \in BOOLEAN

VARIABLES
  baskets,    \* getAllBaskets of each factory
  idle,       \* USDC of each basket
  pnl,        \* getVaultPnL, unrealised and realised, of each hub basket
  now,        \* seconds
  up,         \* chains whose RPC answers
  process,    \* "booting", "first" epoch, "looping" or "stopped"
  contexts,
  nextStart,  \* when the timer fires next
  epoch,      \* what each running epoch knows
  mempool,    \* the wallet's transactions on each chain, by nonce
  \* History, for the properties only:
  readFrom,   \* when the reading of each chain behind a relay's table began
  lastStamp,  \* the last timestamp an epoch took
  overlapped  \* an epoch began before the last was over, or in its second

market == <<baskets, idle, pnl>>
program == <<process, contexts, nextStart, epoch>>
network == <<now, up, mempool>>
history == <<readFrom, lastStamp, overlapped>>
vars == <<relay, market, program, network, history>>

Unread == [stage |-> "unread", vaults |-> <<>>, next |-> 1,
           idleUsdc |-> 0, hubPnL |-> 0, began |-> 0]

NoUpdate == [table |-> EmptyTable, vaults |-> {}, pnl |-> [v \in Vault |-> 0], ts |-> 0,
             signer |-> Wallet, readFrom |-> [c \in Chain |-> 0]]

NothingRead == [c \in Chain |-> Unread]

NoEpoch == [phase |-> "idle", reading |-> NothingRead, update |-> NoUpdate, unsent |-> {}]

\* Relays that were never written, and a process that has no epoch yet.
Fresh(processes) ==
  /\ RelayInit
  /\ now = 1 /\ up = Chain
  /\ process \in processes /\ contexts \in Contexts /\ nextStart = 1
  /\ epoch = [s \in Slot |-> NoEpoch]
  /\ mempool = [c \in Chain |-> <<>>]
  /\ readFrom = [c \in Chain |-> [d \in Chain |-> 0]]
  /\ lastStamp = 0 /\ overlapped = FALSE

Init ==
  /\ Fresh({"booting"})
  /\ baskets = [c \in Chain |-> <<>>]
  /\ idle = [v \in Vault |-> 0]
  /\ pnl = [v \in Vault |-> 0]

Recorded(time) == IF Recording THEN time ELSE 0

Context == ToSet(contexts)
IsIdle(s) == epoch[s].phase = "idle"

-----------------------------------------------------------------------------
(* An epoch reads.                                                         *)

\* main runs the first epoch at once; then the timer starts one per interval,
\* whether or not the last one is over.
StartEpoch(s) ==
  /\ IsIdle(s) /\ now >= nextStart
  /\ \/ process = "booting" /\ process' = "first"
     \/ process = "looping" /\ UNCHANGED process
  /\ epoch' = [epoch EXCEPT ![s] = [NoEpoch EXCEPT !.phase = "reading"]]
  /\ nextStart' = now + Interval
  /\ overlapped' = (Recording /\ (overlapped \/ now <= lastStamp \/ \E t \in Slot : ~IsIdle(t)))
  /\ UNCHANGED <<relay, market, contexts, network, readFrom, lastStamp>>

\* One answer to readChain: r is what it knows then.
Learn(s, c, r) ==
  /\ epoch' = [epoch EXCEPT ![s].reading[c] = r]
  /\ UNCHANGED <<relay, market, process, contexts, nextStart, network, history>>

Reading(s, c, stage) ==
  /\ epoch[s].phase = "reading" /\ c \in Context /\ c \in up
  /\ epoch[s].reading[c].stage = stage

ListBaskets(s, c) ==
  /\ Reading(s, c, "unread")
  /\ Learn(s, c, [stage |-> IF baskets[c] = <<>> THEN "done" ELSE "balances",
                   vaults |-> baskets[c], next |-> 1, idleUsdc |-> 0, hubPnL |-> 0,
                   began |-> Recorded(now)])

\* The loop over the vaults goes on, or the next stage begins.
Advance(r, stage) ==
  IF r.next < Len(r.vaults) THEN [r EXCEPT !.next = @ + 1]
                            ELSE [r EXCEPT !.next = 1, !.stage = stage]

ReadBalance(s, c) ==
  /\ Reading(s, c, "balances")
  /\ LET r == epoch[s].reading[c]
     IN  Learn(s, c, Advance([r EXCEPT !.idleUsdc = @ + idle[r.vaults[r.next]]],
                             IF c \in Hub THEN "pnl" ELSE "done"))

ReadPnL(s, c) ==
  /\ Reading(s, c, "pnl")
  /\ LET r == epoch[s].reading[c]
     IN  Learn(s, c, Advance([r EXCEPT !.hubPnL = @ + pnl[r.vaults[r.next]]], "done"))

\* A call fails, Promise.all rejects and the epoch is over; if it was the
\* first, so is the process.
AbortEpoch(s) ==
  /\ epoch[s].phase = "reading"
  /\ \E c \in Context \ up : epoch[s].reading[c].stage # "done"
  /\ epoch' = [epoch EXCEPT ![s] = NoEpoch]
  /\ process' = IF process = "first" THEN "stopped" ELSE process
  /\ UNCHANGED <<relay, market, contexts, nextStart, network, history>>

-----------------------------------------------------------------------------
(* An epoch computes its update and sends it.                              *)

IdleRead(reading) == [i \in DOMAIN contexts |-> reading[contexts[i]].idleUsdc]
IsHub == [i \in DOMAIN contexts |-> contexts[i] \in Hub]

\* The PnL of the first hub in the list.
HubPnLTotal(reading) ==
  LET hubs == {i \in DOMAIN contexts : IsHub[i]}
  IN  IF hubs = {} THEN 0
      ELSE reading[contexts[CHOOSE i \in hubs : \A j \in hubs : i <= j]].hubPnL

\* Every vault is posted the adjustment of its chain.
ListedIn(reading) == UNION {ToSet(reading[c].vaults) : c \in Context}

AdjustmentOf(reading) ==
  LET adjustment == computeGlobalNav(IdleRead(reading), IsHub, HubPnLTotal(reading))
      place(v) == CHOOSE i \in DOMAIN contexts : v \in ToSet(reading[contexts[i]].vaults)
  IN  [v \in Vault |-> IF v \in ListedIn(reading) THEN adjustment[place(v)] ELSE 0]

\* What an epoch would read now.
PresentReading ==
  [c \in Chain |-> [Unread EXCEPT
     !.vaults = baskets[c],
     !.idleUsdc = Total([i \in DOMAIN baskets[c] |-> idle[baskets[c][i]]]),
     !.hubPnL = IF c \in Hub THEN Total([i \in DOMAIN baskets[c] |-> pnl[baskets[c][i]]])
                ELSE 0]]

\* Mutation: the amounts are read anew.
AmountsReread(reading) == IdleRead(PresentReading)

\* The amounts are found by chain selector, which comes to the same order.
AmountsOf(reading) == IdleRead(reading)

UpdateFrom(reading) ==
  [table |-> [chains |-> contexts,
              weights |-> computeRoutingWeights(IdleRead(reading)),
              amounts |-> AmountsOf(reading)],
   vaults |-> ListedIn(reading), pnl |-> AdjustmentOf(reading), ts |-> now, signer |-> Wallet,
   readFrom |-> [c \in Chain |-> reading[c].began]]

\* Mutation: chains that do not answer count as empty.
AnswersRead(s) == \A c \in Context \cap up : epoch[s].reading[c].stage = "done"

AllRead(s) == \A c \in Context : epoch[s].reading[c].stage = "done"

\* The timestamp is taken when all chains have been read.
ComputeUpdate(s) ==
  /\ epoch[s].phase = "reading"
  /\ AllRead(s)
  /\ epoch' = [epoch EXCEPT ![s] =
       IF Context \cap Relayed = {} THEN NoEpoch
       ELSE [phase |-> "writing", reading |-> NothingRead,
             update |-> UpdateFrom(epoch[s].reading), unsent |-> Context \cap Relayed]]
  /\ lastStamp' = Recorded(now)
  /\ UNCHANGED <<relay, market, process, contexts, nextStart, network, readFrom, overlapped>>

\* writeStateUpdate for c is off the epoch's hands.
Written(s, c) ==
  LET left == epoch[s].unsent \ {c}
  IN  epoch' = [epoch EXCEPT ![s] =
        IF left = {} THEN NoEpoch ELSE [@ EXCEPT !.unsent = left]]

\* The estimate of the gas runs updateState first.
SendUpdate(s, c) ==
  /\ c \in epoch[s].unsent /\ c \in up
  /\ InTurn(c, epoch[s].update) /\ WellFormed(epoch[s].update)
  /\ Len(mempool[c]) < MaxPending
  /\ mempool' = [mempool EXCEPT ![c] = Append(@, epoch[s].update)]
  /\ Written(s, c)
  /\ UNCHANGED <<relay, market, process, contexts, nextStart, now, up, history>>

\* The RPC is down, updateState would revert, or another transaction of the
\* wallet got the nonce: caught and logged.
FailToSend(s, c) ==
  /\ c \in epoch[s].unsent
  /\ \/ c \notin up
     \/ ~InTurn(c, epoch[s].update) \/ ~WellFormed(epoch[s].update)
     \/ mempool[c] # <<>>
  /\ Written(s, c)
  /\ UNCHANGED <<relay, market, process, contexts, nextStart, network, history>>

\* main waits for the receipts of the first epoch, then sets the timer or,
\* with KEEPER_ONCE, exits.
FinishFirst ==
  /\ process = "first"
  /\ \A s \in Slot : IsIdle(s)
  /\ \A c \in Chain : mempool[c] = <<>>
  /\ process' = IF RunOnce THEN "stopped" ELSE "looping"
  /\ nextStart' = now + Interval
  /\ UNCHANGED <<relay, market, contexts, epoch, network, history>>

\* Mutation: the old process goes on.
RestartBeside ==
  /\ process' = "booting" /\ contexts' \in Contexts
  /\ nextStart' = now
  /\ UNCHANGED <<relay, market, epoch, network, history>>

\* A new process knows nothing of the last one's epochs.
Restart ==
  /\ process' = "booting" /\ contexts' \in Contexts
  /\ nextStart' = now
  /\ epoch' = [s \in Slot |-> NoEpoch]
  /\ UNCHANGED <<relay, market, network, history>>

-----------------------------------------------------------------------------
(* The chains.                                                             *)

MinedUpdate(c) == Head(mempool[c])

Mine(c) ==
  /\ mempool[c] # <<>>
  /\ mempool' = [mempool EXCEPT ![c] = Tail(@)]
  /\ UNCHANGED <<market, program, now, up, lastStamp, overlapped>>

LandUpdate(c) ==
  /\ Mine(c)
  /\ updateState(c, MinedUpdate(c))
  /\ readFrom' = [readFrom EXCEPT ![c] = MinedUpdate(c).readFrom]

\* A newer update or a change of keeper came first.
RevertUpdate(c) ==
  /\ Mine(c)
  /\ ~ (InTurn(c, MinedUpdate(c)) /\ WellFormed(MinedUpdate(c)))
  /\ UNCHANGED <<relay, readFrom>>

\* A transaction nobody mines; the first epoch waits for it for ever.
LoseUpdate(c) ==
  /\ mempool[c] # <<>>
  /\ mempool' = [mempool EXCEPT ![c] = Tail(@)]
  /\ process' = IF process = "first" THEN "stopped" ELSE process
  /\ UNCHANGED <<relay, market, contexts, nextStart, epoch, now, up, history>>

\* BasketVault.deposit asks the relay for the weight of its chain.
Deposit(v, amount) ==
  /\ v \in ToSet(baskets[Home[v]])
  /\ localWeight[Home[v]] >= MinWeight
  /\ idle[v] + amount <= MaxIdle
  /\ idle' = [idle EXCEPT ![v] = @ + amount]
  /\ UNCHANGED <<relay, baskets, pnl, program, network, history>>

\* Redemptions and allocations to the perp module.
Withdraw(v, amount) ==
  /\ amount <= idle[v]
  /\ idle' = [idle EXCEPT ![v] = @ - amount]
  /\ UNCHANGED <<relay, baskets, pnl, program, network, history>>

CreateBasket(v) ==
  /\ v \notin ToSet(baskets[Home[v]])
  /\ baskets' = [baskets EXCEPT ![Home[v]] = Append(@, v)]
  /\ UNCHANGED <<relay, idle, pnl, program, network, history>>

MovePnL(v, value) ==
  /\ Home[v] \in Hub /\ v \in ToSet(baskets[Home[v]]) /\ value # pnl[v]
  /\ pnl' = [pnl EXCEPT ![v] = value]
  /\ UNCHANGED <<relay, baskets, idle, program, network, history>>

Outage(c) ==
  /\ c \in up /\ up' = up \ {c}
  /\ UNCHANGED <<relay, market, program, now, mempool, history>>

Recover(c) ==
  /\ c \notin up /\ up' = up \cup {c}
  /\ UNCHANGED <<relay, market, program, now, mempool, history>>

Tick ==
  /\ now < MaxTime /\ now' = now + 1
  /\ UNCHANGED <<relay, market, program, up, mempool, history>>

RelayOwner(c) ==
  /\ \/ \E a \in Account \ {keeper[c]} : setKeeper(c, a)
     \/ \E seconds \in Staleness \ {maxStaleness[c]} : setMaxStaleness(c, seconds)
  /\ UNCHANGED <<market, program, network, history>>

-----------------------------------------------------------------------------
ReadStep(s, c) == ListBaskets(s, c) \/ ReadBalance(s, c) \/ ReadPnL(s, c)

EpochStep ==
  \/ \E s \in Slot : StartEpoch(s) \/ AbortEpoch(s) \/ ComputeUpdate(s)
  \/ \E s \in Slot, c \in Chain : ReadStep(s, c) \/ SendUpdate(s, c) \/ FailToSend(s, c)
  \/ FinishFirst

MineStep == \E c \in Chain : LandUpdate(c) \/ RevertUpdate(c)

\* Users, traders and whoever creates baskets.
MarketStep ==
  \/ \E v \in Vault : CreateBasket(v)
  \/ \E v \in Vault, amount \in Amount : Deposit(v, amount) \/ Withdraw(v, amount)
  \/ \E v \in Vault, value \in PnL : MovePnL(v, value)

FaultStep ==
  \/ \E c \in Chain : Outage(c) \/ LoseUpdate(c)
  \/ Restart

Next ==
  \/ EpochStep \/ MineStep \/ MarketStep \/ FaultStep \/ Tick
  \/ \E c \in Chain : Recover(c) \/ RelayOwner(c)

Spec == Init /\ [][Next]_vars

-----------------------------------------------------------------------------
(* Properties.                                                             *)

Tables == [chains : Seq(Chain), weights : Seq(0..BPS), amounts : Seq(Nat)]

Updates == [table : Tables, vaults : SUBSET Vault, pnl : [Vault -> Int],
            ts : Nat, signer : {Wallet}, readFrom : [Chain -> Nat]]

Readings == [stage : {"unread", "balances", "pnl", "done"}, vaults : Seq(Vault),
             next : Nat \ {0}, idleUsdc : Nat, hubPnL : Int, began : Nat]

Epochs == [phase : {"idle", "reading", "writing"}, reading : [Chain -> Readings],
           update : Updates, unsent : SUBSET (Context \cap Relayed)]

RelayTypeOK ==
  /\ keeper \in [Chain -> Account] /\ maxStaleness \in [Chain -> Staleness]
  /\ lastUpdateTime \in [Chain -> Nat]
  /\ table \in [Chain -> Tables]
  /\ localWeight \in [Chain -> 0..BPS]
  /\ globalPnLAdjustment \in [Chain -> [Vault -> Int]]
  /\ pnlUpdateTime \in [Chain -> [Vault -> Nat]]

MarketTypeOK ==
  /\ baskets \in [Chain -> Seq(Vault)] /\ \A c \in Chain : IsInjective(baskets[c])
  /\ idle \in [Vault -> Nat] /\ pnl \in [Vault -> Int]

ProgramTypeOK ==
  /\ process \in {"booting", "first", "looping", "stopped"}
  /\ contexts \in Contexts /\ nextStart \in Nat /\ epoch \in [Slot -> Epochs]

NetworkTypeOK ==
  /\ now \in Nat /\ up \in SUBSET Chain /\ mempool \in [Chain -> Seq(Updates)]

HistoryTypeOK ==
  /\ readFrom \in [Chain -> [Chain -> Nat]]
  /\ lastStamp \in Nat /\ overlapped \in BOOLEAN

\* Every variable has its type: weights are basis points, also the last one,
\* which is computed by subtraction.
TypeOK == RelayTypeOK /\ MarketTypeOK /\ ProgramTypeOK /\ NetworkTypeOK /\ HistoryTypeOK

\* No relay refuses what the keeper sends for what it says: the weights add up
\* to all basis points whatever was read (computeRoutingWeights against
\* _validateWeights).  Only time and keeper can be wrong.
OnlyStaleReverts ==
  /\ \A c \in Chain : \A i \in DOMAIN mempool[c] : WellFormed(mempool[c][i])
  /\ \A s \in Slot : epoch[s].phase = "writing" => WellFormed(epoch[s].update)

\* What the PnLs of hub baskets may add up to, each read at a time of its own.
HubTotals == {Total(p) : p \in [{v \in Vault : Home[v] \in Hub} -> PnL \cup {0}]}

\* The vaults of chain d that the last update of c's relay listed.
Listed(c, d) == {v \in Vault : Home[v] = d /\ pnlUpdateTime[c][v] = lastUpdateTime[c]}

\* What a relay holds comes from one reading: its weights are those of its
\* amounts, the cached weight is its own, and there is one PnL of the hub whose
\* parts are the adjustments of the vaults it lists.  updateState replaces all
\* of it at once, and one epoch's reading is never mixed with another's.
OneReading ==
  \A c \in Chain : lastUpdateTime[c] # 0 =>
    LET t == table[c]
        hubs == [i \in DOMAIN t.chains |-> t.chains[i] \in Hub]
    IN  /\ t.weights = computeRoutingWeights(t.amounts)
        /\ localWeight[c] = WeightOf(c, t)
        /\ \E total \in HubTotals :
             \A i \in DOMAIN t.chains : \A v \in Listed(c, t.chains[i]) :
               globalPnLAdjustment[c][v] = computeGlobalNav(t.amounts, hubs, total)[i]

\* As long as epochs do not overlap, a relay never goes back: each chain of a
\* new table was read later than it was for the old one, whatever waits, gets
\* lost, reverts, cannot be read or is sent by a new process.
ForwardUnlessOverlapped ==
  [][\A c \in Chain : lastUpdateTime'[c] # lastUpdateTime[c] /\ ~overlapped =>
       \A d \in ToSet(table'[c].chains) :
         readFrom'[c][d] # 0 /\ readFrom[c][d] <= readFrom'[c][d]]_vars

\* As long as epochs do not overlap, relays with the same time agree on
\* everything, so that any of them can be asked.
SameTimeSameTable ==
  \A c, d \in Chain :
    ~overlapped /\ lastUpdateTime[c] = lastUpdateTime[d] /\ lastUpdateTime[c] # 0 =>
      /\ table[c] = table[d]
      /\ \A v \in Vault : pnlUpdateTime[c][v] = lastUpdateTime[c] =>
           /\ pnlUpdateTime[d][v] = lastUpdateTime[d]
           /\ globalPnLAdjustment[c][v] = globalPnLAdjustment[d][v]

-----------------------------------------------------------------------------
(* What relays and baskets should come to.                                 *)

\* The relay of c says what the chains are like at present.
Current(c) ==
  LET u == UpdateFrom(PresentReading)
  IN  /\ table[c] = u.table
      /\ localWeight[c] = WeightOf(c, u.table)
      /\ \A v \in u.vaults : globalPnLAdjustment[c][v] = u.pnl[v]

\* When the chains come to rest and their RPCs answer, every relay that the
\* keeper may write to ends up with what the chains are like.
Settles ==
  <>[](process \in {"booting", "first", "looping"} =>
         \A c \in Context \cap Relayed : keeper[c] = Wallet => Current(c))

\* docs/CROSS_CHAIN_COORDINATION.md, "Spoke chain unavailable": a spoke that
\* cannot be read any more gets weight 0 on the others.
UnreachableExcluded ==
  \A c \in Chain \ Hub :
    <>[](c \notin up) =>
      <>[](\A d \in (Context \cap Relayed) \ {c} :
             (d \in up /\ keeper[d] = Wallet) => WeightOf(c, table[d]) = 0)

\* _pricingNav of a basket that allocates nothing: its USDC, the PnL on a hub,
\* and what the relay adds.
PricingNav(v) ==
  idle[v] + (IF Home[v] \in Hub THEN pnl[v] ELSE 0) + LiveAdjustment(Home[v], v, now)

\* BasketVault.sol: "globalAdj is the zero-sum complement".  With all relays
\* up to date, the baskets together are priced at the USDC and PnL there is,
\* to within one unit per basket for rounding.
PnLCountedOnce ==
  LET created == UNION {ToSet(baskets[c]) : c \in Chain}
      priced == [v \in created |-> PricingNav(v)]
      worth == [v \in created |-> idle[v] + pnl[v]]
      excess == Total(priced) - Total(worth)
  IN  (\A c \in Chain : Current(c) /\ lastUpdateTime[c] # 0)
        => excess \in -Cardinality(created)..Cardinality(created)
=============================================================================
