# IndexFlow: a TLA+ verification project

IndexFlow issues shares of basket vaults against USDC. A vault's owner may send
part of the USDC to a perp module, which trades all vaults through one account
on a GMX-style exchange, and a keeper spreads the result over the chains the
baskets live on. Around them an indexer follows the events, a worker pushes
notifications, a web app splits deposits over the chains, and scheduled agents
manage vaults through a language model. This directory
models the contracts that move the money and the settings, and the services and
the part of the web app that have several things going on at once; it checks
them with TLC on small instances and proves all their safety properties with TLAPS
for every value of the constants.

    tlasany M.tla                         parse a module
    tlc -config X.cfg M                   check one run (PROJECT.json lists them)
    tlapm VaultAccountingProofs.tla       check the proofs of a module

Paths below are relative to the repository (`src/` is its contract directory,
`apps/`, `services/`, `docs/` and `script/` are beside it).

## 1. Inventory

| component | state it keeps | operations | talks to |
|---|---|---|---|
| `vault/BasketVault` | USDC balance, shares, collected fees, `perpAllocated`, pending redemptions and their total, policy | deposit, redeem (paid or queued), process a queued redemption, allocate and withdraw perp capital, top up, collect fees, RWA moves, settings | VaultAccounting (capital, PnL), StateRelay (weight, adjustment), RWA adapter |
| `perp/VaultAccounting` | per vault: deposited capital, realised PnL, open interest, locked collateral, position count; tracked positions, open-key list, asset map, limits, pause, seeding caps | register, deregister, map, deposit, withdraw, open, close, seed and unseed, settings | GMX vault (as its only trader account) |
| `gmx/core/Vault` | pool, reserves, guaranteed USD, global short sizes, fee reserves, positions, USDG | buy and sell USDG, direct deposit, increase, decrease, liquidate, withdraw fees | price feed, fees |
| `coordination/StateRelay` | routing weights, per-vault adjustment and time, last update time | updateState, reads | written by the keeper, read by BasketVault |
| `services/keeper` | the list of chains, and what each running epoch has read | epoch: read all chains, weigh, compute adjustments, write all relays; `setInterval`, so epochs overlap | every chain's factory, vaults, VaultAccounting, relay |
| `coordination/RedemptionReceiver` | trusted senders | CCIP receive: pass on USDC and process the queued redemption | CCIP, BasketVault |
| `coordination/OracleConfigQuorum` | votes with time, proposals, peers, threshold | propose, receive a vote, apply, force, peers, settings | CCIP, OracleAdapter |
| `perp/OracleAdapter` | asset settings and their XOR hash, list, canonical mode; prices | configure, deactivate, local feed, submit and read prices | quorum, keeper, BasketVault |
| `perp/PriceSync` | token mappings | sync | OracleAdapter, GMX price feed |
| `perp/FundingRateManager`, `perp/PricingEngine` | factors per asset | rate and impact computations | GMX vault |
| `rwa/*` | reserve token and balance | deposit, withdraw, rotate, value | issuers, OracleAdapter |
| factory, wiring, deploy scripts | | fixed sequences of setters | all |
| web app: deposit dialog (`useParallelChainDeposits`, `deposit-confirm-modal`, `TransactionStatusProvider`) | rows of the split, phase, records of the dock, allowances last read | confirm, run, give up, retry, close, leave | wallets and relayers of several chains, BasketVault |
| `apps/envio`: indexer | rows of baskets, assets, memberships, positions, activities, snapshots, pause flags, routing tables | one handler per event, reads of the chain's head | events of the contracts; read by the web app and the push worker |
| `apps/push-worker` | subscriptions, preferences, cursors, dispatch log | subscribe, set preferences, dispatch (realtime, digest) | indexer's rows, browsers' push services |
| `scripts/agent-runner.mjs`: the agents' runner | per agent the memory (`state.json`): vault, deployment, training job | run: invalidate memory, train, verify the vault, rebalance, turns of a language model's calls, save | language model, MCP servers (vault manager, training), operator |
| leaderboard worker, MCP servers, prompts, rest of the web app | | views, texts, callers of the contracts | |

What is hard here. Contract calls are atomic, so on one chain the question is
never two threads but *sequences*: many callers, in any order, over state that
several contracts each keep a copy of (the GMX leg against the tracked
positions of several vaults, `perpAllocated` against `depositedCapital`,
`pendingRedemptionsUsdc` against the queue, running totals against positions).
GMX liquidates without telling anyone. Floors at zero (`_availableCapital`,
`_idleUsdcExcludingFees`, the queue total, the short size) hide a lost update
where a checked subtraction would revert. Between chains there are messages that
come late, fail and are executed again, overlapping epochs and clocks. Off chain
every `await` is a place where something else goes on: a run of deposits outlives
the timer that gave it up, an indexer's handler reads a chain that is ahead of the
event it handles, two dispatches write one cursor, a process ends between a push
and the log of it, a run of an agent fails between a vault's creation and the note
of it, and a language model proposes what it likes. `PROJECT.json` lists each hazard at its line with the
properties that would catch it.

What makes each component correct:

- **GMX vault**: its USDC covers pool, fees and short collateral; the running
  totals are the sums over the positions.
- **VaultAccounting**: one vault's losses never spend another's USDC; the books
  are the sums over tracked positions; the key list is exact.
- **BasketVault**: queue total and locked shares are exact; nobody is paid more
  or less than quoted; no call of one user takes value from the others.
- **StateRelay and keeper**: weights sum to 10000; what a relay holds comes from
  one reading of the chains; a relay never goes back to older data; relays with
  the same time agree; once chains rest and answer, every relay is up to date.
- **RWA reserve**: a call of the reserve keeps NAV, rounding aside; every token that
  was bought counts.
- **Redemption fills**: each request is paid at most once and, with enough
  bridged USDC and repeated execution, eventually.
- **Oracle quorum and adapter**: settings are applied only with enough live, equal
  votes; chains that get every vote agree; the settings hash is that of the active
  assets.
- **Web deposits**: the split adds up; a wallet is asked for one thing at a time;
  complete means sent everywhere; what was given up starts nothing new and
  touches no later deposit; the dock's record settles.
- **Indexer**: counts and balances are what the events say, lists of assets what
  the vault holds, and with everything handled nothing shown is older than the
  last event that touched it.
- **Push worker**: an event is told once, a row that came in its turn is not
  passed, and every such row is worked off.
- **Agents' runner**: what an agent's perp tools write goes to its own vault; what its
  file lists as a write is executed on the hub only, by runs that execute writes; it has
  one vault per deployment and one training at a time; the caps of an agent that
  lists the opening of positions hold over all turns of a run; and every call it was
  shown to make has an answer. Where the reserve tools write, and what becomes of calls
  that change something and are not listed, is left to the model's prompt: see
  "What the code does not keep".

## 2. Modules

| module | what it is |
|---|---|
| `GmxVault` | the money side of the GMX vault for one collateral token |
| `VaultAccounting` | `src/perp/VaultAccounting.sol` on top of `GmxVault` (EXTENDS) |
| `SegregatedLedger` | abstract: clients with free capital in one pot; implemented by `VaultAccounting` |
| `PerpAccount` | abstract: one vault's account; implemented by `VaultAccounting` for every vault, and the environment of `BasketVault` |
| `BasketVault` | `src/vault/BasketVault.sol` on top of `PerpAccount` (EXTENDS) |
| `RedemptionFills` | `src/coordination/RedemptionReceiver.sol` and CCIP on top of `BasketVault` (EXTENDS) |
| `RWAReserve` | `src/rwa/*` and the vault's calls of it, on top of `BasketVault` (EXTENDS) |
| `OracleAdapter` | the settings of `src/perp/OracleAdapter.sol`, one adapter per chain |
| `OracleConfigQuorum` | `src/coordination/OracleConfigQuorum.sol`, one per chain, with CCIP, on top of `OracleAdapter` (EXTENDS) |
| `RoutingMath` | `computeRoutingWeights` and `computeGlobalNav` |
| `StateRelay` | `src/coordination/StateRelay.sol`, one per chain, on top of `RoutingMath` (EXTENDS) |
| `Keeper` | the keeper's process and epochs with the chains around it, on top of `StateRelay` (EXTENDS) |
| `WebDeposits` | the deposit dialog of the web app, its runs and its records |
| `Indexer` | the handlers of `apps/envio/src/EventHandlers.ts` over one vault and the routing tables |
| `PushWorker` | subscriptions and dispatches of `apps/push-worker` |
| `AgentRunner` | the runs of `scripts/agent-runner.mjs`, their memory and what they create |
| `SumLemmas` | sums over functions: what changes when one or two values do; least numbers and functions by recursion |
| `VaultAccountingProofs` (also of `GmxVault` and `OracleConfigQuorum`), `SegregatedLedgerProofs`, `BasketVaultProofs` (also of `RedemptionFills` and `RWAReserve`), `KeeperProofs`, `JobsProofs` (of `PushWorker` and `AgentRunner`), `WebDepositsProofs`, `IndexerProofs` | theorems |
| `MC*` | initial states and step sets for TLC |

How they compose: `VaultAccounting` uses the actions of `GmxVault` for its own
account (`VA`) and conjoins its bookkeeping; other accounts trade beside it.
`BasketVault` does not see positions. What VaultAccounting can do to it is
`PerpAccount`, and the property `AccountsSpec` shows that `VaultAccounting`
does nothing else to any of its vaults, so the two halves fit. `Keeper` reads
baskets through their USDC and PnL only, and `BasketVault` sees the relay as a
part of its free `mark`; the two meet in `Deposit` and `PricingNav` of `Keeper`,
which are the guard of `deposit` and the `_pricingNav` of a vault that allocates
nothing. `RedemptionFills` adds messages, the receiver and the address of the
vault's keeper to the whole of `BasketVault`, `RWAReserve` tokens and their prices. The indexer sees of the contracts
what events and reads show, and the push worker sees of the indexer its rows: its
`Index` makes the ids of rows and users as `createActivity` and `userId` do. The
runner's calls are the contract calls of owners, which the modules of the contracts
allow at any time; `AgentRunner` is about which of them are held to a vault, a network
or a count, and by what. `MCJobs` checks it beside the push worker, with which it shares nothing but
being started by a schedule.

A revert is the absence of a step: every `require` is a guard. Owner, keeper and
wirer roles appear as separate groups of actions (`OwnerStep`, `KeeperStep`,
`RegistryStep`, ...) and calls that anybody may make are open to anybody.

### GmxVault

Variables carry the contract's names, for USDC only: `poolAmount`,
`reservedAmount`, `guaranteedUsd`, `globalShortSize`, `feeReserve`, `position`.
`balance` is `usdc.balanceOf(vault)`. Every token transfer in is part of the
call that accounts for it. Prices appear only through what they cause: an
increase is charged a `Fee`, a decrease or a liquidation finds a `Move` (profit
or loss) and a `Fee`, both free within their sets and limited by the checks of
`_validatePosition` and `validateLiquidation` (`Healthy`, `UnderWater`). One
USDC stands for one USD, so `usdToToken` conversions do not round. Swaps between
tokens, average prices, funding accumulation and VaultAdmin settings are left
out. The USDC is the only collateral, as VaultAccounting uses it.

### VaultAccounting

One variable per storage item; `_vaultStates` is split by field and
`_positions` is `tracking`, of which size, collateral and existence are kept.
`OpenPosition` and `ClosePosition` contain the GMX call, and `ClosePosition`
reads `returned` off the change of the wallet, as the code does with
`balBefore` and `balAfter`. `UnseedPool` redeems the USDG that was sent in
before, `usdgIn`, as `sellUSDG` does. The average price, the entry funding rate
and the view `getVaultPnL` are left out.

### BasketVault

`share` holds the ERC-20 balances (the vault's own under `Self`), `wallet` the
USDC of users. `redeem` is two actions: `RedeemNow`, and `RedeemAndQueue` for a
partial fill. `Quote` is computed before the fee is added, the idle USDC after,
as in the code. `mark` stands for unrealised PnL plus the relay's adjustment and
moves freely in `MarkMoves`. `Fill` is `processPendingRedemption` for a caller that
brings USDC of its own or none: the keeper's `ProcessPendingRedemption`, and the
receiver's in `RedemptionFills`. The asset list and the addresses
of oracle and relay are left out.

### RWAReserve

A call of `allocateToRWA`, `withdrawFromRWA` or `rotateReserveToken` is one step
from the vault through the adapter to the issuer: `TokensFor` and `UsdcFor` are the
two conversions, which the adapter, `MethAdapter` and the instant manager compute
with the same formula, `CanSubscribe` and `CanRedeem` their reverts. mUSD is a token
with a price of one that is never stale. What the current token is worth is part of
`mark`, which every step here brings up to date; deposits and redemptions read NAV
and need `NavReadable`. `ReserveKeepsWorth` is about calls made while the fees owed are in
the vault (`FeesInHand`): NAV counts idle USDC less those fees and never below zero, so
with fees that `fees_backed` finds unbacked, a withdrawal may bring USDC in that NAV does
not show. USDC of the issuers is finite, so a withdrawal may revert
for want of it after prices rose. Left out: a second adapter, `rwaTargetBps` and its
agents, and a vault that has capital with VaultAccounting at the same time, where
the reserve also counts towards `minReserveBps`.

### RedemptionFills

A message is an id, an amount and whether it was executed. `_ccipReceive` is one
step, since CCIP reverts the whole message: `TransferAndProcess` moves the USDC
into the vault and fills the request. A message whose execution reverts stays, with
its USDC, and may be executed again at any time, which is what CCIP's manual
execution offers. `keeper` is the one address that may process redemptions and is
either the receiver or the keeper service; the owner sets it and the trusted
sender. Nothing in the repository sends these messages yet, so any amount may come
for any request that is queued, more than once.

### OracleAdapter and OracleConfigQuorum

An adapter is one per chain. What `configureAsset` stores beside the feed is one
member of `Params`. `configHash` is an XOR of one hash per active asset; since
those do not collide it is modelled as the set of terms, where a term that is put
in twice is gone (`Xor`), so an update that forgets to take a term out or puts one
in twice shows. In canonical mode only the chain's quorum may configure.

`votes` holds per chain, asset and source both the vote and the proposal it hashes,
which the code writes in the same places. `Vote` is what both `proposeConfig` and
`_ccipReceive` come to: store the vote, count those of peers and the chain itself
that agree and are younger than the TTL (`Matching`), apply when there are enough.
CCIP keeps the order of a lane; a message whose execution reverts is put aside and
may be executed by hand later. `proposed`, `backed`, `fresh` and `troubled` observe
what was proposed, what a quorum gave, whose votes are newer than the last change
by hand, and whether a message failed; no action reads them. The assumption that
owners add a peer by the selector of its own chain and never their own is part of
the model (`addPeer`); what happens otherwise is under "What the code does not
keep".

### WebDeposits

A step is what JavaScript runs between two awaits. A run is one call of `execute`:
`StartRow`, then `SenderResolved` or `SenderFailed` for an account the relayer has
to look up, then for each send an answer, a failure, or a timer or abort that gives
the send up; the transaction asked for lives on in `tx` and may be submitted, land,
revert or be refused at any later time. Rows and flags are the hook's state and
belong to no run, so a run that was given up may find the rows of a later deposit
there (`UpdateRow`). Effects run after the state has changed (`stale`); `Effects`
is all of them in their order. `Mirror` copies rows into the record of the dock,
`PhaseAfter` is the dialog's phase. `SplitsAddUp` is about `DepositSplits`, the
arithmetic of `computeDepositSplits`; the run's amount never falls short of
the chains' minimum, in which case all of it goes to one chain (`TopChain`);
`NothingLostInSplits` covers that.

### Indexer

`blocks` is the chain, one event per block with what the contracts held after it;
`done` is how far the indexer is. A handler gets an event and reads the head
(`Chain`), which may be later. `Handle` is one step per event except that
`syncBasketAssets` awaits a read per asset (`ReadAsset`), between which the chain
goes on. A read may fail, and the code then leaves rows as they were. Rows that
are read from the chain are modelled by the number of the block they show.
`Resync` is a new deployment, which starts from nothing. Two relays report one
routing table per epoch in any order.

### PushWorker

A dispatch (`job`) goes from call to call: fetch the rows after the cursor, the
subscriptions, then for each signal and wallet the preferences, the log, the push
and the log's new entry, and at the end the cursor. Each is a step; it may `Die`
at each. Rows carry their chain and time and arrive chain by chain in order, but
between chains in any. `paused` and `reserve` stand for the signals derived from a
vault's state, which are told once or with a cooldown.

### AgentRunner

`memory` is the `state.json` of each agent, `vaults` and `trainings` are what exists
on the chains and in the training service, and `run` is the one run there is: the
workflow's concurrency group (`.github/workflows/vault-agent.yml:72`) lets no two
run at once. A run goes through `poll`, `train`, `verify`, `rebalance`, then turns
of `ask`, `review`, `confirm`, `push` and `execute` or `stop`, and `save`; each is
what the runner does between two awaits that matter. It may `Fail` at any of them:
the language model, a server or the process does, and nothing is saved then.

The language model proposes any batch of up to `MaxCalls` calls, naming any vault.
A call is one of ten kinds: `look` is `get_all_vaults`, `zero` an allocation of
nothing, `reserve` any of the RWA adapter's writes, `train` and `watch` are the
training service's, the others create, allocate, open and close (`close` is
`withdraw_from_perp` and `set_vault_assets` too, whose vault is pinned the same way).
Every agent is offered all of them, as the runner offers every tool of the servers
(`scripts/agent-runner.mjs:4066`); an agent without the RWA server is a run that
proposes no `reserve`.

Three lists decide what holds a call back, and they are not the same:

- What its own file lists, `run.writeTools`, chosen at the start from `WriteLists`.
  `isWrite` asks that list and nothing else, as `classifyToolCalls` does
  (`scripts/agent-runner-confirmation.mjs:13`). The hub guard and the skip of dry and
  unattended runs (`Skipped`), the review with its caps, the operator's confirmation and
  the risk officer look at listed calls only; any other call, an unlisted open too, is
  executed as a read is.
- The pinned tools, `VAULT_ARG_WRITE_TOOLS`: `allocate`, `close` and `open`, whether
  listed or not, go to the vault of the run when it has one (`applyVaultArgPin`). A
  `reserve` call goes to whichever vault it names. `wire_asset`, which names no vault,
  is left out.
- Opens count by their name (`:4723`), listed or not.

`wrote` is the last write of the turn: where it went, and whether it was pinned and
listed. The automatic closes of `enforceAutoRebalance` are pinned and ask no list.
`ReviewBatch` has the checks of
`validatePolicyWriteBatch` that the run itself decides, the caps, the sides and the
short penalty; whether a long is of an eligible asset is left open. The operator
may approve, reject or have a batch revised, the risk officer may veto. An answer
may be lost, say nothing, or say that a call failed which did not. `mode` is
`live` (writes are executed), `ask` (an operator confirms), `skip` (nobody is there
to) or `dry`; `told` is a vault the operator names for this run. A context is a
network with its deployment; those in `Hub` execute listed writes.

`slipped` and `unsure` observe when the runner lost sight of something: what it
created and could not save or was not told of, a batch revised past its review.
`owed` counts the calls of the transcript without an answer. Memory may at any time
be lost or be replaced by another agent's (`Misplace`), the case the identity check
of `verifyVaultIdentity` is there for. Assumed: agents have a vault name and a policy;
the language model gives no vault the name of another agent (`"odd"` stands for a name
that is no agent's); an answer that ends a
run has no calls in it.

### RoutingMath and StateRelay

A chain is its place in the list that the keeper goes through. The two pure
functions take a sequence of balances; `Share` is the rounded-down weight, and
the last place takes the rest. `Quotient` divides as bigints do, towards zero.

Every variable of `StateRelay` carries the contract's name and is a function of
the chain; `_chainSelectors`, `_weights` and `_amounts` are `table`, the weight
`updateState` caches for its own chain is `localWeight`. `updateState` is split
into what it checks of time and sender (`InTurn`) and of content (`WellFormed`),
since the two fail for different reasons. `IsStale` and `LiveAdjustment` are the
reads.

### Keeper

`index.ts` is a single process, but its epochs are not: each `await` is a point
where other epochs, users and chains go on. An epoch is a record in one of
`Slot` places with a phase (`idle`, `reading`, `writing`), what it has read of
each chain, its update and the relays it has not written to. `readChain` is one
step per RPC call: `ListBaskets`, then `ReadBalance` for each basket, then, on a
hub, `ReadPnL` for each. `Promise.all` lets the chains go on side by side and
gives the epoch up when one call fails (`AbortEpoch`). `ComputeUpdate` has no
await in it and is one step, with the timestamp. Each relay's write is then sent
or fails by itself (`SendUpdate`, `FailToSend`); sending estimates gas, which
runs `updateState` first, so an update that would revert is not sent. A sent
update waits in `mempool` and lands, reverts or is dropped.

`process` follows `main`: the first epoch is awaited, receipts included, and a
failure of it ends the process; later ones are started by the timer whatever the
last one does. (The model lets the first epoch wait for whatever is in the
mempools, also for what an earlier process left there.) `Restart` begins again with no memory and maybe other chains,
while what was sent before still waits.

Users, baskets, PnL, owners, outages and the clock are actions beside it.
`readFrom`, `lastStamp` and `overlapped` are history variables that no action
reads; they hold when the readings behind a relay's table began and whether
epochs ever overlapped. Left out: `perpAllocated`, which `computeGlobalNav`
ignores; receipts that nobody awaits; different clocks on different chains.

## 3. Runs

| run | setups | what it shows |
|---|---|---|
| `contracts` | `trade`: funded pool, two vaults on one leg per side, registry, trades, liquidations. `settings`: full `Spec` from the empty state, one vault. `market`: a liquidity provider and a trader on GMX alone. | `BackingKept`, `TotalsExact`, `NoVaultInDebt`, `Solvent`, `BooksExact`; refines `SegregatedLedger` (`LedgerSpec`) and, per vault, `PerpAccount` (`AccountsSpec`) |
| | `votes`: three chains, votes that cross. `late`: votes while time passes. `owners`: up to two steps of owners and adapters among votes. `assets`: one adapter, two assets. | `AdapterExact`, `QuorumBacked`, `VotesAgree` |
| `baskets` | `hub`: positions that double or lose everything, marks below, at and above zero. `queue`: two holders, three requests. `policy`: every operation and setting from the empty state. `fills`: a spoke whose queue is filled by messages. `rwa`: a vault with a reserve in tokens. | `CapitalKept`, `QueueExact`, `NoDilution`, `RedemptionPaid`, `FillsArrive`, `ReserveKeepsWorth` |
| `keeper_epochs` | a hub with up to two baskets and a spoke, two epochs at a time, any two changes, faults or settings at any point | `OnlyStaleReverts`, `OneReading`, `SameTimeSameTable`, `ForwardUnlessOverlapped` |
| `keeper_settles` | one basket per chain, one change or fault at any point, endless time, fairness | `Settles`, overlapping epochs included |
| `web_deposits` | `split`: one deposit over two chains. `again`: two deposits, one after the other, on one chain | `SplitsAddUp`, `SendsInOrder`, `GivenUpIsOver`, `RecordSettles` |
| `indexer` | `users`: deposits, redemptions, transfers and accounts over two days. `assets`: lists, prices and deposits. `relays`: two relays' tables | `RowsExact`, `BasketFresh`, `PoolConverges` |
| `scheduled_jobs` | Push worker. `rows`: two dispatches over rows of two chains. `modes`: realtime and digest in one dispatch. `states`: signals of a vault's state over time | `ToldAsLogged`, `NothingPassed`, `EveryRowWorked` |
| | Agents. `vaults`: runs of an agent without a vault beside one that has its own, over a hub and a spoke. `reserves`: the same with an agent that lists the reserve tools only, whose creations and closes are unlisted, in live and dry runs. `trainings`: jobs that the runner or the model start, end and are lost. `turns`: an agent with a vault, all modes, sides and batches, for an agent that lists the perp tools and one that lists the reserve tools | `OwnVault`, `OneVault`, `TurnsInOrder` |

Each run has a type invariant besides (`scheduled_jobs` that of the push worker; the
agents' is `AgentsTyped`, under Proofs). Setups are initial states of one run: an
`MC` module instantiates its module once for each with the amounts its question
needs, and says in its header what each is for. A property is a conjunction where
its parts fail for the same reason: `TotalsExact` is reserve, guaranteed USD and
short size; `BooksExact` is open interest, key list, tracked positions and total
deposits; `CapitalKept` is the entry for perp capital (`PrincipalKept`) and the cover of the
queue (`QueueKept`), each of a step that may not lose it;
`QueueExact` is the queue's sum and its locked shares; `AdapterExact` is
hash and list; `SendsInOrder` is one request at a time, an approval first, and all
sent when the dialog says so; `RowsExact` is counts and balances, no asset missing and
none left over; `TurnsInOrder` is caps kept, calls answered, and a batch about to be executed that is
the one owed answers; `GivenUpIsOver` and
`ToldAsLogged` are two parts each.

Bounds, and why they are enough. Two vaults and one asset are the least with a
shared leg; a third adds no new pair. Amounts and sizes are 1 and 2, enough
for a partial close, a full close and a remainder; with a size of zero `BooksExact`
does not hold (below). In `market` fees are up to 2 and losses too, so that a short of
collateral 1 can be overcharged, after which the setup ends (`NoneOvercharged`), since
fees that nothing backs could pile up without end. `MaxDeposited` caps
capital; `MaxUsdg` is the contract's own limit. Three chains are the least on which
a threshold of two can be reached in different ways and one of three be missed;
four votes let a chain vote twice while others' votes are under way. `MaxTime` and
`Ttl` let a vote be younger than, as old as, and older than the TTL; `MaxListed` and
`MaxEdits` cap the asset list and the owners' steps among votes. In `votes` and
`late` the first proposal is fixed, as chains and settings are all alike.

In the vault runs amounts are tens, with a fee of five percent, so that fees and
divisions are not all zero: 40 USDC buy 38 shares, and 13 or 25 of them are redeemed
so that partial fills round. Three queued requests give every order of two fills
around a third request, and three messages (`MaxFills`) one that is short, one that
is enough and one too many. `MaxUsdc` caps the USDC of the model and
`perpAllocated`, and `MaxQueue` the number of requests ever made. Bounds on data can
hide a case: that `NoDilution` needs `PrincipalThere` and says nothing of rewiring
came out only in its proof, for no instance small enough to check has a profit and
principal withdrawn by others at once. It is proved, so its truth no longer rests
on the instance.

In `rwa` a unit of USDC is two of a token at a price of one (`E12` 2, and
`ORACLE_PRECISION` 4 for quarters), where the code has 10^12: conversions round
much more often. 10 USDC and calls of 6 give part, all and more than all that is
idle or held. USDY rises once, mETH falls once and mUSD pays one token unit of yield
(`Drift`), at any point; issuers begin with 2 USDC (`Funds`), less than a gain takes.
All prices that move at will end in the same calls, from more balances than TLC gets
through.

Two chains, one or two deposits (`MaxRuns`), an amount of 5 with a least split of 1
and weights of 0 and 1 give every order of answers, timers and users within a run
and between a given-up run and the next. The indexer's `MaxBlock` of 4 is the
creation and three more events, enough for a list that shrinks while a handler is
at it; `MaxAssets` 2, two days, two starts (`MaxStarts`), two epochs of the keeper
(`MaxEpoch`). The push worker's `MaxRows` 3 with a page of 2 (`PageLimit`) makes a
page overflow, `MaxTime` 3 with a cooldown of 2 lets it pass, and `MaxDeaths` 1 is
one death at any point. Its wallets choose from two settings (`Choice`).

For the agents two are enough, one that runs and one whose vault or memory could be
taken for its own; three vaults (`MaxVaults`) are that one, its own and a second of
its own or of another name (`reserves` has two), and two trainings one too many. There
are two lists of writes (`WriteLists`), as in the agents' files: the perp tools with the
creation, and the reserve tools. A run has two turns
(`MaxTurns`, 18 to 40 in the agents' files) of at most two calls, so that a
cap of two (`OpenCap`, `ShortCap` 1) is reached within a batch, over two turns, and
exceeded. `MaxEnforced` is 1 where the code has 8: both sides of it are met. Runs
are not bounded in number.

In the keeper's runs a hub and a spoke are the least with a weight that the
other's balance decides; balances of 0 to 2 and a PnL of 31 up or down give
weights and shares that round. Two epochs at a time (`Slot`) are the least that
overlap, and more overlap no differently, since an epoch meets the others only
through relays and mempools. `MaxPending` is one transaction of the wallet per
chain; what `FailToSend` allows for is that a second one may get lost to the
nonce of the first. Users, faults and owners act at any time but at most
`MaxChanges` times in a behaviour; epochs, mining, time and recovery are not
rationed. `keeper_epochs` ends at `MaxTime` 2, enough for two epochs in one
second, in different seconds, and a third start. `keeper_settles` must not end:
there `Slide` moves everything one second back when the clock is at `MaxTime`,
so that time is kept relative to the present. The program compares times only
with each other and with `maxStaleness`, which no property of that run reads, so
only their order matters; times long past meet at 1, and `Slide` waits as long
as an update that is under way would be among them. History variables would
grow with time and are switched off there (`Recording`).

Fairness. Contracts do nothing unless called, so only what runs by itself, or is
owed an execution, has anything it must eventually do.

- Keeper (`MCKeeper`): the event loop runs what is ready (each epoch's next step,
  the timer, the end of the first epoch), chains mine what waits, and time passes.
  These are Node's event loop, `setInterval` and the chains' liveness. In
  `keeper_settles` RPC endpoints also recover, without which nothing can be read; in
  `spoke_excluded` they need not. Nothing restarts a process that has stopped, hence
  `Settles` is about one that runs.
- Fills (`FillSpec`): a message that can be executed is executed, by CCIP or, after
  a revert, by whoever executes it by hand. Nothing makes the owner appoint the
  receiver; `FillsArrive` says so.
- Web deposits (`Fairness`): the event loop and the timers of
  `useParallelChainDeposits.ts:54` and `:55` and of the dialog. No wallet, relayer
  or chain ever has to answer.
- Push worker (`Scheduled`): the scheduler keeps starting realtime dispatches
  (`.github/workflows/deploy-production.yml` sets one every five minutes) and one
  that runs goes on unless it dies.

Users, owners and faults are never fair.

Deadlock checking is on for `scheduled_jobs`, where a dispatch or a run may always be
started, and off elsewhere: the contracts may rest in any state, and the bounds make models stop.

### What the code does not keep

Five runs expect a violation. Each checks one statement of a comment, a test or a
document; PROJECT.json quotes it.

| run | what TLC finds |
|---|---|
| `flat_market` | Two vaults on one leg, no price move, no fee: the first to close books a loss of its collateral, the last a profit of the same size. GMX pays collateral back only with the last of the leg. |
| `fees_backed` | A queued redemption books its fee although the vault holds no USDC for it; `collectFees` then fails and the next USDC to arrive is swallowed. |
| `spoke_excluded` | One chain that cannot be read ends every epoch, so the spoke that went away keeps its weight on all others. |
| `pnl_counted_once` | The hub prices its whole PnL and is posted nothing to offset it; spokes are posted shares of the same PnL. |
| `deposit_untold` | A deposit's signal is addressed to the indexer's id of the user, chain and address, and subscriptions are kept by address: it reaches nobody. So do redemptions and digests. |

Others were met while modelling and have no run:

- A liquidation collects margin and funding fees in full when losses exceed the
  collateral, and up to collateral and profit otherwise (`VaultUtils.sol:131`, `:149`).
  A short that is charged more than its collateral leaves a fee reserve that no USDC
  backs, and the governor's withdrawal of it takes USDC of the pool. This is the exception
  in `BackingKept`.
- A liquidation by GMX leaves the tracked positions as they were, so a vault's
  books may describe a leg that is gone.
- `unseedPool` checks its argument against the floor and redeems all the USDG
  that was sent in, so a pool can end below `minPoolFloor`.
- Capital withdrawn past `withdrawFromPerp`, as the migration script does, stays
  in `perpAllocated` and is counted twice in NAV.
- `withdrawFromRWA` redeems one token unit more than the amount is worth, so in USDY
  and mETH no amount can be taken out again in full at the price it was put in at.
  What a withdrawal of all but one unit of USDC leaves is worth nothing, and
  `rotateReserveToken` then reverts on a redemption of nothing (`usdcOut zero`) until
  more is allocated or the price rises.
- A stale reserve price makes every read of NAV revert, and with it deposits and
  redemptions; unwiring the adapter brings them back and takes the reserve out of NAV.
- A loss falls on those who stay, as an open request is owed a fixed amount
  (`BasketVault.sol:321`), and the amount may exceed what is left. Without losses the
  queue can still lose its cover: a fee of a queued redemption that no USDC backs
  lowers what a share is worth, and a deposit at that price mints shares for less
  than older requests were promised for theirs. Hence the premises of `QueueKept`.
- A redemption that has to be queued moves shares with `transferFrom` and reverts
  without an approval of the share token; one that is paid at once needs none.
- A position of size zero, opened where another vault keeps the leg open, holds
  collateral without open interest, so `deregisterVault` ("Close positions first")
  accepts a vault that has not closed it; registered again, the vault counts no position
  and no collateral where it has some. TLC finds this with sizes 0 and 2 in `trade`.
- Registering a vault again starts its struct from zero while `totalDeposited`
  keeps the old capital, so it is an upper bound of the sum of `depositedCapital`
  (`DepositsWithinTotal`) and not the sum its comment says.
- Without `~overlapped`, `ForwardUnlessOverlapped` and `SameTimeSameTable` fail:
  of two overlapping epochs the older reading may carry the newer timestamp, and
  two may share a second. `Settles` shows that a later epoch repairs it. Hence
  "data is the same everywhere" (`apps/web/src/hooks/useRoutingWeights.ts:16`)
  holds between epochs, not during or after one that failed on a chain.
- `docs/CROSS_CHAIN_COORDINATION.md:72` says `amounts` is always zeros; the
  keeper posts the idle USDC it read.
- The guard against stale reads of `staleness.test.ts` is in the test only.
- `HubPnLTotal` is that of the first hub; `config/chains.json` has several
  chains with that role.

Vault and fills:

- A vault that is pointed at another VaultAccounting leaves its principal on the old
  one and drops realised profit from NAV; and once others have taken principal out
  for it (`withdrawCapital` asks nobody who calls), its own withdrawals of profit
  are taken off `perpAllocated` and lower what a share is worth. Both are the
  premises of `NoDilution`.
- A vault has one keeper. Neither the checklist after deployment
  (`docs/CROSS_CHAIN_COORDINATION.md:317`) nor a script makes the receiver that
  keeper (the tests do, `test/RedemptionReceiver.t.sol:52`), so a fill reverts with
  "Only keeper" until the owner appoints it, and then the keeper service cannot
  process redemptions.
- The USDC of a fill whose redemption was paid otherwise stays with its message for
  ever: each execution reverts on the completed request. And a fill that brings
  enough may revert when fees are owed that the balance does not hold.

Oracle settings:

- Chains that add peers in another order, or remove one, may end with different
  settings. `addPeer` accepts the chain's own selector (`OracleConfigQuorum.sol:272`),
  whose vote would then count twice, and `removePeer` leaves a threshold that can no
  longer be reached (`:281`).
- A forced configuration is overwritten by an old vote that comes in later, and a
  failed message executed by hand after a newer vote of its chain replaces that vote.
- Settings a quorum gives an inactive asset lose its local feed
  (`OracleConfigQuorum.sol:220`), and an asset deactivated and configured again is in
  `assetList` twice.
- Outside canonical mode a quorum that is no wirer makes every vote that reaches the
  threshold revert.

Web deposits:

- What timed out or was aborted goes on in the wallet and may land; "Retry failed"
  (`deposit-confirm-modal.tsx:1136`) sends the whole split again, and the receipts'
  status is not looked at. So a deposit may be made twice.
- An abort while the sender is looked up (`useParallelChainDeposits.ts:376`) is
  noticed only after the next send.
- Leaving the page unmounts the effect that mirrors rows into the dock's record,
  which then stays "signing" although the deposit goes on; for a sponsored account
  nothing bounds the look-up of the sender either. Both are exceptions in
  `RecordSettles`.
- With three chains or more the split is not proportional to the weights
  (`docs/INVESTOR_FLOW.md:16`), as each chain's part is a share of what is left.

Indexer and push worker:

- A handler that is behind shows the head's state under an old event's day; rows and
  memberships of assets can stay when the list changed while it lagged
  (`AssetsExactInStep` is about one that does not lag); transfers of shares are not
  indexed, so a holder's position is out of date after one.
- `pauseToggled` rows, which the push worker looks for, are never made;
  `VaultStateCurrent.paused` follows account events only.
- Rows of chains that a routing table no longer lists stay.
- A row that comes in after the cursor has passed its time, from a slower chain or
  with the time of a page's last row, is never read. `NothingPassed` is about the
  others.
- Dispatches that overlap tell an event twice and move the cursor back; one that
  dies between a push and its log tells it again; a push that failed on all devices
  is not tried again once the cursor has moved on.
- "paused" is told to a wallet once, ever.

Agents' runner:

- A run that fails after `create_vault`, by an error of the model or of a server at a
  later turn, saves nothing (`scripts/agent-runner.mjs:6064`), and the next run creates
  another vault: `docs/AGENTS_FRAMEWORK.md:187` says each agent manages exactly one, and
  `agents/mining-manager.md:45` that the runner looks for it with `get_all_vaults`,
  which it never calls by itself. So do an answer
  without an address that nobody follows up with `get_all_vaults`, a failed save, runs
  that alternate between networks, whose memory is one file, and a model that asks for
  a second vault in one run, against which nothing in the runner guards. These are the
  exceptions of `OneVault` (`slipped`).
- Nothing pins the vault of the reserve tools (`:847`): `allocate_to_rwa`,
  `withdraw_from_rwa`, `harvest_rwa_yield`, `set_reserve_token` and `rebalance_reserve`
  go to any vault they name (`apps/mcps/rwa-adapter/index.js:384-489`), for
  `rwa-treasurer` as for `rwa-yield-router`, whose prompt means it to rotate other
  agents' reserves (`agents/rwa-yield-router.md:37`). While an agent has no vault nothing
  pins the others either (`:846`). `OwnVault` is about what was pinned.
- What an agent's file does not list as a write is handled as a read, whatever it
  does: it passes the hub guard (`:4483`), dry and unattended runs (`:4504`), the
  policy's review and caps (`:5567`), the confirmation (`:5597`) and the risk officer
  (`:5843`). `rwa-treasurer` lists three reserve tools and is told that the runner refuses
  any other (`agents/rwa-treasurer.md:94`); no code refuses them. Its `open_position`
  is executed and counted, in a dry run and with a cap of zero too; its `create_vault`
  makes a vault on a spoke. So `CapsKept` is about agents that list the opening of
  positions, and the hub and the dry run in `OwnVault` about calls that are listed.
- A vault that was created under another name makes every later run refuse, until the
  memory is cleared.
- The automatic closes before the first turn (`runMcpTool`, `:4881`) ask no list and
  are held back by neither the hub guard nor the operator's confirmation.
- A batch that is revised at the confirmation is not reviewed again (`:5595`), and may
  exceed the caps; an open whose answer is lost is not counted. Both are exceptions of
  `TurnsInOrder` (`unsure`).
- A run that fails starts a training that no memory knows of, as does a training the
  model starts; and a model that looks at an older, ended job makes the runner forget
  the one that is pending.
- An answer with `finish_reason` "stop" and calls in it would be followed by a
  directive while its calls have no answer (`:5701`).

`Solvent` and `LedgerSpec` hold in spite of `flat_market`: the sum is right and
no USDC is missing, it is the split between vaults that is wrong.

## 4. Proofs

All theorems are over unbounded amounts, any finite sets of vaults, accounts,
users, chains, assets and tokens, and any fees and price moves.

- **`GmxTyped`**, **`GmxTotalsHold`**, **`GmxBackingKept`**, **`BackedUntilOvercharged`**
  (`VaultAccountingProofs`). `GmxInv` is the type invariant with the three totals and, of
  what is open, that size covers collateral and collateral the liquidation fee
  (`OpenPositionsHealthy`). Each call moves one position, hence each total by one
  summand, and the counters by the same. `BackingKept` is about what is left of the
  balance when pool, fees and short collateral are taken off it (`Unclaimed`): the four
  formulas by which fees, profits and losses of longs and shorts are paid cancel out, for any
  fees, except in `liquidatePosition` of a short that is charged more than its
  collateral. There the difference is booked as a fee and no USDC came in for it.
  `BackedUntilOvercharged` is what follows for `PoolBacked`, with the absence of that step as
  its premise: the code does not enforce it.
- **`LedgerCovered`** (`SegregatedLedgerProofs`). In the abstract ledger the USDC
  held covers the free capital of all clients.
- **`AccountingTyped`**, **`VaultsOutOfDebt`**, **`AccountingIsLedger`**,
  **`AccountingSolvent`**, **`GmxTotalsHoldUnderAccounting`**,
  **`BackingKeptUnderAccounting`**
  (`VaultAccountingProofs`). The type invariant comes first. `NoVaultInDebt`
  needs that every close takes off `collateralLocked` at most what is locked,
  and loses at most that. With it each step maps to a step of the ledger or a
  stutter, which is the refinement; `Solvent` is then `LedgerCovered` carried
  over by the refinement mapping (`held <- wallet[VA]`, `free <- Free`). The
  totals of GMX and `BackingKept` are carried over the same way: a step of VaultAccounting is one
  of GMX's own steps or leaves it alone.

- **`BooksCover`**, **`BooksAgree`** (`VaultAccountingProofs`). `BooksCovered` holds
  whatever is opened: open interest and key list are exact, deposits are within
  `totalDeposited`, and a vault counts no more positions and collateral than it has. It
  is inductive with `Retired` (who is not registered has no open interest) and
  `ClosedEmpty` (what is not open is blank); each open, close, and swap-remove of a key
  is a change of one summand (`SumLemmas`). That the covers are equalities, `BooksExact`,
  needs in addition that open positions have a size (`OpenSized`): then a vault
  without open interest has none open, and a fresh struct is right. Hence the premise
  `0 \notin Size` of `BooksAgree`.
- **`AccountingIsAccounts`** (`VaultAccountingProofs`) is the refinement `AccountsSpec`:
  each call is for its own vault a step of `PerpAccount` with the amounts it moves,
  and for every other vault a stutter, so what `BasketVault` takes for its
  environment is all there is. `NoVaultInDebt` and the type invariant are what a close needs for
  its amounts to be those `Settle` allows.

- **`VaultTyped`**, **`QueueAddsUp`**, **`QueueAddsUpUnderFills`**
  (`BasketVaultProofs`). The type invariant alone is not inductive: that the burn of
  a filled request leaves the vault's own shares in `Nat`, and that
  `pendingRedemptionsUsdc` does not go below zero, is the queue's sum over open
  requests (`QueueExact`), so types and queue are proved together. `QueueAddsUp`
  uses what `SumLemmas` says of a sum when one request is opened or completed. A fill
  by a message is a transfer followed by the same `Fill`, so the invariant carries
  over to `FillSpec`.
- **`SharesKeepWorth`** (`BasketVaultProofs`) is `NoDilution`. Worth of a share is
  compared by cross-multiplication. A deposit mints `amount * supply \div nav` rounded
  down of the amount less its fee, a redemption pays `shares * nav \div supply`
  rounded down: in both the rounding stays with those who remain. Every other step
  leaves the supply and must not lower NAV; for a withdrawal that is where
  `PrincipalThere` is needed. `FutureBlank`, that a request not yet made is
  blank, lets the premise that the queue is unchanged exclude a redemption that
  queues.
- **`PromisesCovered`**, **`PromisesCoveredUnderFills`** (`BasketVaultProofs`) are
  `CapitalKept`. `QueueCovered` says that NAV less what is queued is not negative and that
  no request is owed more for each locked share than each other share would find
  then; it is kept, not always true, so the invariant (`CoverInv`) is only types, queue
  and that an open request locks a share. Added up over the requests (`SumBelow`), what
  is owed stays within the same bound. Hence whoever redeems at the price takes at most
  his part of what is left (`GrossBelowLeft`), with the roundings in favour of those who
  stay; a fill takes off NAV what it takes off the queue; a deposit adds to what is
  left in proportion only if no request is owed more than the price, its second
  premise. `PrincipalStays` is the other half: `withdrawFromPerp` stops at zero just when
  the account has given back all principal.
- **`QueuedGetsQuote`** (`BasketVaultProofs`) is `RedemptionPaid`: what the partial
  fill rounds away is less than the price of one share.
- **`ReserveWorthKept`** (`BasketVaultProofs`) is `ReserveKeepsWorth`. The invariant adds
  to types and queue that one token is held at a time (`OneTokenHeld`) and that `mark`
  is its value. Both conversions round down: `BoughtFor` says that tokens bought for an
  amount add that amount to the value held or one unit less, `SoldOf` that tokens sold
  take off the value what they bring or one unit more. A rotation sells all that is held,
  for just what it counted, and buys, so it loses one unit at most, too.
- **`QuorumTyped`**, **`SettingsExact`**, **`QuorumIsBacked`** (`VaultAccountingProofs`).
  The invariant adds to the three that a vote held, a message on a lane and a message
  put aside were proposed by the chain they name (`VotesProposed`, `LaneProposed`,
  `FailedProposed`); then the chains that `Matching` counts are proposers, and a
  threshold of them is reached when settings are applied. Changes by hand, of peers,
  threshold or TTL withdraw the claim (`Anew`).
- **`VotesAgreed`** (`VaultAccountingProofs`) is `VotesAgree`. The crux is what a lane
  tells (`LanesTell`): a chain's own vote is the last message on the lane to each peer
  or, when the lane is empty, what the peer holds. With the votes stamped no later than
  now (`Stamped`) and a threshold of all chains at most (`Reachable`), the last vote to
  come in finds all others, and applies them; that nothing undoes it while the votes are fresh
  is `FreshApplied`.
- **`AgentsTyped`**, **`RunsKeepTheirVault`**, **`OneVaultEach`**, **`CapsOverTurns`**
  (`JobsProofs`). For any agents, networks, deployments, lists of writes, caps, turns and
  batches. One
  invariant (`AgentInv`) carries all: a run between its calls has a batch that is
  paired with the answers owed (`Batched`); one that was not told a vault has one of its
  own agent once it has looked, and pinned writes that went there, from any context, with
  the hub and a run that executes for those that are listed (`Owned`); one whose agent
  lists opens has counters at most the policy's unless it is unsure (`Certain`,
  `Capped`); and of an agent the runner has not
  lost sight of, memory or the running run knows every vault and training that
  exists (`Tracked`). `Capped` is about what was opened and what is left of the batch
  together (`Room`), so that a call executed late in a batch is still within the caps.
- **`DispatchesTyped`**, **`CursorPassesNothing`**, **`ToldOnceAndLogged`**
  (`JobsProofs`). For any wallets, devices, chains, page limit, cooldown and number
  of dispatches at a time. `CursorPassesNothing` is `NothingPassed`, whatever overlaps or
  dies: cursors, and the cursors dispatches started from, show the time of a row or the
  beginning, and all rows in order up to it were worked on (`Met`); and a page that was
  read has every row in order between the cursor and its last (`Whole`), since pages are
  the oldest rows first. A new row in order is later than all others, so no cursor has
  reached it. `ToldOnceAndLogged` is `ToldAsLogged`. The invariant (`Remembers`) says, while
  realtime dispatches have not overlapped nor one died untold, that there is one of
  them (`OneRealtime`), that what was told is in the log at a time not before it or is the
  entry about to be logged (`LoggedOnce`), and that the log still lets the event of a
  push at hand be told (`Free`).
- **`DialogTypes`**, **`NothingLostInSplits`**, **`WalletAskedInOrder`**,
  **`GivenUpStaysOver`** (`WebDepositsProofs`). For any chains in any order, weights, amounts
  and number of deposits. A split adds up because each chain's part is taken from what
  is left and the last takes the rest; that is an induction over the list of chains with
  money (`ActiveChains`), done by the place where it would first fail, since the
  splits are functions by recursion. The invariant (`WebInv`) says which requests there
  can be: each is of a chain its run has come to, one per kind and chain (`Requests`).
  With the user's own wallet only the latest run is under way and every unanswered
  request is the one it waits for (`OneRun`), which is `OneSendAtATime`; an approval that
  landed left the allowance its deposit needs (`Allowed`); a row that shows success has
  a deposit that went out, and the count is that of such rows (`Counted`), from which
  `CompleteMeansSent` follows also when effects run late. `GivenUpIsOver` needs
  that the record mirrored is always one still "signing" (`Dock`).
- **`IndexerTypes`**, **`RowsAreExact`**, **`BasketIsFresh`**, **`PoolsConverge`**
  (`IndexerProofs`). For any users, assets, days, relays and length of the chain. The
  invariant (`IndexerInv`) first says what a chain is: each block follows from the one
  before, and a vault has no event before its creation (`ChainKept`). Then what the
  rows show half-way: a reading of the assets has rows for all places it has passed,
  and, when no change of the list is still to come, for the list at the head
  (`Covered`); a handler never behind the chain has no others (`InStep`); every handled
  event is shown, but for the price of an asset that a later event takes off the
  list, which is what a handler may miss by reading ahead (`Fresh`). `PoolConverges` is
  inductive with types: a handler of a post writes the table its relay shows by then,
  so whichever post is handled last writes the one that all relays show.
- **`WeightsAddUp`** (`KeeperProofs`). For any list of balances there is a weight
  in 0..10000 for each place, and they add up to 10000. The crux is that the
  rounded-down shares of all but the last do not exceed the whole: multiplied by
  the sum of the inverses, each is at most 10000 times its inverse (`SumScaled`).
- **`KeeperTyped`**, **`RefusedOnlyForTime`** (`KeeperProofs`). For any chains,
  baskets, amounts, any number of epochs at a time, restarts and losses. The
  invariant adds to the two properties that a loop over the baskets of a chain
  stays on the list it goes through (`InLoop`), without which what it reads would
  be no amount; then every update an epoch computes has its type and is
  `WellFormed` by `WeightsAddUp`, and sending and mining only hand it on.
- **`EqualTimesEqualTables`**, **`RelaysGoForward`** (`KeeperProofs`) are
  `SameTimeSameTable` and `ForwardUnlessOverlapped`, with the history variables on
  (`Recording`), as the runs that check them have them. While no epochs overlapped
  there is one order of everything (`AloneInv`): the one epoch at work
  (`EpochAlone`) reads later than the last stamp (`ReadingFresh`), no stamp that waits or
  is stored is later than the last (`StampsPast`), and of two updates,
  waiting or stored, that carry the same stamp the tables are the same, and of two
  with different stamps the later has read all its chains later (`Flight`). A restart leaves
  what is in the mempools, so the order has to hold across processes, too.
- **`TablesFromOneReading`** (`KeeperProofs`) is `OneReading`, also while epochs
  overlap. The invariant (`ReadInv`) says the same of the update an epoch is about
  to write and of every transaction that waits, and of an epoch that reads, that what
  it has added up so far is a part of a total in `HubTotals`.

Assumptions: `GmxConstants`, `KeeperConstants` and their like say what the constants are.
None limits an amount, or a fee or price move of the exchange. A vault's fee is at most
the five percent that `setFees` allows, and a reserve token's price is positive and at
most `Scale`, at which the smallest unit of the token is worth one of USDC (a dollar
token at 10^12 dollars).

Only model-checked is what is out of the prover's reach: liveness under fairness,
`Settles`, `FillsArrive`, `RecordSettles` and `EveryRowWorked`. Every other property of a
passing run is stated by a theorem. The library's induction theorems cannot be used
here; sums over finite sets and functions over 0..n are reasoned about in `SumLemmas`
through a least counterexample instead, whose existence it proves.

## 5. Plan and limits

Done: every module above with the runs and proofs named. What would come next, in
this order:

1. Prices: submission, deviation and staleness in `OracleAdapter`, `PriceSync`, and
   funding rate, price impact and blended average prices as operators.
2. Basket creation over several chains in the web app, and the job queue of
   `apps/mcps/atlas-ml`.

Not modelled, and why. Views (`PerpReader`, `Reader`, most of the web app) change
nothing. The parts of GMX that no contract here calls (`Router`,
`BasePositionManager`, `ShortsTracker`), deploy scripts and factories are fixed
sequences of calls. The MCP servers, a large part of the repository's lines, turn a
tool call into the contract calls that are modelled here or into reads of other
services; prompts are text. Of the agents' runner the choice of what to close and
the scores of assets are left out, arithmetic on quotes that are inputs of a run; so
is the scoring of `atlas-quality`. The leaderboard worker writes a table that nobody
else reads.
