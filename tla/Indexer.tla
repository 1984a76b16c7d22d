------------------------------ MODULE Indexer ------------------------------
(***************************************************************************)
(* The Envio indexer: what its handlers make of the events of one vault,   *)
(* and of the routing tables which two relays of different chains report.  *)
(*                                                                         *)
(* A handler learns from an event that something happened, at which block, *)
(* to whom.  What the contracts hold it reads from the chain's head, which *)
(* may be far past that block, and a read may fail.  A row that came from  *)
(* such a read is modelled by the number of the block it shows.  A block   *)
(* holds one event; amounts are one share each; a block's events do not    *)
(* come twice, and the indexer may start over from nothing (Resync).       *)
(***************************************************************************)
EXTENDS Integers, Sequences, FiniteSets, SequencesExt, FiniteSetsExt

CONSTANTS
  Asset, User, Day, Relay, Selector,
  MaxAssets,            \* bound of the model: assets of the vault
  MaxBlock,             \* bound of the model: blocks of the chain
  MaxEpoch,             \* bound of the model: epochs of the keeper
  MaxStarts             \* bound of the model: starts of the indexer

NoAsset == "none"
NoUser == "none"

ASSUME IndexerConstants ==
  /\ IsFiniteSet(Asset) /\ NoAsset \notin Asset
  /\ IsFiniteSet(User) /\ NoUser \notin User
  /\ Day \subseteq Nat /\ 1 \in Day
  /\ IsFiniteSet(Relay) /\ Relay # {} /\ IsFiniteSet(Selector)
  /\ {MaxAssets, MaxBlock, MaxEpoch} \subseteq Nat /\ MaxStarts \in Nat \ {0}

VARIABLES
  blocks,     \* the chain: what happened, and what the contracts held after it
  done,       \* events handled
  basket,     \* Basket: known, block shown, assetCount, deposits counted
  position,   \* UserBasketPosition.shareBalance
  activity,   \* BasketActivity
  snapshot,   \* BasketSnapshot: the block shown for a day, or 0
  rows,       \* BasketAsset: one for each place in the vault's list
  member,     \* the assets whose AssetBasketMembership lists the vault
  protocol,   \* ProtocolState.paused
  vstate,     \* VaultStateCurrent: known, paused
  sync,       \* the list being read by syncBasketAssets: the next place, the count
  starts,     \* times the indexer was started
  missed,     \* observes: a read has failed since the start
  lagged,     \* observes: a handler ran, since the start, with the chain ahead of it
  moved,      \* observes: users whose shares moved without an event of the vault
  epochs,     \* the keeper's routing tables: the chains in each
  posted,     \* the epochs that reached each relay
  handled,    \* StateUpdated events handled, of each relay
  pool        \* ChainPoolState: the epoch each row shows, or 0

chain == <<blocks, moved>>
vault == <<basket, position, activity, snapshot, rows, member, protocol, vstate, sync>>
keeper == <<epochs, posted>>
routing == <<handled, pool>>
vars == <<chain, done, vault, starts, missed, lagged, keeper, routing>>

Place == 0..(MaxAssets - 1)
NoRow == [asset |-> NoAsset, active |-> FALSE]
NewBasket == [known |-> FALSE, read |-> 0, count |-> 0, deposits |-> 0]
NoSync == [at |-> 0, count |-> 0]
Idle == sync = NoSync

Genesis ==
  [kind |-> "none", user |-> NoUser, asset |-> NoAsset, day |-> 1,
   assets |-> <<>>, paused |-> FALSE, held |-> [u \in User |-> 0]]

At(n) == IF n = 0 THEN Genesis ELSE blocks[n]
Height == Len(blocks)
Chain == At(Height)

Init ==
  /\ blocks = <<>> /\ done = 0
  /\ basket = NewBasket /\ position = [u \in User |-> 0] /\ activity = {}
  /\ snapshot = [d \in Day |-> 0]
  /\ rows = [i \in Place |-> NoRow] /\ member = {}
  /\ protocol = FALSE /\ vstate = [known |-> FALSE, paused |-> FALSE]
  /\ sync = NoSync
  /\ starts = 1 /\ missed = FALSE /\ lagged = FALSE /\ moved = {}
  /\ epochs = <<>> /\ posted = [r \in Relay |-> <<>>]
  /\ handled = [r \in Relay |-> 0] /\ pool = [s \in Selector |-> 0]

-----------------------------------------------------------------------------
(* The chain of the vault.                                                 *)

Exists == \E n \in DOMAIN blocks : blocks[n].kind = "created"

Mine(b) ==
  /\ Height < MaxBlock
  /\ \E d \in Day : d >= Chain.day /\ blocks' = Append(blocks, [b EXCEPT !.day = d])
  /\ lagged' = (lagged \/ ~ Idle)
  /\ UNCHANGED <<done, vault, starts, missed, keeper, routing>>

Event(k) == [Chain EXCEPT !.kind = k, !.user = NoUser, !.asset = NoAsset]

Create == ~ Exists /\ Mine(Event("created")) /\ UNCHANGED moved

Deposit(u) ==
  /\ Exists
  /\ Mine([Event("deposit") EXCEPT !.user = u, !.held[u] = @ + 1])
  /\ UNCHANGED moved

Redeem(u) ==
  /\ Exists /\ Chain.held[u] > 0
  /\ Mine([Event("redeem") EXCEPT !.user = u, !.held[u] = @ - 1])
  /\ UNCHANGED moved

SetAssets(list) == Exists /\ Mine([Event("assets") EXCEPT !.assets = list]) /\ UNCHANGED moved

SetPaused == Mine([Event("paused") EXCEPT !.paused = ~ @]) /\ UNCHANGED moved

\* Capital, positions, PnL, and the registration, which a pause does not stop.
Account == Exists /\ Mine(Event("account")) /\ UNCHANGED moved

Price(a) == Mine([Event("price") EXCEPT !.asset = a]) /\ UNCHANGED moved

\* A transfer of shares, or shares locked for a queued redemption: the vault
\* emits nothing that is indexed.
Move(u, held) ==
  /\ Exists /\ Chain.held[u] > 0
  /\ Mine([Event("quiet") EXCEPT !.held = held])
  /\ moved' = moved \cup {v \in User : held[v] # Chain.held[v]}

Transfer(u) ==
  \/ Move(u, [Chain.held EXCEPT ![u] = @ - 1])
  \/ \E v \in User \ {u} : Move(u, [Chain.held EXCEPT ![u] = @ - 1, ![v] = @ + 1])

-----------------------------------------------------------------------------
(* The handlers of the vault's events.                                     *)

\* Mutation: what was counted is not carried over.
RefreshedAnew(ok) ==
  [NewBasket EXCEPT !.known = TRUE,
                    !.read = IF ok THEN Height ELSE basket.read,
                    !.count = IF ok THEN Len(Chain.assets) ELSE basket.count]

\* refreshBasketFromChain: a field whose read fails keeps its value.
Refreshed(ok) ==
  [basket EXCEPT !.known = TRUE,
                 !.read = IF ok THEN Height ELSE @,
                 !.count = IF ok THEN Len(Chain.assets) ELSE @]

Refresh(e, ok) ==
  /\ basket' = Refreshed(ok)
  /\ snapshot' = [snapshot EXCEPT ![e.day] = Refreshed(ok).read]
  /\ missed' = (missed \/ ~ ok)

NoRefresh == UNCHANGED <<basket, snapshot, missed>>
NoAssets == UNCHANGED <<rows, member, sync>>

createActivity(e) ==
  activity' = activity \cup {[block |-> done + 1, kind |-> e.kind, user |-> e.user]}

\* Mutation: the shares of a redemption are taken off without looking.
CountedBelow(e, ok) ==
  /\ basket' = [Refreshed(ok) EXCEPT !.deposits = IF e.kind = "deposit" THEN @ + 1 ELSE @]
  /\ snapshot' = [snapshot EXCEPT ![e.day] = Refreshed(ok).read]
  /\ missed' = (missed \/ ~ ok)
  /\ position' = [position EXCEPT ![e.user] = IF e.kind = "deposit" THEN @ + 1 ELSE @ - 1]
  /\ createActivity(e)
  /\ NoAssets /\ UNCHANGED <<protocol, vstate>>

\* The deposits and redemptions a position is made of.
Counted(e, ok) ==
  /\ basket' = [Refreshed(ok) EXCEPT !.deposits = IF e.kind = "deposit" THEN @ + 1 ELSE @]
  /\ snapshot' = [snapshot EXCEPT ![e.day] = Refreshed(ok).read]
  /\ missed' = (missed \/ ~ ok)
  /\ position' = [position EXCEPT ![e.user] =
                    IF e.kind = "deposit" THEN @ + 1 ELSE IF @ > 1 THEN @ - 1 ELSE 0]
  /\ createActivity(e)
  /\ NoAssets /\ UNCHANGED <<protocol, vstate>>

\* Mutation: rows are looked at up to the present count only.
AffectedNow(previous, next) == {i \in Place : i < next /\ rows[i].active}

\* The places whose rows are cleared before the list is read again.
Affected(previous, next) ==
  {i \in Place : i < (IF next > previous THEN next ELSE previous) /\ rows[i].active}

\* The first half of syncBasketAssets.  "previous" is what the basket's row
\* says, which other handlers bring up to date as well.
ClearAssets(previous, next) ==
  LET gone == Affected(previous, next)
  IN /\ member' = member \ {rows[i].asset : i \in gone}
     /\ rows' = [i \in Place |-> IF i \in gone THEN [rows[i] EXCEPT !.active = FALSE] ELSE rows[i]]
     /\ sync' = [at |-> 0, count |-> next]

Created(e, ok) ==
  /\ Refresh(e, ok)
  /\ vstate' = IF vstate.known THEN vstate ELSE [known |-> TRUE, paused |-> protocol]
  /\ ClearAssets(Refreshed(ok).count, Refreshed(ok).count)
  /\ UNCHANGED <<position, activity, protocol>>

AssetsUpdated(e, ok) ==
  /\ Refresh(e, ok)
  /\ ClearAssets(basket.count, Refreshed(ok).count)
  /\ createActivity(e)
  /\ UNCHANGED <<position, protocol, vstate>>

PauseToggled(e) ==
  /\ protocol' = e.paused
  /\ NoRefresh /\ NoAssets /\ UNCHANGED <<position, activity, vstate>>

\* syncVaultState
Accounted(e, ok) ==
  /\ Refresh(e, ok)
  /\ vstate' = [known |-> TRUE, paused |-> protocol]
  /\ createActivity(e)
  /\ NoAssets /\ UNCHANGED <<position, protocol>>

PriceUpdated(e, ok) ==
  /\ IF e.asset \in member THEN Refresh(e, ok) ELSE NoRefresh
  /\ NoAssets /\ UNCHANGED <<position, activity, protocol, vstate>>

Unseen == NoRefresh /\ NoAssets /\ UNCHANGED <<position, activity, protocol, vstate>>

Handle(ok) ==
  /\ Idle /\ done < Height
  /\ done' = done + 1
  /\ lagged' = (lagged \/ done + 1 < Height)
  /\ LET e == blocks[done + 1]
     IN \/ e.kind = "created" /\ Created(e, ok)
        \/ e.kind \in {"deposit", "redeem"} /\ Counted(e, ok)
        \/ e.kind = "assets" /\ AssetsUpdated(e, ok)
        \/ e.kind = "paused" /\ PauseToggled(e)
        \/ e.kind = "account" /\ Accounted(e, ok)
        \/ e.kind = "price" /\ PriceUpdated(e, ok)
        \/ e.kind = "quiet" /\ Unseen
  /\ UNCHANGED <<chain, starts, keeper, routing>>

NextPlace ==
  sync' = IF sync.at + 1 < sync.count THEN [sync EXCEPT !.at = @ + 1] ELSE NoSync

\* Mutation: the asset that stood in a row loses the vault only as the row is
\* written again.
AddAssetLate(i, a) ==
  /\ rows' = [rows EXCEPT ![i] = [asset |-> a, active |-> TRUE]]
  /\ member' = (member \ {rows[i].asset}) \cup {a}

\* Mutation: the vault is listed with an asset only as it takes the row over.
AddAssetUnlisted(i, a) ==
  /\ rows' = [rows EXCEPT ![i] = [asset |-> a, active |-> TRUE]]
  /\ member' = IF rows[i].asset = a THEN member ELSE member \cup {a}

AddAsset(i, a) ==
  /\ rows' = [rows EXCEPT ![i] = [asset |-> a, active |-> TRUE]]
  /\ member' = member \cup {a}

\* The second half of syncBasketAssets, read by read.
ReadAsset(ok) ==
  /\ ~ Idle
  /\ NextPlace
  /\ IF ok /\ sync.at < Len(Chain.assets)
     THEN AddAsset(sync.at, Chain.assets[sync.at + 1]) /\ UNCHANGED missed
     ELSE UNCHANGED <<rows, member>> /\ missed' = (missed \/ ~ ok)
  /\ UNCHANGED <<chain, done, basket, position, activity, snapshot, protocol, vstate,
                 starts, lagged, keeper, routing>>

\* A new deployment of the indexer reads the chain from its start block.
Resync ==
  /\ starts < MaxStarts /\ done > 0
  /\ starts' = starts + 1 /\ done' = 0
  /\ basket' = NewBasket /\ position' = [u \in User |-> 0] /\ activity' = {}
  /\ snapshot' = [d \in Day |-> 0]
  /\ rows' = [i \in Place |-> NoRow] /\ member' = {}
  /\ protocol' = FALSE /\ vstate' = [known |-> FALSE, paused |-> FALSE]
  /\ sync' = NoSync /\ missed' = FALSE /\ lagged' = FALSE
  /\ handled' = [r \in Relay |-> 0] /\ pool' = [s \in Selector |-> 0]
  /\ UNCHANGED <<chain, keeper>>

-----------------------------------------------------------------------------
(* Routing tables.                                                         *)

NewEpoch(table) ==
  /\ Len(epochs) < MaxEpoch /\ epochs' = Append(epochs, table)
  /\ UNCHANGED <<chain, done, vault, starts, missed, lagged, posted, routing>>

Shown(r) == IF posted[r] = <<>> THEN 0 ELSE Last(posted[r])

Post(r, e) ==
  /\ e \in DOMAIN epochs /\ e > Shown(r)
  /\ posted' = [posted EXCEPT ![r] = Append(@, e)]
  /\ UNCHANGED <<chain, done, vault, starts, missed, lagged, epochs, routing>>

\* Mutation: a row that is there is left as it is.
PoolRowsOnce(e) ==
  [s \in Selector |-> IF s \in epochs[e] /\ pool[s] = 0 THEN e ELSE pool[s]]

PoolRows(e) == [s \in Selector |-> IF s \in epochs[e] THEN e ELSE pool[s]]

\* StateUpdated: the table is that of the relay's head, and the chains it does
\* not name keep their rows.
StateUpdated(r, ok) ==
  /\ handled[r] < Len(posted[r])
  /\ handled' = [handled EXCEPT ![r] = @ + 1]
  /\ IF ok THEN pool' = PoolRows(Shown(r)) /\ UNCHANGED missed
     ELSE missed' = TRUE /\ UNCHANGED pool
  /\ UNCHANGED <<chain, done, vault, starts, lagged, keeper>>

-----------------------------------------------------------------------------
AssetLists == UNION {[1..n -> Asset] : n \in 1..MaxAssets}

ChainStep ==
  \/ Create \/ SetPaused \/ Account
  \/ \E u \in User : Deposit(u) \/ Redeem(u) \/ Transfer(u)
  \/ \E list \in AssetLists : SetAssets(list)
  \/ \E a \in Asset : Price(a)

RoutingStep ==
  \/ \E table \in SUBSET Selector \ {{}} : NewEpoch(table)
  \/ \E r \in Relay : (\E e \in DOMAIN epochs : Post(r, e))
                        \/ (\E ok \in BOOLEAN : StateUpdated(r, ok))

Next ==
  \/ ChainStep \/ RoutingStep \/ Resync
  \/ \E ok \in BOOLEAN : Handle(ok) \/ ReadAsset(ok)

Spec == Init /\ [][Next]_vars

-----------------------------------------------------------------------------
(* Properties.                                                             *)

TypeOK ==
  /\ Height <= MaxBlock /\ done \in 0..Height
  /\ basket \in [known : BOOLEAN, read : 0..Height, count : 0..MaxAssets, deposits : Nat]
  /\ position \in [User -> Nat]
  /\ snapshot \in [Day -> 0..Height]
  /\ rows \in [Place -> [asset : Asset \cup {NoAsset}, active : BOOLEAN]]
  /\ member \subseteq Asset
  /\ protocol \in BOOLEAN /\ vstate \in [known : BOOLEAN, paused : BOOLEAN]
  /\ sync.at \in 0..MaxAssets /\ sync.count \in 0..MaxAssets
  /\ starts \in 1..MaxStarts /\ missed \in BOOLEAN /\ lagged \in BOOLEAN
  /\ moved \subseteq User
  /\ handled \in [Relay -> 0..MaxEpoch] /\ pool \in [Selector -> 0..Len(epochs)]

CaughtUp == Idle /\ done = Height
Happened(k) == {n \in 1..done : blocks[n].kind = k}

\* However far behind the chain the handlers run, and however often the rest of
\* the basket's row was read again, the deposits counted are those there were,
\* and the balance of a user whose shares never moved without an event is what
\* the user held at the last event handled.
HistoryExact ==
  /\ basket.deposits = Cardinality(Happened("deposit"))
  /\ \A u \in User \ moved : position[u] = At(done).held[u]

\* With everything handled and every read answered, each place of the vault's
\* list has its active row, and a price of any of its assets refreshes the
\* vault: none is missing, also when the handlers ran behind the chain.
AssetsCovered ==
  CaughtUp /\ ~ missed /\ basket.known =>
    \A i \in DOMAIN Chain.assets :
      rows[i - 1] = [asset |-> Chain.assets[i], active |-> TRUE] /\ Chain.assets[i] \in member

\* A handler that always found the chain at its own block leaves nothing over
\* either: the active rows are the list, and only its assets have the vault.
AssetsExactInStep ==
  CaughtUp /\ ~ missed /\ ~ lagged =>
    /\ \A i \in Place : rows[i].active => i < Len(Chain.assets)
    /\ member = {Chain.assets[i] : i \in DOMAIN Chain.assets}

\* What an investor is shown of a basket's deposits, holders and assets is what
\* there was, in whatever order events, reads and deployments come.
RowsExact == HistoryExact /\ AssetsCovered /\ AssetsExactInStep

\* The basket shows no state older than the last event that touched it, a price
\* of an asset it holds included.
Touching ==
  {n \in 1..Height : \/ blocks[n].kind \in {"created", "deposit", "redeem", "assets", "account"}
                     \/ blocks[n].kind = "price" /\ blocks[n].asset \in Range(Chain.assets)
                          /\ blocks[n].assets = Chain.assets}

BasketFresh ==
  CaughtUp /\ ~ missed => \A n \in Touching : basket.read >= n

\* "Both relays publish the same logical state and are expected to converge":
\* once each has the newest table and every event is handled, in any order, the
\* rows of the chains in that table show it.
PoolConverges ==
  \A e \in DOMAIN epochs :
    (\A r \in Relay : Shown(r) = e /\ handled[r] = Len(posted[r])) /\ ~ missed =>
      \A s \in epochs[e] : pool[s] = e
=============================================================================
