--------------------------- MODULE IndexerProofs ---------------------------
(***************************************************************************)
(* What the indexer's rows say of the vault, and of the keeper's tables,   *)
(* for every number of users, assets, relays and blocks.                   *)
(***************************************************************************)
EXTENDS Indexer, SumLemmas

-----------------------------------------------------------------------------
(* The invariants.                                                         *)

EventKind == {"created", "deposit", "redeem", "assets", "paused", "account", "price", "quiet"}

Block ==
  [kind : EventKind \cup {"none"}, user : User \cup {NoUser}, asset : Asset \cup {NoAsset},
   day : Day, assets : Seq(Asset), paused : BOOLEAN, held : [User -> Nat]]

BlocksTyped ==
  /\ blocks \in Seq(Block) /\ Height <= MaxBlock
  /\ \A n \in 1..Height : Len(blocks[n].assets) <= MaxAssets
  /\ moved \subseteq User

\* How the contracts' state follows from the one of the block before: only the
\* vault's own events, and transfers of the users of "mv", change shares.
Follows(b, p, mv) ==
  /\ b.kind # "assets" => b.assets = p.assets
  /\ b.kind = "deposit" => b.user \in User /\ b.held = [p.held EXCEPT ![b.user] = @ + 1]
  /\ b.kind = "redeem" =>
       b.user \in User /\ p.held[b.user] > 0 /\ b.held = [p.held EXCEPT ![b.user] = @ - 1]
  /\ b.kind \notin {"deposit", "redeem"} => \A u \in User \ mv : b.held[u] = p.held[u]

Chronicle == \A n \in 1..Height : Follows(blocks[n], At(n - 1), moved)

\* The events which only a vault that was created has.
OfVault == {"deposit", "redeem", "assets", "account", "quiet"}
CreatedBy(n) == \E m \in 1..n : blocks[m].kind = "created"

Origin ==
  /\ \A n \in 1..Height : blocks[n].kind \in OfVault => CreatedBy(n - 1)
  /\ \A n \in 1..Height : blocks[n].assets # <<>> => CreatedBy(n)
  /\ \A n \in 1..Height : blocks[n].kind = "created" => ~ CreatedBy(n - 1)

ChainKept == BlocksTyped /\ Chronicle /\ Origin

RowsTyped ==
  /\ done \in 0..Height
  /\ basket \in [known : BOOLEAN, read : 0..Height, count : 0..MaxAssets, deposits : Nat]
  /\ position \in [User -> Nat]
  /\ snapshot \in [Day -> 0..Height]
  /\ rows \in [Place -> [asset : Asset \cup {NoAsset}, active : BOOLEAN]]
  /\ member \subseteq Asset
  /\ protocol \in BOOLEAN /\ vstate \in [known : BOOLEAN, paused : BOOLEAN]
  /\ sync \in [at : 0..MaxAssets, count : 0..MaxAssets] /\ (Idle \/ sync.at < sync.count)
  /\ starts \in 1..MaxStarts /\ missed \in BOOLEAN /\ lagged \in BOOLEAN

\* A basket whose creation was handled has a row, and only such a basket has
\* assets listed or being read.
Known ==
  /\ CreatedBy(done) => basket.known
  /\ member # {} => basket.known
  /\ ~ Idle => basket.known

\* No change of the list is on the chain that is not handled yet.
Settled == \A m \in (done + 1)..Height : blocks[m].kind # "assets"

\* The places of the head's list which the reading has passed have their rows.
Covered ==
  ~ missed /\ basket.known /\ Settled =>
    /\ ~ Idle => sync.count = Len(Chain.assets)
    /\ \A i \in 1..Len(Chain.assets) :
         Idle \/ i <= sync.at =>
           rows[i - 1] = [asset |-> Chain.assets[i], active |-> TRUE] /\ Chain.assets[i] \in member

\* The rows are the list up to the place "n", and nothing else.
RowsUpTo(list, n) ==
  /\ \A i \in Place : rows[i].active <=> i < n
  /\ \A i \in Place : i < n => rows[i].asset = list[i + 1]
  /\ member = {list[j] : j \in 1..n}

\* With a handler that always found its own block at the head, the rows are
\* those of the list at the last event handled.
InStep ==
  ~ missed /\ ~ lagged =>
    /\ basket.count = Len(At(done).assets)
    /\ Idle => RowsUpTo(At(done).assets, Len(At(done).assets))
    /\ ~ Idle => /\ done = Height /\ sync.count = Len(At(done).assets)
                 /\ RowsUpTo(At(done).assets, sync.at)

\* What was handled is shown; a price that was passed over is that of an asset
\* which a later event takes off the list.
Fresh ==
  ~ missed => \A n \in 1..done :
    /\ blocks[n].kind \in {"created", "deposit", "redeem", "assets", "account"} => basket.read >= n
    /\ blocks[n].kind = "price" /\ blocks[n].asset \in Range(blocks[n].assets) =>
         basket.read >= n \/ \E k \in (n + 1)..Height : blocks[k].kind = "assets"

RelaysTyped ==
  /\ epochs \in Seq(SUBSET Selector) /\ Len(epochs) <= MaxEpoch
  /\ posted \in [Relay -> Seq(Nat)] /\ handled \in [Relay -> Nat]
  /\ \A r \in Relay : /\ Len(posted[r]) <= Shown(r) /\ Shown(r) <= Len(epochs)
                      /\ handled[r] <= Len(posted[r])
  /\ pool \in [Selector -> 0..Len(epochs)]

IndexerInv ==
  /\ ChainKept /\ RowsTyped /\ Known /\ HistoryExact /\ Covered /\ InStep /\ Fresh
  /\ RelaysTyped /\ PoolConverges


-----------------------------------------------------------------------------
(* The chain.                                                              *)

LEMMA BoundsNat == {MaxAssets, MaxBlock, MaxEpoch, MaxStarts} \subseteq Nat
  BY IndexerConstants

LEMMA GenesisTyped == Genesis \in Block
<1>1. 1 \in Day /\ <<>> \in Seq(Asset) /\ [u \in User |-> 0] \in [User -> Nat]
  BY IndexerConstants
<1> QED
  BY <1>1 DEF Genesis, Block

LEMMA AtTyped ==
  ASSUME BlocksTyped
  PROVE  /\ Height \in Nat
         /\ \A n \in 0..Height : At(n) \in Block /\ Len(At(n).assets) <= MaxAssets
         /\ \A n \in 1..Height : At(n) = blocks[n] /\ blocks[n] \in Block
<1>1. Height \in Nat /\ \A n \in 1..Height : blocks[n] \in Block
  BY DEF BlocksTyped, Height
<1>2. \A n \in 1..Height : At(n) = blocks[n]
  BY <1>1 DEF At
<1>3. At(0) = Genesis
  BY DEF At
<1>4. Genesis.assets = <<>>
  BY DEF Genesis
<1>5. Len(Genesis.assets) <= MaxAssets
  BY <1>4, BoundsNat
<1> QED
  BY <1>1, <1>2, <1>3, <1>5, GenesisTyped DEF BlocksTyped

\* A block more leaves those before it as they were.
LEMMA Appended ==
  ASSUME blocks \in Seq(Block), NEW b \in Block, blocks' = Append(blocks, b)
  PROVE  /\ blocks' \in Seq(Block) /\ Height' = Height + 1 /\ Chain' = b
         /\ blocks'[Height + 1] = b
         /\ \A n \in 1..Height : blocks'[n] = blocks[n]
         /\ \A n \in 0..Height : At(n)' = At(n)
<1>1. Len(blocks) \in Nat /\ blocks' \in Seq(Block) /\ Len(blocks') = Len(blocks) + 1
  OBVIOUS
<1>2. blocks'[Len(blocks) + 1] = b /\ \A n \in 1..Len(blocks) : blocks'[n] = blocks[n]
  OBVIOUS
<1>3. Chain' = b
  BY <1>1, <1>2 DEF Chain, At, Height
<1>4. \A n \in 0..Len(blocks) : At(n)' = At(n)
  BY <1>1, <1>2 DEF At
<1> QED
  BY <1>1, <1>2, <1>3, <1>4 DEF Height

\* A step of the chain: one block more, and nothing that the indexer keeps.
Mined(b) ==
  /\ blocks' = Append(blocks, b) /\ Height < MaxBlock
  /\ lagged' = (lagged \/ ~ Idle)
  /\ moved \subseteq moved' /\ moved' \subseteq User
  /\ UNCHANGED <<done, vault, starts, missed, keeper, routing>>

Sound(b) ==
  /\ Len(b.assets) <= MaxAssets /\ Follows(b, Chain, moved')
  /\ b.kind \in OfVault => Exists
  /\ b.assets # <<>> => Exists
  /\ b.kind = "created" => ~ Exists

LEMMA ExistsCreated ==
  ASSUME BlocksTyped
  PROVE  Exists <=> CreatedBy(Height)
  BY DEF Exists, CreatedBy, Height, BlocksTyped

LEMMA ListsTyped ==
  ASSUME NEW list \in AssetLists
  PROVE  list \in Seq(Asset) /\ Len(list) <= MaxAssets
<1>1. PICK n \in 1..MaxAssets : list \in [1..n -> Asset]
  BY DEF AssetLists
<1>2. list \in Seq(Asset) /\ Len(list) = n
  BY <1>1, BoundsNat
<1> QED
  BY <1>1, <1>2, BoundsNat

\* The day is the miner's; the rest of the block is the operation's.
LEMMA MineSound ==
  ASSUME NEW b \in Block, Mine(b), moved \subseteq moved', moved' \subseteq User, Sound(b)
  PROVE  \E c \in Block : Mined(c) /\ Sound(c)
<1>1. PICK d \in Day : blocks' = Append(blocks, [b EXCEPT !.day = d])
  BY DEF Mine
<1> DEFINE c == [b EXCEPT !.day = d]
<1>2. /\ c \in Block /\ c.kind = b.kind /\ c.user = b.user /\ c.assets = b.assets
      /\ c.held = b.held
  BY DEF Block
<1>3. Mined(c)
  BY <1>1 DEF Mine, Mined
<1>4. Sound(c)
  BY <1>2 DEF Sound, Follows
<1> QED
  BY <1>2, <1>3, <1>4


LEMMA ChainStepMines ==
  ASSUME ChainKept, ChainStep
  PROVE  \E b \in Block : Mined(b) /\ Sound(b)
<1> DEFINE p == Chain
<1>1. /\ p \in Block /\ Len(p.assets) <= MaxAssets /\ p.held \in [User -> Nat]
      /\ p.assets \in Seq(Asset) /\ moved \subseteq User
  BY AtTyped DEF ChainKept, BlocksTyped, Chain, Block
<1>2. p.assets # <<>> => Exists
  <2>1. Height = 0 => p.assets = <<>>
    BY DEF Chain, At, Genesis
  <2>2. Height # 0 => Height \in 1..Height /\ p = blocks[Height]
    BY AtTyped DEF ChainKept, Chain
  <2> QED
    BY <2>1, <2>2, ExistsCreated DEF ChainKept, Origin
<1>3. ASSUME NEW k \in EventKind
      PROVE  /\ Event(k) \in Block /\ Event(k).kind = k /\ Event(k).assets = p.assets
             /\ Event(k).held = p.held
  BY <1>1, <1>3 DEF Event, Block
<1>4. CASE Create
  <2>1. Sound(Event("created"))
    BY <1>1, <1>2, <1>3, <1>4 DEF Sound, Follows, Create, EventKind, OfVault
  <2> QED
    BY <1>1, <1>3, <1>4, <2>1, MineSound DEF Create, EventKind
<1>5. CASE SetPaused
  <2> DEFINE b == [Event("paused") EXCEPT !.paused = ~ @]
  <2>1. b \in Block /\ b.kind = "paused" /\ b.assets = p.assets /\ b.held = p.held
    <3>1. Event("paused") \in Block /\ Event("paused").paused \in BOOLEAN
      BY <1>3 DEF EventKind, Block
    <3> QED
      BY <1>3, <3>1 DEF Block, EventKind
  <2>2. Sound(b)
    BY <1>1, <1>2, <2>1 DEF Sound, Follows, OfVault
  <2> QED
    BY <1>1, <1>5, <2>1, <2>2, MineSound DEF SetPaused
<1>6. CASE Account
  <2>1. Sound(Event("account"))
    BY <1>1, <1>2, <1>3, <1>6 DEF Sound, Follows, Account, EventKind, OfVault
  <2> QED
    BY <1>1, <1>3, <1>6, <2>1, MineSound DEF Account, EventKind
<1>7. ASSUME NEW u \in User, Deposit(u)
      PROVE  \E b \in Block : Mined(b) /\ Sound(b)
  <2> DEFINE b == [Event("deposit") EXCEPT !.user = u, !.held[u] = @ + 1]
  <2>1. [p.held EXCEPT ![u] = @ + 1] \in [User -> Nat]
    BY <1>1
  <2>2. /\ b \in Block /\ b.kind = "deposit" /\ b.user = u /\ b.assets = p.assets
        /\ b.held = [p.held EXCEPT ![u] = @ + 1]
    BY <1>3, <2>1 DEF Block, EventKind
  <2>3. Sound(b)
    BY <1>1, <1>7, <2>2 DEF Sound, Follows, OfVault, Deposit
  <2> QED
    BY <1>1, <1>7, <2>2, <2>3, MineSound DEF Deposit
<1>8. ASSUME NEW u \in User, Redeem(u)
      PROVE  \E b \in Block : Mined(b) /\ Sound(b)
  <2> DEFINE b == [Event("redeem") EXCEPT !.user = u, !.held[u] = @ - 1]
  <2>1. p.held[u] > 0 /\ [p.held EXCEPT ![u] = @ - 1] \in [User -> Nat]
    BY <1>1, <1>8 DEF Redeem
  <2>2. /\ b \in Block /\ b.kind = "redeem" /\ b.user = u /\ b.assets = p.assets
        /\ b.held = [p.held EXCEPT ![u] = @ - 1]
    BY <1>3, <2>1 DEF Block, EventKind
  <2>3. Sound(b)
    BY <1>1, <1>8, <2>1, <2>2 DEF Sound, Follows, OfVault, Redeem
  <2> QED
    BY <1>1, <1>8, <2>2, <2>3, MineSound DEF Redeem
<1>9. ASSUME NEW u \in User, NEW held \in [User -> Nat], Move(u, held)
      PROVE  \E b \in Block : Mined(b) /\ Sound(b)
  <2> DEFINE b == [Event("quiet") EXCEPT !.held = held]
  <2>1. b \in Block /\ b.kind = "quiet" /\ b.assets = p.assets /\ b.held = held
    BY <1>3 DEF Block, EventKind
  <2>2. /\ moved \subseteq moved' /\ moved' \subseteq User
        /\ \A v \in User \ moved' : held[v] = p.held[v]
    BY <1>1, <1>9 DEF Move
  <2>3. Sound(b)
    BY <1>1, <1>9, <2>1, <2>2 DEF Sound, Follows, OfVault, Move
  <2> QED
    BY <1>1, <1>9, <2>1, <2>2, <2>3, MineSound DEF Move
<1>10. ASSUME NEW u \in User, Transfer(u)
       PROVE  \E b \in Block : Mined(b) /\ Sound(b)
  <2>1. CASE Move(u, [p.held EXCEPT ![u] = @ - 1])
    <3>1. p.held[u] > 0 /\ [p.held EXCEPT ![u] = @ - 1] \in [User -> Nat]
      BY <1>1, <2>1 DEF Move
    <3> QED
      BY <1>9, <2>1, <3>1
  <2>2. ASSUME NEW v \in User \ {u}, Move(u, [p.held EXCEPT ![u] = @ - 1, ![v] = @ + 1])
        PROVE  \E b \in Block : Mined(b) /\ Sound(b)
    <3>1. p.held[u] > 0 /\ [p.held EXCEPT ![u] = @ - 1] \in [User -> Nat]
      BY <1>1, <2>2 DEF Move
    <3>2. [p.held EXCEPT ![u] = @ - 1, ![v] = @ + 1] \in [User -> Nat]
      BY <1>1, <3>1
    <3> QED
      BY <1>9, <2>2, <3>2
  <2> QED
    BY <1>10, <2>1, <2>2 DEF Transfer
<1>11. ASSUME NEW list \in AssetLists, SetAssets(list)
       PROVE  \E b \in Block : Mined(b) /\ Sound(b)
  <2> DEFINE b == [Event("assets") EXCEPT !.assets = list]
  <2>1. b \in Block /\ b.kind = "assets" /\ b.assets = list /\ b.held = p.held
    BY <1>3, ListsTyped DEF Block, EventKind
  <2>2. Sound(b)
    BY <1>1, <1>11, <2>1, ListsTyped DEF Sound, Follows, OfVault, SetAssets
  <2> QED
    BY <1>1, <1>11, <2>1, <2>2, MineSound DEF SetAssets
<1>12. ASSUME NEW a \in Asset, Price(a)
       PROVE  \E b \in Block : Mined(b) /\ Sound(b)
  <2> DEFINE b == [Event("price") EXCEPT !.asset = a]
  <2>1. b \in Block /\ b.kind = "price" /\ b.assets = p.assets /\ b.held = p.held
    BY <1>3 DEF Block, EventKind
  <2>2. Sound(b)
    BY <1>1, <1>2, <2>1 DEF Sound, Follows, OfVault
  <2> QED
    BY <1>1, <1>12, <2>1, <2>2, MineSound DEF Price
<1> QED
  BY <1>4, <1>5, <1>6, <1>7, <1>8, <1>10, <1>11, <1>12 DEF ChainStep


LEMMA ChainKeptMined ==
  ASSUME ChainKept, NEW b \in Block, Mined(b), Sound(b)
  PROVE  ChainKept'
<1>1. /\ blocks' \in Seq(Block) /\ Height' = Height + 1 /\ Chain' = b
      /\ blocks'[Height + 1] = b
      /\ \A n \in 1..Height : blocks'[n] = blocks[n]
      /\ \A n \in 0..Height : At(n)' = At(n)
  BY Appended DEF ChainKept, BlocksTyped, Mined
<1>2. Height \in Nat /\ Height < MaxBlock /\ MaxBlock \in Nat
  BY AtTyped, BoundsNat DEF ChainKept, Mined
<1>3. PICK h \in Nat : h = Height
  BY <1>2
<1>4. \A n \in 1..Height' : n \in 1..h \/ n = h + 1
  BY <1>1, <1>3
<1>5. BlocksTyped'
  <2>1. \A n \in 1..Height' : Len(blocks'[n].assets) <= MaxAssets
    BY <1>1, <1>3, <1>4 DEF ChainKept, BlocksTyped, Sound
  <2>2. Height' <= MaxBlock
    BY <1>1, <1>2
  <2> QED
    BY <1>1, <2>1, <2>2 DEF BlocksTyped, Mined
<1>6. Chronicle'
  <2> SUFFICES ASSUME NEW n \in 1..Height' PROVE Follows(blocks'[n], At(n - 1)', moved')
    BY DEF Chronicle
  <2>1. CASE n \in 1..h
    <3>1. Follows(blocks[n], At(n - 1), moved) /\ n - 1 \in 0..Height
      BY <2>1, <1>3 DEF ChainKept, Chronicle
    <3>2. blocks'[n] = blocks[n] /\ At(n - 1)' = At(n - 1)
      BY <2>1, <3>1, <1>1, <1>3
    <3> QED
      BY <3>1, <3>2 DEF Follows, Mined
  <2>2. CASE n = h + 1
    <3>1. At(h)' = At(h) /\ At(h) = Chain /\ n - 1 = h
      BY <2>2, <1>1, <1>3 DEF Chain
    <3> QED
      BY <2>2, <3>1, <1>1, <1>3 DEF Sound
  <2> QED
    BY <1>4, <2>1, <2>2
<1>7. Origin'
  <2>1. \A n \in 0..h : CreatedBy(n)' <=> CreatedBy(n)
    BY <1>1, <1>3 DEF CreatedBy
  <2>2. Exists <=> CreatedBy(h)
    BY <1>3, ExistsCreated DEF ChainKept
  <2>3. CreatedBy(h)' => CreatedBy(h + 1)'
    BY <1>3 DEF CreatedBy
  <2>4. ASSUME NEW n \in 1..Height'
        PROVE  /\ blocks'[n].kind \in OfVault => CreatedBy(n - 1)'
               /\ blocks'[n].assets # <<>> => CreatedBy(n)'
               /\ blocks'[n].kind = "created" => ~ CreatedBy(n - 1)'
    <3>1. CASE n \in 1..h
      <4>1. n - 1 \in 0..h /\ n \in 0..h /\ blocks'[n] = blocks[n] /\ n \in 1..Height
        BY <3>1, <1>1, <1>3
      <4>2. (CreatedBy(n - 1)' <=> CreatedBy(n - 1)) /\ (CreatedBy(n)' <=> CreatedBy(n))
        BY <4>1, <2>1
      <4> QED
        BY <4>1, <4>2 DEF ChainKept, Origin
    <3>2. CASE n = h + 1
      <4>1. n - 1 = h /\ blocks'[n] = b /\ h \in 0..h
        BY <3>2, <1>1, <1>3
      <4> QED
        BY <3>2, <4>1, <2>1, <2>2, <2>3 DEF Sound
    <3> QED
      BY <1>4, <3>1, <3>2
  <2> QED
    BY <2>4 DEF Origin
<1> QED
  BY <1>5, <1>6, <1>7 DEF ChainKept

LEMMA ChainKeptSame ==
  ASSUME ChainKept, UNCHANGED chain
  PROVE  ChainKept'
<1>1. \A n : At(n)' = At(n)
  BY DEF At, chain
<1> QED
  BY <1>1 DEF ChainKept, BlocksTyped, Chronicle, Origin, CreatedBy, Height, chain

-----------------------------------------------------------------------------
(* A step of the chain, and the indexer's rows.                            *)

LEMMA CreatedFound ==
  ASSUME ChainKept
  PROVE  /\ \A n \in 1..Height : blocks[n].kind \in OfVault => CreatedBy(n - 1)
         /\ \A n \in 0..Height : At(n).assets # <<>> => CreatedBy(n)
         /\ \A n \in 0..Height : \A m \in 0..n : CreatedBy(m) => CreatedBy(n)
<1>1. At(0).assets = <<>>
  BY DEF At, Genesis
<1>2. \A n \in 0..Height : \A m \in 0..n : CreatedBy(m) => CreatedBy(n)
  BY AtTyped DEF CreatedBy, ChainKept
<1>3. \A n \in 0..Height : n = 0 \/ (n \in 1..Height /\ At(n) = blocks[n])
  BY AtTyped DEF ChainKept
<1> QED
  BY <1>1, <1>2, <1>3 DEF ChainKept, Origin

LEMMA RowsMined ==
  ASSUME ChainKept, RowsTyped, Known, HistoryExact, Fresh, NEW b \in Block, Mined(b), Sound(b)
  PROVE  RowsTyped' /\ Known' /\ HistoryExact' /\ Fresh'
<1>1. /\ blocks' \in Seq(Block) /\ Height' = Height + 1
      /\ \A n \in 1..Height : blocks'[n] = blocks[n]
      /\ \A n \in 0..Height : At(n)' = At(n)
  BY Appended DEF ChainKept, BlocksTyped, Mined
<1>2. /\ UNCHANGED <<done, basket, position, activity, snapshot, rows, member, protocol,
                     vstate, sync, starts, missed>>
      /\ moved \subseteq moved' /\ lagged' = (lagged \/ ~ Idle)
  BY DEF Mined, vault
<1>3. PICK h \in Nat : h = Height
  BY AtTyped DEF ChainKept
<1>4. PICK k \in Nat : k = done /\ k <= h
  BY <1>3 DEF RowsTyped
<1>5. \A n \in 1..k : n \in 1..Height /\ blocks'[n] = blocks[n]
  BY <1>1, <1>3, <1>4
<1>6. RowsTyped'
  <2>1. 0..h \subseteq 0..(h + 1)
    OBVIOUS
  <2>2. Height' = h + 1
    BY <1>1, <1>3
  <2>3. snapshot' \in [Day -> 0..Height'] /\ done' \in 0..Height'
    BY <1>2, <1>3, <2>1, <2>2 DEF RowsTyped
  <2>4. basket' \in [known : BOOLEAN, read : 0..Height', count : 0..MaxAssets, deposits : Nat]
    BY <1>2, <1>3, <2>1, <2>2 DEF RowsTyped
  <2>5. lagged' \in BOOLEAN
    BY <1>2 DEF RowsTyped
  <2>6. Idle' <=> Idle
    BY <1>2 DEF Idle
  <2> QED
    BY <1>2, <2>3, <2>4, <2>5, <2>6 DEF RowsTyped
<1>7. Known'
  <2>1. CreatedBy(done)' <=> CreatedBy(done)
    BY <1>2, <1>4, <1>5 DEF CreatedBy
  <2>2. Idle' <=> Idle
    BY <1>2 DEF Idle
  <2> QED
    BY <1>2, <2>1, <2>2 DEF Known
<1>8. HistoryExact'
  <2>1. Happened("deposit")' = Happened("deposit")
    BY <1>2, <1>4, <1>5 DEF Happened
  <2>2. At(done)' = At(done)
    <3>1. At(k)' = At(k)
      BY <1>1, <1>3, <1>4
    <3> QED
      BY <3>1, <1>2, <1>4 DEF At
  <2>3. basket'.deposits = Cardinality(Happened("deposit"))'
    BY <1>2, <2>1 DEF HistoryExact
  <2>4. \A u \in User \ moved' : position'[u] = At(done)'.held[u]
    BY <1>2, <2>2 DEF HistoryExact
  <2> QED
    BY <2>3, <2>4 DEF HistoryExact
<1>9. Fresh'
  <2> SUFFICES ASSUME ~ missed, NEW n \in 1..k
               PROVE  /\ blocks[n].kind \in {"created", "deposit", "redeem", "assets", "account"}
                           => basket.read >= n
                      /\ blocks[n].kind = "price" /\ blocks[n].asset \in Range(blocks[n].assets) =>
                           \/ basket.read >= n
                           \/ \E m \in (n + 1)..Height' : blocks'[m].kind = "assets"
    BY <1>2, <1>4, <1>5 DEF Fresh
  <2>1. \A m \in (n + 1)..Height : m \in (n + 1)..Height' /\ blocks'[m] = blocks[m]
    BY <1>1, <1>3
  <2> QED
    BY <1>4, <2>1 DEF Fresh
<1> QED
  BY <1>6, <1>7, <1>8, <1>9


LEMMA CoveredMined ==
  ASSUME ChainKept, RowsTyped, Covered, InStep, NEW b \in Block, Mined(b), Sound(b)
  PROVE  Covered' /\ InStep'
<1>1. /\ Height' = Height + 1 /\ Chain' = b /\ blocks'[Height + 1] = b
      /\ \A n \in 1..Height : blocks'[n] = blocks[n]
      /\ \A n \in 0..Height : At(n)' = At(n)
  BY Appended DEF ChainKept, BlocksTyped, Mined
<1>2. /\ UNCHANGED <<done, basket, rows, member, sync, missed>>
      /\ lagged' = (lagged \/ ~ Idle)
  BY DEF Mined, vault
<1>3. PICK h \in Nat : h = Height
  BY AtTyped DEF ChainKept
<1>4. PICK k \in Nat : k = done /\ k <= h
  BY <1>3 DEF RowsTyped
<1>5. Idle' <=> Idle
  BY <1>2 DEF Idle
<1>6. Covered'
  <2> SUFFICES ASSUME Settled'
               PROVE  Settled /\ Chain'.assets = Chain.assets
    BY <1>2, <1>5 DEF Covered
  <2>1. \A m \in (k + 1)..(h + 1) : blocks'[m].kind # "assets"
    BY <1>1, <1>2, <1>3, <1>4 DEF Settled
  <2>2. h + 1 \in (k + 1)..(h + 1) /\ \A m \in (k + 1)..h : m \in (k + 1)..(h + 1) /\ m \in 1..h
    BY <1>4
  <2>3. b.kind # "assets"
    BY <2>1, <2>2, <1>1, <1>3
  <2>4. Settled
    BY <2>1, <2>2, <1>1, <1>3, <1>4 DEF Settled
  <2> QED
    BY <2>3, <2>4, <1>1 DEF Sound, Follows
<1>7. InStep'
  <2>1. At(k)' = At(k)
    BY <1>1, <1>3, <1>4
  <2>2. At(done)' = At(done)
    BY <2>1, <1>2, <1>4 DEF At
  <2>3. \A list, n : RowsUpTo(list, n)' <=> RowsUpTo(list, n)
    BY <1>2 DEF RowsUpTo
  <2> SUFFICES ASSUME ~ missed, ~ lagged, Idle
               PROVE  /\ basket.count = Len(At(done).assets)
                      /\ RowsUpTo(At(done).assets, Len(At(done).assets))'
    BY <1>2, <1>5, <2>2 DEF InStep
  <2>4. RowsUpTo(At(done).assets, Len(At(done).assets))
    BY DEF InStep
  <2> QED
    BY <2>2, <2>4, <1>2 DEF InStep, RowsUpTo
<1> QED
  BY <1>6, <1>7

-----------------------------------------------------------------------------
(* The handlers.                                                           *)

\* What every handler finds and leaves alone.
Handled(e, ok) ==
  /\ Idle /\ done < Height /\ e = blocks[done + 1] /\ ok \in BOOLEAN
  /\ done' = done + 1 /\ lagged' = (lagged \/ done + 1 < Height)
  /\ UNCHANGED <<chain, starts, keeper, routing>>

Dispatch(e, ok) ==
  \/ e.kind = "created" /\ Created(e, ok)
  \/ e.kind \in {"deposit", "redeem"} /\ Counted(e, ok)
  \/ e.kind = "assets" /\ AssetsUpdated(e, ok)
  \/ e.kind = "paused" /\ PauseToggled(e)
  \/ e.kind = "account" /\ Accounted(e, ok)
  \/ e.kind = "price" /\ PriceUpdated(e, ok)
  \/ e.kind = "quiet" /\ Unseen

LEMMA HandleForm ==
  ASSUME ChainKept, RowsTyped, NEW ok \in BOOLEAN, Handle(ok)
  PROVE  \E e \in Block : Handled(e, ok) /\ Dispatch(e, ok)
<1>1. done + 1 \in 1..Height
  BY AtTyped DEF ChainKept, Handle, RowsTyped
<1>2. blocks[done + 1] \in Block
  BY <1>1, AtTyped DEF ChainKept
<1> QED
  BY <1>2 DEF Handle, Handled, Dispatch

\* The events after which the basket's row is read again.
Refreshes(e) ==
  \/ e.kind \in {"created", "deposit", "redeem", "assets", "account"}
  \/ e.kind = "price" /\ e.asset \in member

BasketStep(e, ok) ==
  /\ basket' \in [known : BOOLEAN, read : 0..Height, count : 0..MaxAssets, deposits : Nat]
  /\ snapshot' \in [Day -> 0..Height]
  /\ Refreshes(e) =>
       /\ basket'.known /\ missed' = (missed \/ ~ ok)
       /\ ok => basket'.read = Height /\ basket'.count = Len(Chain.assets)
       /\ ~ ok => basket'.read = basket.read /\ basket'.count = basket.count
  /\ ~ Refreshes(e) => UNCHANGED <<basket, missed>>
  /\ e.kind = "deposit" => basket'.deposits = basket.deposits + 1
  /\ e.kind # "deposit" => basket'.deposits = basket.deposits

\* The shares counted for a user.
PositionStep(e) ==
  /\ e.kind = "deposit" => position' = [position EXCEPT ![e.user] = @ + 1]
  /\ e.kind = "redeem" =>
       position' = [position EXCEPT ![e.user] = IF @ > 1 THEN @ - 1 ELSE 0]
  /\ e.kind \notin {"deposit", "redeem"} => UNCHANGED position

\* The rows of the assets: cleared for another reading, or left.
AssetsStep(e, ok) ==
  \/ /\ e.kind \in {"created", "assets"}
     /\ ClearAssets(IF e.kind = "created" THEN Refreshed(ok).count ELSE basket.count,
                    Refreshed(ok).count)
  \/ e.kind \notin {"created", "assets"} /\ UNCHANGED <<rows, member, sync>>

LEMMA RefreshedFields ==
  ASSUME ChainKept, RowsTyped, NEW ok \in BOOLEAN
  PROVE  /\ Refreshed(ok) \in [known : BOOLEAN, read : 0..Height, count : 0..MaxAssets,
                               deposits : Nat]
         /\ Refreshed(ok).known /\ Refreshed(ok).deposits = basket.deposits
         /\ ok => Refreshed(ok).read = Height /\ Refreshed(ok).count = Len(Chain.assets)
         /\ ~ ok => Refreshed(ok).read = basket.read /\ Refreshed(ok).count = basket.count
<1>1. Height \in 0..Height /\ Len(Chain.assets) \in 0..MaxAssets
  <2>1. Height \in Nat /\ Height \in 0..Height
    BY AtTyped DEF ChainKept
  <2>2. Chain \in Block /\ Len(Chain.assets) <= MaxAssets
    BY <2>1, AtTyped DEF ChainKept, Chain
  <2>3. Len(Chain.assets) \in Nat
    BY <2>2 DEF Block
  <2> QED
    BY <2>1, <2>2, <2>3, BoundsNat
<1> DEFINE r == IF ok THEN Height ELSE basket.read
           c == IF ok THEN Len(Chain.assets) ELSE basket.count
<1>2. r \in 0..Height /\ c \in 0..MaxAssets
  BY <1>1 DEF RowsTyped
<1>3. Refreshed(ok) = [basket EXCEPT !.known = TRUE, !.read = r, !.count = c]
  BY DEF Refreshed, RowsTyped
<1>4. (ok => r = Height /\ c = Len(Chain.assets)) /\ (~ ok => r = basket.read /\ c = basket.count)
  OBVIOUS
<1> HIDE DEF r, c
<1>5. [basket EXCEPT !.known = TRUE, !.read = r, !.count = c]
        \in [known : BOOLEAN, read : 0..Height, count : 0..MaxAssets, deposits : Nat]
  BY <1>2 DEF RowsTyped
<1>6. /\ Refreshed(ok).known = TRUE /\ Refreshed(ok).deposits = basket.deposits
      /\ Refreshed(ok).read = r /\ Refreshed(ok).count = c
  BY <1>3 DEF RowsTyped
<1> QED
  BY <1>3, <1>4, <1>5, <1>6


LEMMA RefreshStep ==
  ASSUME ChainKept, RowsTyped, NEW ok \in BOOLEAN, NEW e \in Block, Refreshes(e),
         missed' = (missed \/ ~ ok), snapshot' = [snapshot EXCEPT ![e.day] = Refreshed(ok).read],
         basket' = [Refreshed(ok) EXCEPT !.deposits = IF e.kind = "deposit" THEN @ + 1 ELSE @]
  PROVE  BasketStep(e, ok)
<1> DEFINE r == Refreshed(ok)
<1>1. /\ r \in [known : BOOLEAN, read : 0..Height, count : 0..MaxAssets, deposits : Nat]
      /\ r.known /\ r.deposits = basket.deposits
      /\ ok => r.read = Height /\ r.count = Len(Chain.assets)
      /\ ~ ok => r.read = basket.read /\ r.count = basket.count
  BY RefreshedFields
<1>2. PICK d \in Nat : d = IF e.kind = "deposit" THEN r.deposits + 1 ELSE r.deposits
  BY <1>1
<1>3. basket' = [r EXCEPT !.deposits = d]
  BY <1>2
<1>4. snapshot' = [snapshot EXCEPT ![e.day] = r.read]
  OBVIOUS
<1> HIDE DEF r
<1>5. /\ basket' \in [known : BOOLEAN, read : 0..Height, count : 0..MaxAssets, deposits : Nat]
      /\ basket'.known = r.known /\ basket'.read = r.read /\ basket'.count = r.count
      /\ basket'.deposits = d
  BY <1>1, <1>2, <1>3
<1>6. snapshot' \in [Day -> 0..Height]
  BY <1>1, <1>4 DEF RowsTyped
<1> QED
  BY <1>1, <1>2, <1>5, <1>6 DEF BasketStep

LEMMA RefreshPlain ==
  ASSUME ChainKept, RowsTyped, NEW ok \in BOOLEAN, NEW e \in Block, Refreshes(e),
         e.kind # "deposit", Refresh(e, ok)
  PROVE  BasketStep(e, ok)
<1>1. [Refreshed(ok) EXCEPT !.deposits = IF e.kind = "deposit" THEN @ + 1 ELSE @] = Refreshed(ok)
  BY RefreshedFields
<1> QED
  BY <1>1, RefreshStep DEF Refresh

LEMMA DispatchSteps ==
  ASSUME ChainKept, RowsTyped, NEW ok \in BOOLEAN, NEW e \in Block, Dispatch(e, ok)
  PROVE  /\ BasketStep(e, ok) /\ AssetsStep(e, ok) /\ PositionStep(e)
         /\ e.kind # "none"
         /\ protocol' \in BOOLEAN /\ vstate' \in [known : BOOLEAN, paused : BOOLEAN]
<1>1. ASSUME ~ Refreshes(e), e.kind # "deposit", UNCHANGED <<basket, snapshot, missed>>
      PROVE  BasketStep(e, ok)
  BY <1>1 DEF BasketStep, RowsTyped
<1>2. CASE e.kind = "created" /\ Created(e, ok)
  BY <1>2, RefreshPlain DEF Created, AssetsStep, PositionStep, Refreshes, RowsTyped
<1>3. CASE e.kind \in {"deposit", "redeem"} /\ Counted(e, ok)
  <2>1. BasketStep(e, ok)
    BY <1>3, RefreshStep DEF Counted, Refreshes
  <2> QED
    BY <1>3, <2>1 DEF Counted, AssetsStep, PositionStep, NoAssets, RowsTyped
<1>4. CASE e.kind = "assets" /\ AssetsUpdated(e, ok)
  BY <1>4, RefreshPlain DEF AssetsUpdated, AssetsStep, PositionStep, Refreshes, RowsTyped
<1>5. CASE e.kind = "paused" /\ PauseToggled(e)
  BY <1>1, <1>5 DEF PauseToggled, AssetsStep, PositionStep, Refreshes, NoRefresh, NoAssets,
     RowsTyped, Block
<1>6. CASE e.kind = "account" /\ Accounted(e, ok)
  BY <1>6, RefreshPlain DEF Accounted, AssetsStep, PositionStep, Refreshes, NoAssets, RowsTyped
<1>7. CASE e.kind = "price" /\ PriceUpdated(e, ok)
  BY <1>1, <1>7, RefreshPlain DEF PriceUpdated, AssetsStep, PositionStep, Refreshes, NoRefresh,
     NoAssets, RowsTyped
<1>8. CASE e.kind = "quiet" /\ Unseen
  BY <1>1, <1>8 DEF Unseen, AssetsStep, PositionStep, Refreshes, NoRefresh, NoAssets, RowsTyped
<1> QED
  BY <1>2, <1>3, <1>4, <1>5, <1>6, <1>7, <1>8 DEF Dispatch

LEMMA ClearedRows ==
  ASSUME RowsTyped, NEW previous \in 0..MaxAssets, NEW next \in 0..MaxAssets,
         ClearAssets(previous, next)
  PROVE  /\ rows' \in [Place -> [asset : Asset \cup {NoAsset}, active : BOOLEAN]]
         /\ member' \subseteq member
         /\ sync' \in [at : 0..MaxAssets, count : 0..MaxAssets]
         /\ sync'.at = 0 /\ sync'.count = next
         /\ Idle' <=> next = 0
<1> DEFINE gone == Affected(previous, next)
<1>1. /\ member' = member \ {rows[i].asset : i \in gone}
      /\ rows' = [i \in Place |-> IF i \in gone THEN [rows[i] EXCEPT !.active = FALSE] ELSE rows[i]]
      /\ sync' = [at |-> 0, count |-> next]
  BY DEF ClearAssets
<1>2. \A i \in Place : /\ rows[i] \in [asset : Asset \cup {NoAsset}, active : BOOLEAN]
                       /\ [rows[i] EXCEPT !.active = FALSE]
                            \in [asset : Asset \cup {NoAsset}, active : BOOLEAN]
  BY DEF RowsTyped
<1> HIDE DEF gone
<1>3. rows' \in [Place -> [asset : Asset \cup {NoAsset}, active : BOOLEAN]]
  BY <1>1, <1>2
<1>4. Idle' <=> next = 0
  BY <1>1 DEF Idle, NoSync
<1> QED
  BY <1>1, <1>3, <1>4, BoundsNat


\* The present count, and the one of the basket's row, are counts.
LEMMA CountsTyped ==
  ASSUME ChainKept, RowsTyped, NEW ok \in BOOLEAN
  PROVE  basket.count \in 0..MaxAssets /\ Refreshed(ok).count \in 0..MaxAssets
  BY RefreshedFields DEF RowsTyped

LEMMA HandleRows ==
  ASSUME ChainKept, RowsTyped, Known, NEW ok \in BOOLEAN, NEW e \in Block,
         Handled(e, ok), Dispatch(e, ok)
  PROVE  RowsTyped' /\ Known'
<1>1. /\ BasketStep(e, ok) /\ AssetsStep(e, ok) /\ PositionStep(e)
      /\ protocol' \in BOOLEAN /\ vstate' \in [known : BOOLEAN, paused : BOOLEAN]
  BY DispatchSteps
<1>2. PICK h \in Nat : h = Height
  BY AtTyped DEF ChainKept
<1>3. PICK k \in Nat : k = done /\ k < h
  BY <1>2 DEF RowsTyped, Handled
<1>4. Height' = Height /\ blocks' = blocks /\ done' = k + 1
  BY <1>3 DEF Handled, chain, Height
<1>5. /\ rows' \in [Place -> [asset : Asset \cup {NoAsset}, active : BOOLEAN]]
      /\ member' \subseteq member
      /\ sync' \in [at : 0..MaxAssets, count : 0..MaxAssets]
      /\ Idle' \/ sync'.at < sync'.count
      /\ ~ Idle' => e.kind \in {"created", "assets"}
  <2>1. CASE e.kind \in {"created", "assets"}
    <3>1. PICK previous \in 0..MaxAssets, next \in 0..MaxAssets : ClearAssets(previous, next)
      BY <1>1, <2>1, CountsTyped DEF AssetsStep
    <3> QED
      BY <3>1, <2>1, ClearedRows
  <2>2. CASE e.kind \notin {"created", "assets"}
    BY <1>1, <2>2 DEF AssetsStep, RowsTyped, Handled, Idle
  <2> QED
    BY <2>1, <2>2
<1>6. position' \in [User -> Nat]
  <2>1. CASE e.kind = "deposit"
    BY <1>1, <2>1 DEF PositionStep, RowsTyped
  <2>2. CASE e.kind = "redeem"
    <3>1. \A n \in Nat : (IF n > 1 THEN n - 1 ELSE 0) \in Nat
      OBVIOUS
    <3>2. position' = [position EXCEPT ![e.user] = IF @ > 1 THEN @ - 1 ELSE 0]
      BY <1>1, <2>2 DEF PositionStep
    <3> QED
      BY <3>1, <3>2 DEF RowsTyped
  <2> QED
    BY <1>1, <2>1, <2>2 DEF PositionStep, RowsTyped
<1>7. missed' \in BOOLEAN /\ lagged' \in BOOLEAN
  BY <1>1 DEF BasketStep, RowsTyped, Handled
<1>8. RowsTyped'
  <2>1. done' \in 0..Height'
    BY <1>2, <1>3, <1>4
  <2>2. /\ basket' \in [known : BOOLEAN, read : 0..Height', count : 0..MaxAssets, deposits : Nat]
        /\ snapshot' \in [Day -> 0..Height']
    BY <1>1, <1>4 DEF BasketStep
  <2>3. member' \subseteq Asset /\ starts' \in 1..MaxStarts
    BY <1>5 DEF RowsTyped, Handled
  <2> QED
    BY <1>1, <1>5, <1>6, <1>7, <2>1, <2>2, <2>3 DEF RowsTyped
<1>9. k + 1 \in 1..Height /\ e = blocks[k + 1] /\ k + 1 - 1 = k
  BY <1>2, <1>3 DEF Handled
<1>10. e.kind \in OfVault => basket.known
  <2>1. e.kind \in OfVault => CreatedBy(k)
    BY <1>9, CreatedFound
  <2> QED
    BY <2>1, <1>3 DEF Known
<1>11. basket.known => basket'.known
  BY <1>1 DEF BasketStep
<1>12. e.kind = "created" => basket'.known
  BY <1>1 DEF BasketStep, Refreshes
<1>13. Known'
  <2>1. CreatedBy(k + 1) => CreatedBy(k) \/ e.kind = "created"
    BY <1>3, <1>9 DEF CreatedBy
  <2>2. CreatedBy(done)' => CreatedBy(k + 1)
    BY <1>4 DEF CreatedBy
  <2>3. CreatedBy(done)' => basket'.known
    BY <2>1, <2>2, <1>3, <1>11, <1>12 DEF Known
  <2>4. member' # {} => basket'.known
    BY <1>5, <1>11 DEF Known
  <2>5. ~ Idle' => basket'.known
    BY <1>5, <1>10, <1>11, <1>12 DEF OfVault
  <2> QED
    BY <2>3, <2>4, <2>5 DEF Known
<1> QED
  BY <1>8, <1>13

LEMMA HandleHistory ==
  ASSUME ChainKept, RowsTyped, HistoryExact, NEW ok \in BOOLEAN, NEW e \in Block,
         Handled(e, ok), Dispatch(e, ok)
  PROVE  HistoryExact'
<1>1. BasketStep(e, ok) /\ PositionStep(e) /\ e.kind # "none"
  BY DispatchSteps
<1>2. PICK h \in Nat : h = Height
  BY AtTyped DEF ChainKept
<1>3. PICK k \in Nat : k = done /\ k < h
  BY <1>2 DEF RowsTyped, Handled
<1>4. UNCHANGED <<blocks, moved>> /\ done' = k + 1
  BY <1>3 DEF Handled, chain
<1>5. /\ k + 1 \in 1..Height /\ k \in 0..Height /\ k + 1 - 1 = k
      /\ e = blocks[k + 1] /\ At(k + 1) = e
  BY <1>2, <1>3, AtTyped DEF Handled, ChainKept
<1>6. Follows(e, At(k), moved)
  BY <1>5 DEF ChainKept, Chronicle
<1>7. At(done)' = e
  <2>1. At(k + 1)' = At(k + 1)
    BY <1>4 DEF At
  <2> QED
    BY <2>1, <1>4, <1>5 DEF At
<1>8. basket'.deposits = Cardinality(Happened("deposit"))'
  <2> DEFINE D == {n \in 1..k : blocks[n].kind = "deposit"}
  <2>1. basket.deposits = Cardinality(D)
    BY <1>3 DEF HistoryExact, Happened
  <2>2. IsFiniteSet(D) /\ k + 1 \notin D
    <3>1. IsFiniteSet(1..k)
      BY FS_Interval
    <3> QED
      BY <3>1, FS_Subset
  <2>3. Cardinality(D \cup {k + 1}) = Cardinality(D) + 1
    BY <2>2, FS_AddElement
  <2>4. Happened("deposit")' = IF e.kind = "deposit" THEN D \cup {k + 1} ELSE D
    <3>1. Happened("deposit")' = {n \in 1..(k + 1) : blocks[n].kind = "deposit"}
      BY <1>4 DEF Happened
    <3> QED
      BY <3>1, <1>5
  <2> QED
    BY <1>1, <2>1, <2>3, <2>4 DEF BasketStep
<1>9. ASSUME NEW u \in User \ moved
      PROVE  position'[u] = e.held[u]
  <2>1. PICK n \in Nat : n = position[u] /\ n = At(k).held[u]
    BY <1>3 DEF HistoryExact, RowsTyped
  <2>2. At(k).held \in [User -> Nat] /\ position \in [User -> Nat]
    BY <1>5, AtTyped DEF ChainKept, Block, RowsTyped
  <2>3. CASE e.kind = "deposit"
    <3>1. position' = [position EXCEPT ![e.user] = @ + 1]
      BY <1>1, <2>3 DEF PositionStep
    <3>2. e.user \in User /\ e.held = [At(k).held EXCEPT ![e.user] = @ + 1]
      BY <1>6, <2>3 DEF Follows
    <3> QED
      BY <2>1, <2>2, <3>1, <3>2
  <2>4. CASE e.kind = "redeem"
    <3>1. position' = [position EXCEPT ![e.user] = IF @ > 1 THEN @ - 1 ELSE 0]
      BY <1>1, <2>4 DEF PositionStep
    <3>2. /\ e.user \in User /\ At(k).held[e.user] > 0
          /\ e.held = [At(k).held EXCEPT ![e.user] = @ - 1]
      BY <1>6, <2>4 DEF Follows
    <3>3. CASE e.user = u
      <4>1. n > 0 /\ e.held[u] = n - 1
        BY <2>1, <2>2, <3>2, <3>3
      <4>2. position'[u] = IF n > 1 THEN n - 1 ELSE 0
        BY <2>1, <2>2, <3>1, <3>3
      <4> QED
        BY <4>1, <4>2
    <3>4. CASE e.user # u
      BY <2>1, <2>2, <3>1, <3>2, <3>4
    <3> QED
      BY <3>3, <3>4
  <2>5. CASE e.kind \notin {"deposit", "redeem"}
    BY <1>1, <1>6, <2>1, <2>5 DEF PositionStep, Follows
  <2> QED
    BY <2>3, <2>4, <2>5
<1> QED
  BY <1>4, <1>7, <1>8, <1>9 DEF HistoryExact


\* A list that no event changes is the head's list.
LEMMA ListKept ==
  ASSUME ChainKept, NEW k \in 0..Height,
         \A m \in (k + 1)..Height : blocks[m].kind # "assets"
  PROVE  At(Height).assets = At(k).assets
<1> DEFINE Off == {m \in k..Height : At(m).assets # At(k).assets}
<1>1. Height \in Nat /\ Height \in k..Height
  BY AtTyped DEF ChainKept
<1> SUFFICES ASSUME Off # {} PROVE FALSE
  BY <1>1
<1>2. PICK n \in Off : \A m \in Off : n <= m
  <2>1. Off \subseteq Nat
    BY <1>1
  <2> HIDE DEF Off
  <2> QED
    BY <2>1, LeastOf
<1>3. n # k /\ n \in (k + 1)..Height /\ n \in 1..Height /\ n - 1 \in k..Height
  BY <1>1, <1>2
<1>4. At(n - 1).assets = At(k).assets
  BY <1>1, <1>2, <1>3
<1>5. Follows(blocks[n], At(n - 1), moved) /\ At(n) = blocks[n]
  BY <1>3, AtTyped DEF ChainKept, Chronicle
<1> QED
  BY <1>2, <1>3, <1>4, <1>5 DEF Follows

LEMMA HandleFresh ==
  ASSUME ChainKept, RowsTyped, Known, Covered, Fresh, NEW ok \in BOOLEAN, NEW e \in Block,
         Handled(e, ok), Dispatch(e, ok)
  PROVE  Fresh'
<1>1. BasketStep(e, ok)
  BY DispatchSteps
<1>2. PICK h \in Nat : h = Height
  BY AtTyped DEF ChainKept
<1>3. PICK k \in Nat : k = done /\ k < h
  BY <1>2 DEF RowsTyped, Handled
<1>4. blocks' = blocks /\ Height' = Height /\ done' = k + 1
  BY <1>3 DEF Handled, chain, Height
<1>5. k + 1 \in 1..Height /\ e = blocks[k + 1] /\ At(k + 1) = e /\ Chain = At(h)
  BY <1>2, <1>3, AtTyped DEF Handled, ChainKept, Chain
<1> SUFFICES ASSUME ~ missed', NEW n \in 1..(k + 1)
             PROVE  /\ blocks[n].kind \in {"created", "deposit", "redeem", "assets", "account"}
                         => basket'.read >= n
                    /\ blocks[n].kind = "price" /\ blocks[n].asset \in Range(blocks[n].assets) =>
                         \/ basket'.read >= n
                         \/ \E m \in (n + 1)..Height : blocks[m].kind = "assets"
  BY <1>4 DEF Fresh
<1>6. /\ ~ missed /\ (Refreshes(e) => basket'.read = h)
      /\ (~ Refreshes(e) => basket'.read = basket.read)
  BY <1>1, <1>2 DEF BasketStep, RowsTyped
<1>7. basket.read \in 0..h /\ n <= h
  BY <1>2, <1>3 DEF RowsTyped
<1>8. basket'.read >= basket.read
  BY <1>6, <1>7
<1>9. CASE n \in 1..k
  BY <1>3, <1>6, <1>7, <1>8, <1>9 DEF Fresh
<1>10. CASE n = k + 1
  <2>1. CASE Refreshes(e)
    BY <1>6, <1>7, <2>1
  <2>2. ASSUME ~ Refreshes(e), e.kind = "price", e.asset \in Range(e.assets),
               \A m \in (n + 1)..Height : blocks[m].kind # "assets"
        PROVE  FALSE
    <3>1. \A m \in (k + 1)..h : blocks[m].kind # "assets"
      <4>1. \A m \in (k + 1)..h : m = k + 1 \/ m \in (k + 2)..h
        OBVIOUS
      <4> QED
        BY <4>1, <2>2, <1>2, <1>5, <1>10
    <3>2. Chain.assets = e.assets
      <4>1. k + 1 \in 0..Height /\ \A m \in (k + 2)..Height : blocks[m].kind # "assets"
        BY <3>1, <1>2, <1>3, <1>5
      <4>2. At(h).assets = At(k + 1).assets
        BY <4>1, <1>2, ListKept
      <4> QED
        BY <4>2, <1>5
    <3>3. basket.known
      <4>1. e.assets # <<>>
        BY <2>2 DEF Range
      <4>2. k + 1 \in 0..Height
        BY <1>5
      <4>3. CreatedBy(k + 1)
        BY <4>1, <4>2, <1>5, CreatedFound
      <4>4. CreatedBy(k)
        BY <4>3, <1>3, <1>5, <2>2 DEF CreatedBy
      <4> QED
        BY <4>4, <1>3 DEF Known
    <3>4. Settled
      BY <3>1, <1>2, <1>3 DEF Settled
    <3>5. \A i \in 1..Len(e.assets) : e.assets[i] \in member
      BY <3>2, <3>3, <3>4, <1>6 DEF Covered, Handled
    <3>6. e.assets \in Seq(Asset)
      BY DEF Block
    <3> QED
      BY <2>2, <3>5, <3>6 DEF Range, Refreshes
  <2> QED
    BY <1>5, <1>6, <1>7, <1>10, <2>1, <2>2 DEF Refreshes
<1> QED
  BY <1>9, <1>10


LEMMA HandleCovered ==
  ASSUME ChainKept, RowsTyped, Known, Covered, NEW ok \in BOOLEAN, NEW e \in Block,
         Handled(e, ok), Dispatch(e, ok)
  PROVE  Covered'
<1>1. BasketStep(e, ok) /\ AssetsStep(e, ok) /\ e.kind # "none"
  BY DispatchSteps
<1>2. PICK h \in Nat : h = Height
  BY AtTyped DEF ChainKept
<1>3. PICK k \in Nat : k = done /\ k < h
  BY <1>2 DEF RowsTyped, Handled
<1>4. blocks' = blocks /\ Height' = Height /\ Chain' = Chain /\ done' = k + 1
  BY <1>3 DEF Handled, chain, Height, Chain, At
<1>5. k + 1 \in 1..Height /\ e = blocks[k + 1] /\ k + 1 - 1 = k
  BY <1>2, <1>3 DEF Handled
<1> SUFFICES ASSUME ~ missed', basket'.known, Settled'
             PROVE  /\ ~ Idle' => sync'.count = Len(Chain.assets)
                    /\ \A i \in 1..Len(Chain.assets) :
                         Idle' \/ i <= sync'.at =>
                           /\ rows'[i - 1] = [asset |-> Chain.assets[i], active |-> TRUE]
                           /\ Chain.assets[i] \in member'
  BY <1>4 DEF Covered
<1>6. CASE e.kind \in {"created", "assets"}
  <2>1. ok
    BY <1>1, <1>6 DEF BasketStep, Refreshes
  <2>2. Refreshed(ok).count = Len(Chain.assets) /\ Len(Chain.assets) \in 0..MaxAssets
    BY <2>1, RefreshedFields, CountsTyped
  <2>3. PICK previous \in 0..MaxAssets : ClearAssets(previous, Len(Chain.assets))
    BY <1>1, <1>6, <2>2, CountsTyped DEF AssetsStep
  <2>4. sync'.at = 0 /\ sync'.count = Len(Chain.assets) /\ (Idle' <=> Len(Chain.assets) = 0)
    BY <2>2, <2>3, ClearedRows
  <2> QED
    BY <2>2, <2>4
<1>7. CASE e.kind \notin {"created", "assets"}
  <2>1. UNCHANGED <<rows, member, sync>> /\ (Idle' <=> Idle)
    BY <1>1, <1>7 DEF AssetsStep, Idle
  <2>2. ~ missed
    BY <1>1 DEF BasketStep, RowsTyped
  <2>3. Settled
    <3>1. \A m \in (k + 1)..h : m = k + 1 \/ m \in (k + 2)..h
      OBVIOUS
    <3>2. \A m \in (k + 2)..h : blocks[m].kind # "assets"
      BY <1>2, <1>3, <1>4 DEF Settled
    <3> QED
      BY <1>2, <1>3, <1>5, <1>7, <3>1, <3>2 DEF Settled
  <2>4. basket.known
    <3>1. e.kind \in OfVault => CreatedBy(k)
      BY <1>5, CreatedFound
    <3>2. e.kind \in OfVault => basket.known
      BY <3>1, <1>3 DEF Known
    <3>3. Refreshes(e) => basket.known
      BY <1>7, <3>2 DEF Refreshes, OfVault, Known
    <3> QED
      BY <1>1, <3>3 DEF BasketStep
  <2> QED
    BY <2>1, <2>2, <2>3, <2>4 DEF Covered, Handled
<1> QED
  BY <1>6, <1>7

\* When the rows are the list, clearing takes every place of either list.
LEMMA ClearedAll ==
  ASSUME RowsTyped, NEW list \in Seq(Asset), Len(list) <= MaxAssets, RowsUpTo(list, Len(list)),
         NEW next \in 0..MaxAssets, ClearAssets(Len(list), next)
  PROVE  /\ \A i \in Place : ~ rows'[i].active
         /\ member' = {}
<1> DEFINE gone == Affected(Len(list), next)
<1>1. /\ member' = member \ {rows[i].asset : i \in gone}
      /\ rows' = [i \in Place |-> IF i \in gone THEN [rows[i] EXCEPT !.active = FALSE] ELSE rows[i]]
  BY DEF ClearAssets
<1>2. PICK n \in Nat : n = Len(list) /\ n <= MaxAssets
  OBVIOUS
<1>3. gone = {i \in Place : rows[i].active}
  <2>1. \A i \in Place : rows[i].active => i < n
    BY <1>2 DEF RowsUpTo
  <2>2. \A i \in Place : i < n => i < (IF next > n THEN next ELSE n)
    BY <1>2, BoundsNat DEF Place
  <2> QED
    BY <1>2, <2>1, <2>2 DEF Affected
<1>4. \A j \in 1..n : list[j] \in {rows[i].asset : i \in gone}
  <2> SUFFICES ASSUME NEW j \in 1..n PROVE list[j] \in {rows[i].asset : i \in gone}
    OBVIOUS
  <2>1. j - 1 \in Place /\ j - 1 < n /\ j - 1 + 1 = j
    BY <1>2, BoundsNat DEF Place
  <2>2. rows[j - 1].active /\ rows[j - 1].asset = list[j]
    BY <1>2, <2>1 DEF RowsUpTo
  <2> QED
    BY <1>3, <2>1, <2>2
<1>5. member' = {}
  BY <1>1, <1>2, <1>4 DEF RowsUpTo
<1>6. \A i \in Place : ~ rows'[i].active
  <2> SUFFICES ASSUME NEW i \in Place PROVE ~ rows'[i].active
    OBVIOUS
  <2>1. rows[i] \in [asset : Asset \cup {NoAsset}, active : BOOLEAN]
    BY DEF RowsTyped
  <2>2. CASE i \in gone
    <3>1. rows'[i] = [rows[i] EXCEPT !.active = FALSE]
      BY <1>1, <2>2
    <3> QED
      BY <2>1, <3>1
  <2>3. CASE i \notin gone
    BY <1>1, <1>3, <2>3
  <2> QED
    BY <2>2, <2>3
<1> QED
  BY <1>5, <1>6

LEMMA HandleInStep ==
  ASSUME ChainKept, RowsTyped, InStep, NEW ok \in BOOLEAN, NEW e \in Block,
         Handled(e, ok), Dispatch(e, ok)
  PROVE  InStep'
<1>1. BasketStep(e, ok) /\ AssetsStep(e, ok) /\ e.kind # "none"
  BY DispatchSteps
<1>2. PICK h \in Nat : h = Height
  BY AtTyped DEF ChainKept
<1>3. PICK k \in Nat : k = done /\ k < h
  BY <1>2 DEF RowsTyped, Handled
<1> DEFINE old == At(k).assets
           new == Chain.assets
<1> SUFFICES ASSUME ~ missed', ~ lagged' PROVE InStep'
  BY DEF InStep
<1>4. k + 1 = h /\ ~ lagged
  <2>1. lagged' = (lagged \/ done + 1 < Height)
    BY DEF Handled
  <2>2. ~ lagged /\ ~ (done + 1 < Height)
    BY <2>1
  <2> QED
    BY <1>2, <1>3, <2>2
<1>5. /\ k + 1 \in 1..Height /\ k \in 0..Height /\ k + 1 - 1 = k
      /\ e = blocks[k + 1] /\ At(k + 1) = e /\ Chain = e
  BY <1>2, <1>3, <1>4, AtTyped DEF Handled, ChainKept, Chain
<1>6. At(done)'.assets = new /\ done' = Height'
  <2>1. At(k + 1)' = At(k + 1)
    BY DEF Handled, chain, At
  <2>2. done' = k + 1 /\ Height' = Height
    BY <1>3 DEF Handled, chain, Height
  <2> QED
    BY <2>1, <2>2, <1>2, <1>4, <1>5 DEF At
<1>7. /\ old \in Seq(Asset) /\ Len(old) <= MaxAssets /\ new \in Seq(Asset)
      /\ Len(new) \in 0..MaxAssets
  <2>1. At(k) \in Block /\ Len(At(k).assets) <= MaxAssets /\ Len(At(k + 1).assets) <= MaxAssets
    BY <1>5, AtTyped DEF ChainKept
  <2>2. old \in Seq(Asset) /\ new \in Seq(Asset)
    BY <2>1, <1>5 DEF Block
  <2>3. Len(new) \in Nat /\ Len(new) <= MaxAssets
    BY <2>1, <2>2, <1>5
  <2> QED
    BY <2>1, <2>2, <2>3, BoundsNat
<1>8. ~ missed /\ basket.count = Len(old) /\ RowsUpTo(old, Len(old))
  <2>1. ~ missed
    BY <1>1 DEF BasketStep, RowsTyped
  <2> QED
    BY <2>1, <1>3, <1>4 DEF InStep, Handled
<1>9. e.kind # "assets" => new = old
  <2>1. Follows(e, At(k), moved)
    BY <1>5 DEF ChainKept, Chronicle
  <2> QED
    BY <2>1, <1>5 DEF Follows
<1>10. Refreshes(e) => ok /\ basket'.count = Len(new)
  BY <1>1 DEF BasketStep
<1>11. basket'.count = Len(new)
  <2>1. ~ Refreshes(e) => new = old
    BY <1>9 DEF Refreshes
  <2> QED
    BY <2>1, <1>1, <1>8, <1>10 DEF BasketStep
<1>12. CASE e.kind \in {"created", "assets"}
  <2>1. Refreshed(ok).count = Len(new)
    BY <1>10, <1>12, RefreshedFields DEF Refreshes
  <2>2. e.kind = "created" => old = <<>> /\ new = <<>>
    <3>1. e.kind = "created" => ~ CreatedBy(k)
      BY <1>5 DEF ChainKept, Origin
    <3>2. old # <<>> => CreatedBy(k)
      BY <1>5, CreatedFound
    <3> QED
      BY <1>9, <3>1, <3>2
  <2>3. ClearAssets(Len(old), Len(new))
    BY <1>1, <1>8, <1>12, <2>1, <2>2 DEF AssetsStep
  <2>4. (\A i \in Place : ~ rows'[i].active) /\ member' = {}
    BY <1>7, <1>8, <2>3, ClearedAll
  <2>5. sync'.at = 0 /\ sync'.count = Len(new) /\ (Idle' <=> Len(new) = 0)
    <3>1. Len(old) \in 0..MaxAssets
      <4>1. Len(old) \in Nat
        BY <1>7
      <4> QED
        BY <1>7, <4>1, BoundsNat
    <3> QED
      BY <1>7, <2>3, <3>1, ClearedRows
  <2>6. /\ \A i \in Place : rows'[i].active <=> i < 0
        /\ \A i \in Place : i < 0 => rows'[i].asset = new[i + 1]
        /\ member' = {new[j] : j \in 1..0}
    BY <2>4 DEF Place
  <2> QED
    BY <1>6, <1>11, <2>5, <2>6 DEF InStep, RowsUpTo
<1>13. CASE e.kind \notin {"created", "assets"}
  <2>1. UNCHANGED <<rows, member, sync>> /\ (Idle' <=> Idle) /\ new = old
    BY <1>1, <1>9, <1>13 DEF AssetsStep, Idle
  <2> QED
    BY <1>6, <1>8, <1>11, <2>1 DEF InStep, RowsUpTo, Handled
<1> QED
  BY <1>12, <1>13


-----------------------------------------------------------------------------
(* A read of the list, and a new start of the indexer.                     *)

\* The next place, or the end of the list.
LEMMA NextPlaceForm ==
  ASSUME RowsTyped, ~ Idle, NextPlace
  PROVE  /\ sync.at \in Nat /\ sync.count \in Nat /\ sync.at < sync.count /\ sync.at \in Place
         /\ sync' \in [at : 0..MaxAssets, count : 0..MaxAssets]
         /\ Idle' \/ sync'.at < sync'.count
         /\ Idle' => sync.at + 1 = sync.count
         /\ ~ Idle' => sync'.at = sync.at + 1 /\ sync'.count = sync.count
<1>1. PICK s \in 0..MaxAssets, c \in 0..MaxAssets : sync = [at |-> s, count |-> c]
  BY DEF RowsTyped
<1>2. sync.at = s /\ sync.count = c /\ s < c /\ s \in Nat /\ c \in Nat
  BY <1>1, BoundsNat DEF RowsTyped
<1>3. s \in Place /\ s + 1 \in 0..MaxAssets /\ c \in 0..MaxAssets
  BY <1>2, BoundsNat DEF Place
<1>4. CASE s + 1 < c
  <2>1. sync' = [at |-> s + 1, count |-> c]
    BY <1>1, <1>2, <1>4 DEF NextPlace
  <2>2. ~ Idle'
    BY <1>2, <2>1 DEF Idle, NoSync
  <2> QED
    BY <1>2, <1>3, <1>4, <2>1, <2>2
<1>5. CASE ~ (s + 1 < c)
  <2>1. sync' = NoSync /\ Idle'
    BY <1>1, <1>2, <1>5 DEF NextPlace, Idle
  <2>2. s + 1 = c
    BY <1>2, <1>5
  <2> QED
    BY <1>2, <1>3, <2>1, <2>2, BoundsNat DEF NoSync
<1> QED
  BY <1>4, <1>5

LEMMA ReadRows ==
  ASSUME ChainKept, RowsTyped, Known, HistoryExact, Covered, InStep, Fresh, NEW ok \in BOOLEAN,
         ReadAsset(ok)
  PROVE  RowsTyped' /\ Known' /\ HistoryExact' /\ Covered' /\ InStep' /\ Fresh'
<1> DEFINE s == sync.at
           list == Chain.assets
           reads == ok /\ s < Len(list)
<1>1. /\ s \in Nat /\ sync.count \in Nat /\ s < sync.count /\ s \in Place
      /\ sync' \in [at : 0..MaxAssets, count : 0..MaxAssets]
      /\ Idle' \/ sync'.at < sync'.count
      /\ Idle' => s + 1 = sync.count
      /\ ~ Idle' => sync'.at = s + 1 /\ sync'.count = sync.count
  BY NextPlaceForm DEF ReadAsset
<1>2. /\ UNCHANGED <<blocks, moved, done, basket, position, snapshot, protocol, vstate, starts,
                     lagged>>
      /\ Height' = Height /\ Chain' = Chain /\ \A n : At(n)' = At(n)
  BY DEF ReadAsset, chain, Height, Chain, At
<1>3. list \in Seq(Asset) /\ Len(list) \in Nat /\ Height \in Nat
  <2>1. Chain \in Block /\ Height \in Nat
    BY AtTyped DEF ChainKept, Chain
  <2> QED
    BY <2>1 DEF Block
<1>4. reads => /\ rows' = [rows EXCEPT ![s] = [asset |-> list[s + 1], active |-> TRUE]]
               /\ member' = member \cup {list[s + 1]} /\ missed' = missed
  BY DEF ReadAsset, AddAsset
<1>5. ~ reads => UNCHANGED <<rows, member>> /\ missed' = (missed \/ ~ ok)
  BY DEF ReadAsset
<1>6. reads => list[s + 1] \in Asset
  BY <1>1, <1>3
<1>7. ~ missed' => ~ missed /\ ok
  <2>1. CASE reads
    BY <1>4, <2>1
  <2>2. CASE ~ reads
    <3>1. missed' = (missed \/ ~ ok)
      BY <1>5, <2>2
    <3> QED
      BY <3>1
  <2> QED
    BY <2>1, <2>2
<1> HIDE DEF s, list, reads
<1>8. RowsTyped'
  <2>1. rows' \in [Place -> [asset : Asset \cup {NoAsset}, active : BOOLEAN]] /\ member' \subseteq Asset
    <3>1. CASE reads
      <4>1. [asset |-> list[s + 1], active |-> TRUE] \in [asset : Asset \cup {NoAsset}, active : BOOLEAN]
        BY <1>6, <3>1
      <4>2. rows \in [Place -> [asset : Asset \cup {NoAsset}, active : BOOLEAN]]
        BY DEF RowsTyped
      <4>3. rows' \in [Place -> [asset : Asset \cup {NoAsset}, active : BOOLEAN]]
        BY <1>1, <1>4, <3>1, <4>1, <4>2
      <4> QED
        BY <1>4, <1>6, <3>1, <4>3 DEF RowsTyped
    <3>2. CASE ~ reads
      BY <1>5, <3>2 DEF RowsTyped
    <3> QED
      BY <3>1, <3>2
  <2>2. missed' \in BOOLEAN
    BY <1>4, <1>5 DEF RowsTyped
  <2> QED
    BY <1>1, <1>2, <2>1, <2>2 DEF RowsTyped
<1>9. Known'
  <2>1. basket.known /\ basket'.known
    BY <1>2 DEF Known, ReadAsset
  <2> QED
    BY <2>1 DEF Known
<1>10. HistoryExact'
  <2>1. Happened("deposit")' = Happened("deposit")
    BY <1>2 DEF Happened
  <2>2. At(done)' = At(done)
    BY <1>2 DEF At
  <2> QED
    BY <1>2, <2>1, <2>2 DEF HistoryExact
<1>11. Fresh'
  BY <1>2, <1>7 DEF Fresh
<1>12. Covered'
  <2> SUFFICES ASSUME ~ missed', basket'.known, Settled'
               PROVE  /\ ~ Idle' => sync'.count = Len(list)
                      /\ \A i \in 1..Len(list) :
                           Idle' \/ i <= sync'.at =>
                             /\ rows'[i - 1] = [asset |-> list[i], active |-> TRUE]
                             /\ list[i] \in member'
    BY <1>2 DEF Covered, list
  <2>1. Settled
    BY <1>2 DEF Settled
  <2>2. ~ missed /\ basket.known /\ ~ Idle /\ ok
    BY <1>2, <1>7 DEF ReadAsset
  <2>3. /\ sync.count = Len(list)
        /\ \A i \in 1..Len(list) : i <= s => /\ rows[i - 1] = [asset |-> list[i], active |-> TRUE]
                                              /\ list[i] \in member
    BY <2>1, <2>2 DEF Covered, list, s
  <2>4. reads
    BY <1>1, <2>2, <2>3 DEF reads
  <2>5. ASSUME NEW i \in 1..Len(list), i <= s + 1
        PROVE  rows'[i - 1] = [asset |-> list[i], active |-> TRUE] /\ list[i] \in member'
    <3>1. rows \in [Place -> [asset : Asset \cup {NoAsset}, active : BOOLEAN]]
      BY DEF RowsTyped
    <3>2. CASE i = s + 1
      <4>1. i - 1 = s
        BY <1>1, <3>2
      <4>2. rows'[s] = [asset |-> list[s + 1], active |-> TRUE]
        BY <1>1, <1>4, <2>4, <3>1
      <4> QED
        BY <1>4, <2>4, <3>2, <4>1, <4>2
    <3>3. CASE i # s + 1
      <4>1. i <= s /\ i - 1 # s /\ i - 1 \in Place
        BY <1>1, <1>3, <2>5, <3>3, BoundsNat DEF Place
      <4> QED
        BY <1>4, <2>3, <2>4, <3>1, <4>1
    <3> QED
      BY <3>2, <3>3
  <2> QED
    BY <1>1, <1>3, <2>3, <2>5
<1>13. InStep'
  <2> SUFFICES ASSUME ~ missed', ~ lagged' PROVE InStep'
    BY DEF InStep
  <2>1. /\ ~ missed /\ ok /\ ~ lagged /\ done = Height /\ At(done).assets = list
        /\ basket.count = Len(list) /\ sync.count = Len(list) /\ RowsUpTo(list, s)
    BY <1>2, <1>7 DEF InStep, ReadAsset, list, s, Chain
  <2>2. At(done)'.assets = list
    BY <1>2, <2>1 DEF At
  <2>3. reads
    BY <1>1, <2>1 DEF reads
  <2>4. rows \in [Place -> [asset : Asset \cup {NoAsset}, active : BOOLEAN]]
    BY DEF RowsTyped
  <2>5. ASSUME NEW i \in Place
        PROVE  /\ rows'[i].active <=> i < s + 1
               /\ i < s + 1 => rows'[i].asset = list[i + 1]
    <3>1. CASE i = s
      BY <1>1, <1>4, <2>3, <2>4, <3>1
    <3>2. CASE i # s
      <4>1. rows'[i] = rows[i] /\ (i < s + 1 <=> i < s)
        BY <1>1, <1>4, <2>3, <2>4, <3>2 DEF Place
      <4> QED
        BY <2>1, <4>1 DEF RowsUpTo
    <3> QED
      BY <3>1, <3>2
  <2>6. member' = {list[j] : j \in 1..(s + 1)}
    <3>1. 1..(s + 1) = 1..s \cup {s + 1}
      BY <1>1
    <3> QED
      BY <1>4, <2>1, <2>3, <3>1 DEF RowsUpTo
  <2>7. (Idle' => Len(list) = s + 1) /\ (~ Idle' => sync'.at = s + 1)
    BY <1>1, <2>1
  <2>8. done' = Height' /\ basket'.count = Len(list) /\ (~ Idle' => sync'.count = Len(list))
    BY <1>1, <1>2, <2>1
  <2> QED
    BY <2>2, <2>5, <2>6, <2>7, <2>8 DEF InStep, RowsUpTo
<1> QED
  BY <1>8, <1>9, <1>10, <1>11, <1>12, <1>13

\* At a start nothing is handled, and nothing is shown.
StartedAnew ==
  /\ done = 0 /\ basket = NewBasket /\ position = [u \in User |-> 0]
  /\ snapshot = [d \in Day |-> 0] /\ rows = [i \in Place |-> NoRow] /\ member = {}
  /\ protocol = FALSE /\ vstate = [known |-> FALSE, paused |-> FALSE]
  /\ sync = NoSync /\ missed = FALSE /\ lagged = FALSE

LEMMA AnewRows ==
  BlocksTyped /\ starts \in 1..MaxStarts /\ StartedAnew =>
    RowsTyped /\ Known /\ HistoryExact /\ Covered /\ InStep /\ Fresh
<1> SUFFICES ASSUME BlocksTyped, starts \in 1..MaxStarts, StartedAnew
             PROVE  RowsTyped /\ Known /\ HistoryExact /\ Covered /\ InStep /\ Fresh
  OBVIOUS
<1>1. Height \in Nat /\ {MaxAssets, MaxBlock} \subseteq Nat
  BY AtTyped, BoundsNat
<1>2. Idle /\ basket.known = FALSE /\ basket.count = 0 /\ basket.deposits = 0
  BY DEF StartedAnew, Idle, NewBasket
<1>3. RowsTyped
  <2>1. basket \in [known : BOOLEAN, read : 0..Height, count : 0..MaxAssets, deposits : Nat]
    BY <1>1 DEF StartedAnew, NewBasket
  <2>2. rows \in [Place -> [asset : Asset \cup {NoAsset}, active : BOOLEAN]]
    BY DEF StartedAnew, NoRow
  <2>3. sync \in [at : 0..MaxAssets, count : 0..MaxAssets]
    BY <1>1 DEF StartedAnew, NoSync
  <2>4. vstate \in [known : BOOLEAN, paused : BOOLEAN]
    BY DEF StartedAnew
  <2>5. done \in 0..Height /\ snapshot \in [Day -> 0..Height] /\ position \in [User -> Nat]
    BY <1>1 DEF StartedAnew
  <2>6. member \subseteq Asset /\ {protocol, missed, lagged} \subseteq BOOLEAN
    BY DEF StartedAnew
  <2> QED
    BY <1>2, <2>1, <2>2, <2>3, <2>4, <2>5, <2>6 DEF RowsTyped
<1>4. Known
  BY <1>2 DEF Known, CreatedBy, StartedAnew
<1>5. At(done) = Genesis /\ Genesis.assets = <<>> /\ Genesis.held = [u \in User |-> 0]
  BY DEF At, Genesis, StartedAnew
<1>6. HistoryExact
  <2>1. Happened("deposit") = {}
    BY DEF Happened, StartedAnew
  <2> QED
    BY <1>2, <1>5, <2>1, FS_EmptySet DEF HistoryExact, StartedAnew
<1>7. Covered
  BY <1>2 DEF Covered
<1>8. InStep
  <2>1. RowsUpTo(<<>>, 0)
    BY DEF RowsUpTo, StartedAnew, NoRow, Place
  <2>2. Len(<<>>) = 0
    OBVIOUS
  <2> QED
    BY <1>2, <1>5, <2>1, <2>2 DEF InStep
<1>9. Fresh
  BY DEF Fresh, StartedAnew
<1> QED
  BY <1>3, <1>4, <1>6, <1>7, <1>8, <1>9

LEMMA ResyncRows ==
  ASSUME ChainKept, RowsTyped, Resync
  PROVE  /\ ChainKept'
         /\ RowsTyped' /\ Known' /\ HistoryExact' /\ Covered' /\ InStep' /\ Fresh'
<1>1. ChainKept'
  BY ChainKeptSame DEF Resync
<1>2. starts' \in 1..MaxStarts
  <2>1. starts \in Nat /\ starts < MaxStarts /\ starts' = starts + 1 /\ 1 <= starts
    BY BoundsNat DEF RowsTyped, Resync
  <2> QED
    BY <2>1, BoundsNat
<1>3. StartedAnew'
  BY DEF Resync, StartedAnew
<1>4. BlocksTyped'
  BY <1>1 DEF ChainKept
<1>5. (BlocksTyped /\ starts \in 1..MaxStarts /\ StartedAnew =>
         RowsTyped /\ Known /\ HistoryExact /\ Covered /\ InStep /\ Fresh)'
  BY AnewRows, PTL
<1> QED
  BY <1>1, <1>2, <1>3, <1>4, <1>5


-----------------------------------------------------------------------------
(* The relays.                                                             *)

\* A relay shows the last table that reached it.
LEMMA ShownAppend ==
  ASSUME NEW s \in Seq(Nat), NEW e
  PROVE  Append(s, e) # <<>> /\ Last(Append(s, e)) = e /\ Len(Append(s, e)) = Len(s) + 1
<1>1. Len(Append(s, e)) = Len(s) + 1 /\ Append(s, e)[Len(s) + 1] = e
  OBVIOUS
<1> QED
  BY <1>1 DEF Last

LEMMA RelaysKept ==
  ASSUME RelaysTyped, PoolConverges, RoutingStep, missed \in BOOLEAN
  PROVE  RelaysTyped' /\ PoolConverges'
<1>1. PICK n \in Nat : n = Len(epochs)
  BY DEF RelaysTyped
<1>2. /\ \A r \in Relay : /\ posted[r] \in Seq(Nat) /\ handled[r] \in Nat /\ Shown(r) \in Nat
                          /\ Len(posted[r]) \in Nat /\ Shown(r) <= n
                          /\ Len(posted[r]) <= Shown(r) /\ handled[r] <= Len(posted[r])
      /\ DOMAIN epochs = 1..n
  <2> SUFFICES ASSUME NEW r \in Relay PROVE Shown(r) \in Nat
    BY <1>1 DEF RelaysTyped
  <2>1. posted[r] \in Seq(Nat)
    BY DEF RelaysTyped
  <2> QED
    BY <2>1 DEF Shown, Last
<1>3. ASSUME NEW table \in SUBSET Selector \ {{}}, NewEpoch(table)
      PROVE  RelaysTyped' /\ PoolConverges'
  <2>1. /\ epochs' \in Seq(SUBSET Selector) /\ Len(epochs') = n + 1 /\ n + 1 <= MaxEpoch
        /\ \A e \in 1..n : epochs'[e] = epochs[e]
        /\ DOMAIN epochs' = 1..(n + 1)
    BY <1>1, <1>3, BoundsNat DEF NewEpoch, RelaysTyped
  <2>2. UNCHANGED <<posted, handled, pool, missed>> /\ \A r : Shown(r)' = Shown(r)
    BY <1>3 DEF NewEpoch, routing, Shown
  <2>3. RelaysTyped'
    <3>1. \A s \in Selector : pool[s] \in 0..(n + 1)
      BY <1>1 DEF RelaysTyped
    <3>2. pool' \in [Selector -> 0..(n + 1)]
      BY <2>2, <3>1 DEF RelaysTyped
    <3>3. \A r \in Relay : Shown(r) <= n + 1
      BY <1>2
    <3> QED
      BY <1>2, <2>1, <2>2, <3>2, <3>3 DEF RelaysTyped
  <2>4. PoolConverges'
    <3> SUFFICES ASSUME NEW e \in 1..(n + 1), \A r \in Relay : Shown(r) = e /\ handled[r] = Len(posted[r]),
                        ~ missed
                 PROVE  \A s \in epochs'[e] : pool[s] = e
      BY <2>1, <2>2 DEF PoolConverges
    <3>1. PICK r \in Relay : TRUE
      BY IndexerConstants
    <3>2. e \in 1..n /\ epochs'[e] = epochs[e]
      BY <1>2, <2>1, <3>1
    <3> QED
      BY <1>2, <3>2 DEF PoolConverges
  <2> QED
    BY <2>3, <2>4
<1>4. ASSUME NEW r \in Relay, NEW e \in DOMAIN epochs, Post(r, e)
      PROVE  RelaysTyped' /\ PoolConverges'
  <2>1. /\ UNCHANGED <<epochs, handled, pool, missed>>
        /\ posted' = [posted EXCEPT ![r] = Append(@, e)] /\ e > Shown(r)
    BY <1>4 DEF Post, routing
  <2>2. e \in Nat /\ e <= n /\ posted \in [Relay -> Seq(Nat)]
    BY <1>2 DEF RelaysTyped
  <2>3. /\ posted' \in [Relay -> Seq(Nat)] /\ posted'[r] = Append(posted[r], e)
        /\ \A q \in Relay \ {r} : posted'[q] = posted[q]
    BY <2>1, <2>2
  <2>4. /\ Shown(r)' = e /\ Len(posted'[r]) = Len(posted[r]) + 1
        /\ \A q \in Relay \ {r} : Shown(q)' = Shown(q)
    BY <1>2, <2>3, ShownAppend DEF Shown
  <2>5. RelaysTyped'
    <3>1. ASSUME NEW q \in Relay
          PROVE  /\ Len(posted'[q]) <= Shown(q)' /\ Shown(q)' <= n /\ handled[q] <= Len(posted'[q])
      <4>1. CASE q = r
        BY <1>2, <2>1, <2>2, <2>4, <4>1
      <4>2. CASE q # r
        BY <1>2, <2>3, <2>4, <4>2
      <4> QED
        BY <4>1, <4>2
    <3> QED
      BY <1>1, <2>1, <2>3, <3>1 DEF RelaysTyped
  <2>6. handled'[r] # Len(posted'[r])
    BY <1>2, <2>1, <2>4
  <2>7. PoolConverges'
    BY <2>6 DEF PoolConverges
  <2> QED
    BY <2>5, <2>7
<1>5. ASSUME NEW r \in Relay, NEW ok \in BOOLEAN, StateUpdated(r, ok)
      PROVE  RelaysTyped' /\ PoolConverges'
  <2>1. /\ UNCHANGED <<epochs, posted>> /\ \A q : Shown(q)' = Shown(q)
        /\ handled[r] < Len(posted[r]) /\ handled' = [handled EXCEPT ![r] = @ + 1]
    BY <1>5 DEF StateUpdated, keeper, Shown
  <2>2. Shown(r) \in 1..n
    BY <1>2, <2>1
  <2>3. pool \in [Selector -> 0..n] /\ handled \in [Relay -> Nat]
    BY <1>1 DEF RelaysTyped
  <2>4. pool' \in [Selector -> 0..n]
    <3>1. CASE ok
      BY <1>5, <2>2, <2>3, <3>1 DEF StateUpdated, PoolRows
    <3>2. CASE ~ ok
      BY <1>5, <2>3, <3>2 DEF StateUpdated
    <3> QED
      BY <3>1, <3>2
  <2>5. RelaysTyped'
    <3>1. /\ handled' \in [Relay -> Nat]
          /\ \A q \in Relay : handled'[q] <= Len(posted[q])
      BY <1>2, <2>1, <2>3
    <3> QED
      BY <1>1, <2>1, <2>4, <3>1 DEF RelaysTyped
  <2>6. PoolConverges'
    <3> SUFFICES ASSUME NEW e \in 1..n, Shown(r) = e, ~ missed'
                 PROVE  \A s \in epochs[e] : pool'[s] = e
      BY <1>2, <2>1 DEF PoolConverges
    <3>1. ok
      BY <1>5 DEF StateUpdated
    <3>2. epochs[e] \subseteq Selector
      BY <1>1 DEF RelaysTyped
    <3> QED
      BY <1>5, <3>1, <3>2 DEF StateUpdated, PoolRows
  <2> QED
    BY <2>5, <2>6
<1> QED
  BY <1>3, <1>4, <1>5 DEF RoutingStep


\* A step that leaves the rows, and may only miss a read, keeps what is known of them.
LEMMA RowsSame ==
  ASSUME ChainKept, RowsTyped, Known, HistoryExact, Covered, InStep, Fresh,
         UNCHANGED <<chain, done, vault, starts, lagged>>, missed' \in BOOLEAN,
         ~ missed' => ~ missed
  PROVE  /\ ChainKept'
         /\ RowsTyped' /\ Known' /\ HistoryExact' /\ Covered' /\ InStep' /\ Fresh'
<1>1. UNCHANGED <<blocks, moved, done, basket, position, snapshot, rows, member, protocol, vstate,
                  sync, starts, lagged>>
  BY DEF chain, vault
<1>2. /\ Height' = Height /\ Chain' = Chain /\ At(done)' = At(done) /\ (Idle' <=> Idle)
      /\ (Settled' <=> Settled) /\ (CreatedBy(done)' <=> CreatedBy(done))
      /\ Happened("deposit")' = Happened("deposit")
  BY <1>1 DEF Height, Chain, At, Idle, Settled, CreatedBy, Happened
<1>3. ChainKept'
  BY ChainKeptSame
<1>4. RowsTyped'
  BY <1>1, <1>2 DEF RowsTyped
<1>5. Known' /\ HistoryExact'
  BY <1>1, <1>2 DEF Known, HistoryExact
<1>6. Covered'
  BY <1>1, <1>2 DEF Covered
<1>7. InStep'
  BY <1>1, <1>2 DEF InStep, RowsUpTo
<1>8. Fresh'
  BY <1>1, <1>2 DEF Fresh
<1> QED
  BY <1>3, <1>4, <1>5, <1>6, <1>7, <1>8

\* A step of the vault's rows, or a start, keeps what is known of the relays.
LEMMA RelaysSame ==
  ASSUME RelaysTyped, PoolConverges, UNCHANGED <<keeper, routing>>, ~ missed' => ~ missed
  PROVE  RelaysTyped' /\ PoolConverges'
<1>1. UNCHANGED <<epochs, posted, handled, pool>> /\ \A r : Shown(r)' = Shown(r)
  BY DEF keeper, routing, Shown
<1> QED
  BY <1>1 DEF RelaysTyped, PoolConverges

LEMMA RelaysAnew ==
  ASSUME RelaysTyped, UNCHANGED keeper,
         handled' = [r \in Relay |-> 0], pool' = [s \in Selector |-> 0]
  PROVE  RelaysTyped' /\ PoolConverges'
<1>1. UNCHANGED <<epochs, posted>> /\ \A r : Shown(r)' = Shown(r)
  BY DEF keeper, Shown
<1>2. /\ \A r \in Relay : Len(posted[r]) \in Nat /\ (Len(posted[r]) = 0 => Shown(r) = 0)
      /\ Len(epochs) \in Nat /\ DOMAIN epochs = 1..Len(epochs)
  BY DEF RelaysTyped, Shown
<1>3. RelaysTyped'
  BY <1>1, <1>2 DEF RelaysTyped
<1>4. PoolConverges'
  <2>1. PICK r \in Relay : TRUE
    BY IndexerConstants
  <2>2. handled'[r] = Len(posted[r]) => Shown(r) = 0
    BY <1>2
  <2> QED
    BY <1>1, <1>2, <2>2 DEF PoolConverges
<1> QED
  BY <1>3, <1>4

-----------------------------------------------------------------------------
(* The theorems.                                                           *)

LEMMA IndexerInvInit == Init => IndexerInv
<1> SUFFICES ASSUME Init PROVE IndexerInv
  OBVIOUS
<1>1. Height = 0 /\ starts \in 1..MaxStarts
  BY IndexerConstants DEF Init, Height
<1>2. BlocksTyped
  BY <1>1, BoundsNat DEF Init, BlocksTyped, Height
<1>3. ChainKept
  BY <1>1, <1>2 DEF ChainKept, Chronicle, Origin
<1>4. StartedAnew
  BY DEF Init, StartedAnew
<1>5. RowsTyped /\ Known /\ HistoryExact /\ Covered /\ InStep /\ Fresh
  BY <1>1, <1>2, <1>4, AnewRows
<1>6. RelaysTyped
  <2>1. /\ epochs \in Seq(SUBSET Selector) /\ Len(epochs) = 0
        /\ posted \in [Relay -> Seq(Nat)] /\ handled \in [Relay -> Nat]
        /\ pool \in [Selector -> 0..0]
    BY DEF Init
  <2>2. \A r \in Relay : Shown(r) = 0 /\ Len(posted[r]) = 0 /\ handled[r] = 0
    BY DEF Init, Shown
  <2> QED
    BY <2>1, <2>2, BoundsNat DEF RelaysTyped
<1>7. PoolConverges
  BY DEF Init, PoolConverges
<1> QED
  BY <1>3, <1>5, <1>6, <1>7 DEF IndexerInv

LEMMA IndexerInvNext == IndexerInv /\ [Next]_vars => IndexerInv'
<1> SUFFICES ASSUME IndexerInv, [Next]_vars PROVE IndexerInv'
  OBVIOUS
<1> USE DEF IndexerInv
<1>1. missed \in BOOLEAN
  BY DEF RowsTyped
<1>2. CASE ChainStep
  <2>1. PICK b \in Block : Mined(b) /\ Sound(b)
    BY <1>2, ChainStepMines
  <2>2. ChainKept'
    BY <2>1, ChainKeptMined
  <2>3. RowsTyped' /\ Known' /\ HistoryExact' /\ Fresh'
    BY <2>1, RowsMined
  <2>4. Covered' /\ InStep'
    BY <2>1, CoveredMined
  <2>5. RelaysTyped' /\ PoolConverges'
    BY <2>1, RelaysSame DEF Mined
  <2> QED
    BY <2>2, <2>3, <2>4, <2>5
<1>3. CASE RoutingStep
  <2>1. RelaysTyped' /\ PoolConverges'
    BY <1>1, <1>3, RelaysKept
  <2>2. UNCHANGED <<chain, done, vault, starts, lagged>>
    BY <1>3 DEF RoutingStep, NewEpoch, Post, StateUpdated
  <2>3. missed' = missed \/ missed' = TRUE
    BY <1>3 DEF RoutingStep, NewEpoch, Post, StateUpdated
  <2>4. /\ ChainKept'
        /\ RowsTyped' /\ Known' /\ HistoryExact' /\ Covered' /\ InStep' /\ Fresh'
    BY <1>1, <2>2, <2>3, RowsSame
  <2> QED
    BY <2>1, <2>4
<1>4. CASE Resync
  <2>1. /\ ChainKept'
        /\ RowsTyped' /\ Known' /\ HistoryExact' /\ Covered' /\ InStep' /\ Fresh'
    BY <1>4, ResyncRows
  <2>2. RelaysTyped' /\ PoolConverges'
    BY <1>4, RelaysAnew DEF Resync
  <2> QED
    BY <2>1, <2>2
<1>5. ASSUME NEW ok \in BOOLEAN, Handle(ok) PROVE IndexerInv'
  <2>1. PICK e \in Block : Handled(e, ok) /\ Dispatch(e, ok)
    BY <1>5, HandleForm
  <2>2. ChainKept'
    BY <2>1, ChainKeptSame DEF Handled
  <2>3. RowsTyped' /\ Known'
    BY <2>1, HandleRows
  <2>4. HistoryExact'
    BY <2>1, HandleHistory
  <2>5. Covered' /\ Fresh'
    BY <2>1, HandleCovered, HandleFresh
  <2>6. InStep'
    BY <2>1, HandleInStep
  <2>7. ~ missed' => ~ missed
    <3>1. BasketStep(e, ok)
      BY <2>1, DispatchSteps
    <3> QED
      BY <3>1 DEF BasketStep
  <2>8. RelaysTyped' /\ PoolConverges'
    BY <2>1, <2>7, RelaysSame DEF Handled
  <2> QED
    BY <2>2, <2>3, <2>4, <2>5, <2>6, <2>8
<1>6. ASSUME NEW ok \in BOOLEAN, ReadAsset(ok) PROVE IndexerInv'
  <2>1. ChainKept'
    BY <1>6, ChainKeptSame DEF ReadAsset
  <2>2. RowsTyped' /\ Known' /\ HistoryExact' /\ Covered' /\ InStep' /\ Fresh'
    BY <1>6, ReadRows
  <2>3. ~ missed' => ~ missed
    BY <1>6 DEF ReadAsset
  <2>4. RelaysTyped' /\ PoolConverges'
    BY <1>6, <2>3, RelaysSame DEF ReadAsset
  <2> QED
    BY <2>1, <2>2, <2>4
<1>7. CASE UNCHANGED vars
  <2>1. /\ UNCHANGED <<chain, done, vault, starts, lagged>> /\ UNCHANGED <<keeper, routing>>
        /\ missed' = missed
    BY <1>7 DEF vars
  <2> QED
    BY <1>1, <2>1, RowsSame, RelaysSame
<1> QED
  BY <1>2, <1>3, <1>4, <1>5, <1>6, <1>7 DEF Next

LEMMA IndexerAlways == Spec => []IndexerInv
  BY IndexerInvInit, IndexerInvNext, PTL DEF Spec

\* Every row the indexer keeps has its type, a block it shows is one of the
\* chain, and the list being read is never longer than a vault's may be.
THEOREM IndexerTypes == Spec => []TypeOK
<1>1. IndexerInv => TypeOK
  <2> SUFFICES ASSUME IndexerInv PROVE TypeOK
    OBVIOUS
  <2>1. sync.at \in 0..MaxAssets /\ sync.count \in 0..MaxAssets
    BY DEF IndexerInv, RowsTyped
  <2>2. handled \in [Relay -> 0..MaxEpoch]
    <3>1. \A r \in Relay : /\ handled[r] \in Nat /\ Len(posted[r]) \in Nat
                           /\ Shown(r) \in Nat /\ handled[r] <= Len(posted[r])
                           /\ Len(posted[r]) <= Shown(r) /\ Shown(r) <= Len(epochs)
      BY DEF IndexerInv, RelaysTyped, Shown, Last
    <3>2. Len(epochs) \in Nat /\ Len(epochs) <= MaxEpoch /\ MaxEpoch \in Nat
      BY BoundsNat DEF IndexerInv, RelaysTyped
    <3>3. \A r \in Relay : handled[r] \in 0..MaxEpoch
      BY <3>1, <3>2
    <3> QED
      BY <3>3 DEF IndexerInv, RelaysTyped
  <2> QED
    BY <2>1, <2>2 DEF IndexerInv, ChainKept, BlocksTyped, RowsTyped, RelaysTyped, TypeOK
<1> QED
  BY <1>1, IndexerAlways, PTL

\* The handlers read the contracts at the head and learn of events later, one
\* by one, and may start over: the deposits and balances are those of the last
\* event handled, and once all is handled and read the rows of the assets are
\* those of the vault's list.
THEOREM RowsAreExact == Spec => []RowsExact
<1>1. IndexerInv => RowsExact
  <2> SUFFICES ASSUME IndexerInv PROVE RowsExact
    OBVIOUS
  <2>1. PICK h \in Nat : h = Height
    BY AtTyped DEF IndexerInv, ChainKept
  <2>2. Chain.assets \in Seq(Asset) /\ DOMAIN Chain.assets = 1..Len(Chain.assets)
    <3>1. Chain \in Block
      BY <2>1, AtTyped DEF IndexerInv, ChainKept, Chain
    <3> QED
      BY <3>1 DEF Block
  <2>3. CaughtUp => Settled
    BY <2>1 DEF CaughtUp, Settled
  <2>4. AssetsCovered
    BY <2>2, <2>3 DEF IndexerInv, Covered, AssetsCovered, CaughtUp
  <2>5. AssetsExactInStep
    <3> SUFFICES ASSUME CaughtUp, ~ missed, ~ lagged
                 PROVE  /\ \A i \in Place : rows[i].active => i < Len(Chain.assets)
                        /\ member = {Chain.assets[i] : i \in DOMAIN Chain.assets}
      BY DEF AssetsExactInStep
    <3>1. RowsUpTo(Chain.assets, Len(Chain.assets))
      BY DEF IndexerInv, InStep, CaughtUp, Chain
    <3> QED
      BY <2>2, <3>1 DEF RowsUpTo
  <2> QED
    BY <2>4, <2>5 DEF RowsExact, IndexerInv
<1> QED
  BY <1>1, IndexerAlways, PTL

\* Which handlers read the basket again, and which price finds it, follows from
\* rows that are themselves read late; still the basket shows a block no older
\* than the last that touched it.
THEOREM BasketIsFresh == Spec => []BasketFresh
<1>1. IndexerInv => BasketFresh
  <2> SUFFICES ASSUME IndexerInv, CaughtUp, ~ missed, NEW n \in Touching
               PROVE  basket.read >= n
    BY DEF BasketFresh
  <2>1. PICK h \in Nat : h = Height /\ h = done
    BY AtTyped DEF IndexerInv, ChainKept, CaughtUp
  <2>2. n \in 1..h /\ basket.read \in Nat
    BY <2>1 DEF Touching, IndexerInv, RowsTyped
  <2>3. /\ blocks[n].kind \in {"created", "deposit", "redeem", "assets", "account"}
             => basket.read >= n
        /\ blocks[n].kind = "price" /\ blocks[n].asset \in Range(blocks[n].assets) =>
             basket.read >= n \/ \E k \in (n + 1)..h : blocks[k].kind = "assets"
    BY <2>1, <2>2 DEF IndexerInv, Fresh
  <2>4. ASSUME NEW k \in (n + 1)..h, blocks[k].kind = "assets"
        PROVE  basket.read >= n
    <3>1. k \in 1..done /\ k >= n
      BY <2>1, <2>2
    <3>2. basket.read >= k
      BY <2>4, <3>1 DEF IndexerInv, Fresh
    <3> QED
      BY <2>2, <3>1, <3>2
  <2> QED
    BY <2>3, <2>4 DEF Touching
<1> QED
  BY <1>1, IndexerAlways, PTL

\* However the tables reach the relays, and in whatever order their updates are
\* handled: once every relay shows the same table and nothing that was posted
\* waits, the rows of the chains in that table are from it.
THEOREM PoolsConverge == Spec => []PoolConverges
<1>1. IndexerInv => PoolConverges
  BY DEF IndexerInv
<1> QED
  BY <1>1, IndexerAlways, PTL
=============================================================================
