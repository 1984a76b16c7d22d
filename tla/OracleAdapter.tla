--------------------------- MODULE OracleAdapter ---------------------------
(***************************************************************************)
(* The settings half of src/src/perp/OracleAdapter.sol, one adapter per    *)
(* chain: which assets there are, with what parameters and which local     *)
(* feed, and the hash by which chains compare their settings.              *)
(*                                                                         *)
(* What configureAsset stores beside the feed (kind, staleness threshold,  *)
(* deviation limit, decimals) is one member of Params.  The hash is an XOR *)
(* of one keccak256 per active asset: as those do not collide, it tells    *)
(* sets of <<symbol, params>> apart and is modelled as that set, a term    *)
(* put in twice being gone.  The canonical receiver is the chain's quorum, *)
(* which is no wirer.  Prices, their keepers and reads are left out.       *)
(***************************************************************************)
EXTENDS Naturals, Sequences, FiniteSets

CONSTANTS
  Chain,
  Symbol,      \* assets; an asset id is the hash of its symbol
  Params,      \* what a configuration says, but for the feed
  Feed,        \* addresses of price feeds
  NoFeed,      \* address(0)
  MaxListed    \* bound of the model: entries of an asset list

ASSUME AdapterConstants ==
  /\ IsFiniteSet(Chain) /\ NoFeed \notin Feed /\ MaxListed \in Nat

VARIABLES
  config,          \* _assetConfigs, per chain
  configHash,
  assetList,
  canonicalMode    \* configureAsset is for the quorum of the chain alone

adapter == <<config, configHash, assetList, canonicalMode>>

AdapterInit ==
  \E p \in Params :
    /\ config = [c \in Chain |->
                  [s \in Symbol |-> [params |-> p, feed |-> NoFeed, active |-> FALSE]]]
    /\ configHash = [c \in Chain |-> {}]
    /\ assetList = [c \in Chain |-> <<>>]
    /\ canonicalMode = [c \in Chain |-> FALSE]

-----------------------------------------------------------------------------

\* configHash ^= _assetHash(..): the feed has no part in it.
AssetHash(s, cfg) == {<<s, cfg.params>>}
Xor(a, b) == (a \ b) \cup (b \ a)
\* Mutation: the old term is taken out of no asset.
XorNew(hash, s, old, new) == Xor(hash, AssetHash(s, new))
Rehashed(hash, s, old, new) ==
  IF old.active THEN Xor(Xor(hash, AssetHash(s, old)), AssetHash(s, new))
                ELSE Xor(hash, AssetHash(s, new))

\* Who may configure: the quorum in canonical mode, the owner and the wirers
\* otherwise.
Authorised(c, caller) == caller = IF canonicalMode[c] THEN "quorum" ELSE "admin"

configureAsset(c, caller, s, feed, p) ==
  LET old == config[c][s]
      new == [params |-> p, feed |-> feed, active |-> TRUE]
  IN /\ Authorised(c, caller)
     /\ config' = [config EXCEPT ![c][s] = new]
     /\ configHash' = [configHash EXCEPT ![c] = Rehashed(@, s, old, new)]
     /\ assetList' = IF old.active THEN assetList
                     ELSE [assetList EXCEPT ![c] = Append(@, s)]
     /\ Len(assetList'[c]) <= MaxListed
     /\ UNCHANGED canonicalMode

deactivateAsset(c, s) ==
  /\ config[c][s].active
  /\ configHash' = [configHash EXCEPT ![c] = Xor(@, AssetHash(s, config[c][s]))]
  /\ config' = [config EXCEPT ![c][s] =
                  [params |-> config[c][s].params, feed |-> config[c][s].feed, active |-> FALSE]]
  /\ UNCHANGED <<assetList, canonicalMode>>

setLocalFeedAddress(c, s, feed) ==
  /\ config[c][s].active
  /\ configHash' = [configHash EXCEPT ![c] =
                      Xor(Xor(@, AssetHash(s, config[c][s])), AssetHash(s, config[c][s]))]
  /\ config' = [config EXCEPT ![c][s] =
                  [params |-> config[c][s].params, feed |-> feed, active |-> TRUE]]
  /\ UNCHANGED <<assetList, canonicalMode>>

setCanonicalMode(c, on) ==
  /\ canonicalMode' = [canonicalMode EXCEPT ![c] = on]
  /\ UNCHANGED <<config, configHash, assetList>>

-----------------------------------------------------------------------------
(* Properties.                                                             *)

AdapterTypeOK ==
  /\ config \in [Chain -> [Symbol ->
        [params : Params, feed : Feed \cup {NoFeed}, active : BOOLEAN]]]
  /\ configHash \in [Chain -> SUBSET (Symbol \X Params)]
  /\ assetList \in [Chain -> Seq(Symbol)]
  /\ canonicalMode \in [Chain -> BOOLEAN]

Active(c) == {s \in Symbol : config[c][s].active}

\* The hash by which chains compare their settings is that of the active
\* assets, whatever was configured, deactivated, configured again and given
\* other feeds, in any order: no term of an old configuration stays behind and
\* none cancels another's.
HashExact == \A c \in Chain : configHash[c] = {<<s, config[c][s].params>> : s \in Active(c)}

\* Every active asset is in the list that hasBrokenFeeds and PriceSync go
\* through, though a deactivated one keeps its place.
ActiveListed == \A c \in Chain : \A s \in Active(c) : \E i \in DOMAIN assetList[c] : assetList[c][i] = s

AdapterExact == HashExact /\ ActiveListed
=============================================================================
