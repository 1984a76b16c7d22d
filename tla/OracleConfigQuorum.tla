------------------------- MODULE OracleConfigQuorum -------------------------
(***************************************************************************)
(* src/src/coordination/OracleConfigQuorum.sol on several chains: an owner *)
(* proposes settings of an asset, which is its chain's vote, the vote goes *)
(* to the peers over CCIP, and each chain applies what enough of the votes *)
(* it holds agree on.                                                      *)
(*                                                                         *)
(* CCIP (external) executes the messages of a lane in the order they were  *)
(* sent; one whose execution reverts is put aside, and whoever likes may   *)
(* execute it later.  A vote and the proposal it hashes are written in the *)
(* same places, so one variable holds both.  Owners give a peer its own    *)
(* quorum's address and never their own chain.  Fees of CCIP are left out. *)
(***************************************************************************)
EXTENDS OracleAdapter

CONSTANTS
  Ttl,             \* the values setProposalTtl may be given
  None,            \* the params of a vote that was never cast
  MaxTime,         \* bound of the model: block timestamps
  MaxProposals     \* bound of the model: proposals made on all chains

ASSUME QuorumConstants ==
  /\ Ttl \subseteq Nat /\ None \notin Params
  /\ MaxTime \in Nat /\ MaxProposals \in Nat

VARIABLES
  now,                \* block.timestamp
  votes,              \* _votes and _proposalData: per chain, asset and source
  peers,              \* peers, isPeer and peerSelectors
  quorumThreshold,
  proposalTtl,
  lane,               \* CCIP: messages under way from one chain to another
  failed,             \* CCIP: messages put aside, with their lane
  \* History, for the properties only:
  proposed,           \* what each chain ever proposed for an asset
  proposals,          \* how many there were
  backed,             \* assets whose settings a quorum of the present kind gave
  fresh,              \* assets with a vote since hands or settings changed
  troubled            \* a message failed, or a vote did not go to all chains

history == <<proposed, proposals, backed, fresh, troubled>>
ccip == <<lane, failed>>
quorumSettings == <<peers, quorumThreshold, proposalTtl>>
quorumVars == <<adapter, now, votes, quorumSettings, ccip, history>>

Lane == {l \in Chain \X Chain : l[1] # l[2]}
NoVote == [params |-> None, at |-> 0]
Message == [symbol : Symbol, params : Params, id : Nat]

QuorumInit ==
  /\ AdapterInit
  /\ now = 1
  /\ votes = [c \in Chain |-> [s \in Symbol |-> [d \in Chain |-> NoVote]]]
  /\ peers = [c \in Chain |-> {}]
  /\ quorumThreshold \in [Chain -> 1..(Cardinality(Chain))]
  /\ proposalTtl \in [Chain -> Ttl]
  /\ lane = [l \in Lane |-> <<>>] /\ failed = {}
  /\ proposed = [c \in Chain |-> [s \in Symbol |-> {}]] /\ proposals = 0
  /\ backed = [c \in Chain |-> {}] /\ fresh = [c \in Chain |-> {}]
  /\ troubled = FALSE

-----------------------------------------------------------------------------
(* Votes.                                                                  *)

\* Mutation: a vote is gone one second too soon.
cutoffEarly(c) == IF now > proposalTtl[c] THEN now - proposalTtl[c] + 1 ELSE 0
cutoff(c) == IF now > proposalTtl[c] THEN now - proposalTtl[c] ELSE 0

\* Mutation: a vote for anything counts.
CountedAny(c, cast, p) ==
  {d \in peers[c] \cup {c} : cast[d].params # None /\ cast[d].at > cutoff(c)}

\* The chains _countMatchingVotes counts.
Matching(c, cast, p) ==
  {d \in peers[c] \cup {c} : cast[d].params = p /\ cast[d].at > cutoff(c)}

\* The feed is local: an active asset keeps its own, another gets none.
LocalFeed(c, s) == IF config[c][s].active THEN config[c][s].feed ELSE NoFeed

applyConfig(c, s, p) == configureAsset(c, "quorum", s, LocalFeed(c, s), p)

\* A vote of chain d for asset s arrives at chain c, is stored over the last
\* one and counted; it reverts when a quorum may not configure.
Vote(c, d, s, p) ==
  LET cast == [votes[c][s] EXCEPT ![d] = [params |-> p, at |-> now]]
      reached == Cardinality(Matching(c, cast, p)) >= quorumThreshold[c]
  IN /\ votes' = [votes EXCEPT ![c][s] = cast]
     /\ fresh' = [fresh EXCEPT ![c] = @ \cup {s}]
     /\ \/ reached /\ applyConfig(c, s, p) /\ backed' = [backed EXCEPT ![c] = @ \cup {s}]
        \/ ~ reached /\ UNCHANGED <<adapter, backed>>

Broadcast(c, m) ==
  [l \in Lane |-> IF l[1] = c /\ l[2] \in peers[c] THEN Append(lane[l], m) ELSE lane[l]]

proposeConfig(c, s, p) ==
  /\ proposals < MaxProposals
  /\ Vote(c, c, s, p)
  /\ lane' = Broadcast(c, [symbol |-> s, params |-> p, id |-> proposals])
  /\ proposed' = [proposed EXCEPT ![c][s] = @ \cup {p}]
  /\ proposals' = proposals + 1
  /\ troubled' = (troubled \/ peers[c] # Chain \ {c})
  /\ UNCHANGED <<now, quorumSettings, failed>>

\* _ccipReceive of a message of chain d at chain c.
Receive(d, c, m) ==
  /\ d \in peers[c]
  /\ Vote(c, d, m.symbol, m.params)

\* It reverts: the sender is no peer, or the settings are not the quorum's to
\* change just now.
Reverts(d, c, m) ==
  \/ d \notin peers[c]
  \/ /\ ~ Authorised(c, "quorum")
     /\ Cardinality(Matching(c, [votes[c][m.symbol] EXCEPT ![d] =
                                   [params |-> m.params, at |-> now]], m.params))
          >= quorumThreshold[c]

Execute(d, c) ==
  LET l == <<d, c>>
      m == Head(lane[l])
  IN /\ lane[l] # <<>>
     /\ lane' = [lane EXCEPT ![l] = Tail(@)]
     /\ \/ Receive(d, c, m) /\ UNCHANGED <<failed, troubled>>
        \/ /\ Reverts(d, c, m)
           /\ failed' = failed \cup {<<d, c, m>>} /\ troubled' = TRUE
           /\ UNCHANGED <<adapter, votes, backed, fresh>>
     /\ UNCHANGED <<now, quorumSettings, proposed, proposals>>

ExecuteByHand(f) ==
  /\ f \in failed
  /\ Receive(f[1], f[2], f[3])
  /\ failed' = failed \ {f}
  /\ UNCHANGED <<now, quorumSettings, lane, proposed, proposals, troubled>>

-----------------------------------------------------------------------------
(* Owners.                                                                 *)

\* What a quorum gave is no longer what the chain has, or a quorum is not what
\* it was.
Anew(c, assets) ==
  /\ backed' = [backed EXCEPT ![c] = @ \ assets]
  /\ fresh' = [fresh EXCEPT ![c] = @ \ assets]

forceApplyConfig(c, s, p) ==
  /\ applyConfig(c, s, p) /\ Anew(c, {s})
  /\ UNCHANGED <<now, votes, quorumSettings, ccip, proposed, proposals, troubled>>

addPeer(c, d) ==
  /\ d # c /\ d \notin peers[c]
  /\ peers' = [peers EXCEPT ![c] = @ \cup {d}]
  /\ Anew(c, Symbol)
  /\ UNCHANGED <<adapter, now, votes, quorumThreshold, proposalTtl, ccip,
                 proposed, proposals, troubled>>

removePeer(c, d) ==
  /\ d \in peers[c]
  /\ peers' = [peers EXCEPT ![c] = @ \ {d}]
  /\ Anew(c, Symbol)
  /\ UNCHANGED <<adapter, now, votes, quorumThreshold, proposalTtl, ccip,
                 proposed, proposals, troubled>>

setQuorumThreshold(c, n) ==
  /\ n \in 1..(Cardinality(peers[c]) + 1)
  /\ quorumThreshold' = [quorumThreshold EXCEPT ![c] = n]
  /\ Anew(c, Symbol)
  /\ UNCHANGED <<adapter, now, votes, peers, proposalTtl, ccip, proposed, proposals, troubled>>

setProposalTtl(c, ttl) ==
  /\ proposalTtl' = [proposalTtl EXCEPT ![c] = ttl]
  /\ Anew(c, Symbol)
  /\ UNCHANGED <<adapter, now, votes, peers, quorumThreshold, ccip, proposed, proposals, troubled>>

\* The adapter's own owner and wirers.
AdapterAdmin(c) ==
  /\ \/ \E s \in Symbol :
          /\ Anew(c, {s})
          /\ \/ \E p \in Params, feed \in Feed \cup {NoFeed} : configureAsset(c, "admin", s, feed, p)
             \/ deactivateAsset(c, s)
     \/ \E s \in Symbol, feed \in Feed : setLocalFeedAddress(c, s, feed) /\ UNCHANGED <<backed, fresh>>
     \/ \E on \in BOOLEAN : setCanonicalMode(c, on) /\ UNCHANGED <<backed, fresh>>
  /\ UNCHANGED <<now, votes, quorumSettings, ccip, proposed, proposals, troubled>>

Tick ==
  /\ now < MaxTime /\ now' = now + 1
  /\ UNCHANGED <<adapter, votes, quorumSettings, ccip, history>>

-----------------------------------------------------------------------------

VoteStep ==
  \/ \E c \in Chain, s \in Symbol, p \in Params : proposeConfig(c, s, p)
  \/ \E d, c \in Chain : d # c /\ Execute(d, c)
  \/ \E f \in failed : ExecuteByHand(f)
  \/ Tick

QuorumOwnerStep ==
  \E c \in Chain :
    \/ \E s \in Symbol, p \in Params : forceApplyConfig(c, s, p)
    \/ \E d \in Chain : addPeer(c, d) \/ removePeer(c, d)
    \/ \E n \in 1..Cardinality(Chain) : setQuorumThreshold(c, n)
    \/ \E ttl \in Ttl : setProposalTtl(c, ttl)

AdapterStep == \E c \in Chain : AdapterAdmin(c)

QuorumNext == VoteStep \/ QuorumOwnerStep \/ AdapterStep

QuorumSpec == QuorumInit /\ [][QuorumNext]_quorumVars

-----------------------------------------------------------------------------
(* Properties.                                                             *)

QuorumTypeOK ==
  /\ AdapterTypeOK
  /\ now \in Nat
  /\ votes \in [Chain -> [Symbol -> [Chain -> [params : Params \cup {None}, at : Nat]]]]
  /\ peers \in [Chain -> SUBSET Chain]
  /\ quorumThreshold \in [Chain -> Nat] /\ proposalTtl \in [Chain -> Nat]
  /\ lane \in [Lane -> Seq(Message)] /\ failed \subseteq Chain \X Chain \X Message
  /\ proposed \in [Chain -> [Symbol -> SUBSET Params]] /\ proposals \in Nat
  /\ backed \in [Chain -> SUBSET Symbol] /\ fresh \in [Chain -> SUBSET Symbol]
  /\ troubled \in BOOLEAN

\* The settings that a quorum gave a chain, and nobody changed since, were
\* proposed by that many chains it has as peers or by its own owner, however
\* late, failed, executed by hand or repeated their messages are and whatever
\* the chains voted in between: no message counts for another chain, for
\* another asset or twice.
Proposers(c, s) == {d \in peers[c] \cup {c} : config[c][s].params \in proposed[d][s]}
QuorumBacked ==
  \A c \in Chain : \A s \in backed[c] :
    config[c][s].active /\ Cardinality(Proposers(c, s)) >= quorumThreshold[c]

\* Once every chain has voted the same for an asset and every message is
\* executed, every chain has it, whatever they voted before and however the
\* votes crossed: as long as the votes a chain holds are not older than its TTL
\* when the last comes in, all chains stayed peers, no message failed and no
\* owner changed the chain's settings by hand since the last vote came.
Latest(c, s) == CHOOSE t \in {votes[c][s][d].at : d \in Chain} :
                  \A d \in Chain : votes[c][s][d].at <= t
Timely(c, s) == \A d \in Chain : votes[c][s][d].at + proposalTtl[c] > Latest(c, s)
VotesAgree ==
  ~ troubled /\ (\A l \in Lane : lane[l] = <<>>) /\ (\A c \in Chain : peers[c] = Chain \ {c}) =>
    \A s \in Symbol, p \in Params :
      (\A c \in Chain : votes[c][s][c].params = p /\ s \in fresh[c] /\ Timely(c, s)) =>
        \A c \in Chain : config[c][s].active /\ config[c][s].params = p
=============================================================================
