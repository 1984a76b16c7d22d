----------------------------- MODULE MCIndexer -----------------------------
(* Three setups.  The relays share no state with the vault's chain, and    *)
(* the vault's events are taken in two groups: those of its users and      *)
(* accounts over two days, and those of its assets and their prices, with  *)
(* the deposits that refresh the same row.                                 *)
EXTENDS Indexer

VARIABLE setup

MCvars == <<vars, setup>>

Kinds ==
  [users  |-> {"created", "deposit", "redeem", "quiet", "paused", "account"},
   assets |-> {"created", "deposit", "assets", "price"},
   relays |-> {}]

MCInit == Init /\ setup \in DOMAIN Kinds

MCNext ==
  /\ Next /\ UNCHANGED setup
  /\ blocks' # blocks =>
       /\ Last(blocks').kind \in Kinds[setup]
       /\ setup = "assets" => Last(blocks').day = 1
  /\ setup # "relays" => epochs' = <<>>

\* The identities carry no meaning, and no property is temporal.
Identities ==
  Permutations(User) \cup Permutations(Asset) \cup Permutations(Relay) \cup Permutations(Selector)

MCSpec == MCInit /\ [][MCNext]_MCvars
=============================================================================
