------------------------- MODULE MCVaultAccounting -------------------------
(***************************************************************************)
(* The perp contracts in eight setups, each an instance of its module with *)
(* the amounts that its question needs.  VaultAccounting and the market    *)
(* under it:                                                               *)
(*   trade     two vaults that share one GMX leg per side, on a funded     *)
(*             pool and a mapped asset: registration, capital, positions   *)
(*             and liquidations;                                           *)
(*   flat      the same in a market that never moves;                      *)
(*   settings  every operation, from the empty state, with one vault;      *)
(*   market    a liquidity provider and a trader, who is nobody's vault.   *)
(* The quorum of three chains on oracle settings, wired but in assets:     *)
(*   votes     up to four votes that cross on their way;                   *)
(*   late      up to three, while time passes;                             *)
(*   owners    up to two, and up to two steps of owners;                   *)
(*   assets    the settings of one chain's adapter, two assets.            *)
(***************************************************************************)
EXTENDS VaultAccounting, OracleConfigQuorum, TLC

CONSTANTS v1, v2, va, out, t1, s1, c1, p1, Setups,
          MaxEdits      \* bound of the model: steps of owners among voters

VARIABLES setup, who,   \* the setup, and the vaults, the trader or the chain in it
          edits         \* steps of owners among voters so far

MCvars == <<vars, quorumVars, setup, who, edits>>

MCMove == -2..1
OneUp == -1..1
MCStartUsdc == (va :> 0) @@ (out :> 2) @@ [v \in Vault |-> 0]

Trade ==
  INSTANCE VaultAccounting WITH Amount <- {1, 2}, Size <- {1, 2}, Fee <- {0}, Cap <- {0},
                                Move <- OneUp
Flat ==
  INSTANCE VaultAccounting WITH Amount <- {1, 2}, Size <- {1, 2}, Fee <- {0}, Cap <- {0},
                                CollateralDelta <- {0}, Move <- {0}
Settings ==
  INSTANCE VaultAccounting WITH Amount <- {1}, Size <- {1}, Fee <- {0}, Cap <- {1},
                                CollateralDelta <- {0}, Move <- {0}, MaxUsdg <- 1,
                                MaxDeposited <- 1
Market(v) ==
  INSTANCE GmxVault WITH Account <- {v, out}, Amount <- {0, 1, 2}, MaxUsdg <- 2

Votes == INSTANCE OracleConfigQuorum WITH Symbol <- {s1}, MaxProposals <- 4, MaxTime <- 1
Late == INSTANCE OracleConfigQuorum WITH Symbol <- {s1}, MaxProposals <- 3
Owners == INSTANCE OracleConfigQuorum WITH Symbol <- {s1}, MaxProposals <- 2, MaxTime <- 1

\* The two setups of trade begin with a funded pool and a mapped asset.
Shared == setup \in {"trade", "flat"}
Money ==
  CASE setup = "market"    -> [a \in Account |-> IF a = out THEN 4 ELSE IF a \in who THEN 2 ELSE 0]
    [] OTHER               -> MCStartUsdc
Pool == IF Shared THEN 2 ELSE 0

AdapterBefore(wired) ==
  /\ config = [c \in Chain |-> [s \in Symbol |-> [params |-> p1, feed |-> NoFeed, active |-> FALSE]]]
  /\ configHash = [c \in Chain |-> {}] /\ assetList = [c \in Chain |-> <<>>]
  /\ canonicalMode = [c \in Chain |-> wired]

\* The chains' quorums and adapters, wired by their owners.
Wired == setup \in {"votes", "late", "owners"}
QuorumStart ==
  /\ AdapterBefore(Wired)
  /\ now = 1
  /\ votes = [c \in Chain |-> [s \in Symbol |-> [d \in Chain |-> NoVote]]]
  /\ peers = [c \in Chain |-> IF Wired THEN Chain \ {c} ELSE {}]
  /\ \E n \in (IF setup = "votes" THEN {2, 3} ELSE IF setup = "late" THEN {3} ELSE {2}) :
       quorumThreshold = [c \in Chain |-> n]
  /\ proposalTtl = [c \in Chain |-> 2]
  /\ lane = [l \in Lane |-> <<>>] /\ failed = {}
  /\ proposed = [c \in Chain |-> [s \in Symbol |-> {}]] /\ proposals = 0
  /\ backed = [c \in Chain |-> {}] /\ fresh = [c \in Chain |-> {}]
  /\ troubled = FALSE

Actors == CASE setup \in {"settings", "market"} -> {{v} : v \in Vault}
            [] setup = "assets"               -> {{c1}}
            [] OTHER                          -> {Vault}

MCInit ==
  /\ setup \in Setups /\ who \in Actors
  /\ wallet = Money
  /\ position = [k \in Key |-> NoPosition]
  /\ poolAmount = Pool /\ balance = Pool
  /\ reservedAmount = 0 /\ guaranteedUsd = 0
  /\ globalShortSize = [t \in IndexToken |-> 0]
  /\ feeReserve = 0 /\ usdgHeld = 0 /\ usdgIn = 0
  /\ registered = [v \in Vault |-> FALSE]
  /\ depositedCapital = ZeroEach /\ realisedPnL = ZeroEach
  /\ openInterest = ZeroEach /\ collateralLocked = ZeroEach
  /\ positionCount = ZeroEach
  /\ totalDeposited = 0
  /\ tracking = [k \in PosKey |-> Untracked]
  /\ openKeys = [v \in Vault |-> <<>>]
  /\ keyIndex = [k \in PosKey |-> 0]
  /\ assetToken = [a \in Asset |-> IF Shared THEN t1 ELSE NoToken]
  /\ maxOpenInterest = ZeroEach /\ maxPositionSize = ZeroEach
  /\ paused = FALSE
  /\ seedCapPerEpoch = 0 /\ seedCapRemaining = 0
  /\ unseedCapPerEpoch = 0 /\ unseedCapRemaining = 0
  /\ minPoolFloor = 0
  /\ edits = 0
  /\ QuorumStart

Absent(vaults) ==
  \A v \in vaults : /\ ~ registered'[v] /\ wallet'[v] = 0
                   /\ maxOpenInterest'[v] = 0 /\ maxPositionSize'[v] = 0
\* In the settings setup only the market's other trader has positions of its own.
NoTraders(vaults) == \A k \in Key : Owner(k) \in vaults => position'[k] = NoPosition

\* Bound of the model: the market setup ends when a short was overcharged.
NoneOvercharged == Unclaimed = 0

PerpStep ==
  \/ setup = "trade" /\ (Trade!RegistryStep \/ Trade!TradeStep)
  \/ setup = "trade" /\ Trade!LiquidationStep /\ UNCHANGED vaVars
  \/ setup = "flat" /\ (Flat!RegistryStep \/ Flat!TradeStep)
  \/ setup = "settings" /\ Settings!Next /\ Absent(Vault \ who) /\ NoTraders(Vault)
  \/ setup = "market" /\ NoneOvercharged /\ (\E v \in who : Market(v)!GmxStep({v, out})) /\ UNCHANGED vaVars

\* Chains and settings are all alike: without loss of generality the first
\* proposal is p1, and made on c1.
FirstOfAll == proposals = 0 => proposed' \in {proposed, [proposed EXCEPT ![c1][s1] = {p1}]}

QuorumStep ==
  \/ setup = "votes" /\ Votes!VoteStep /\ UNCHANGED edits
  \/ setup = "late" /\ Late!VoteStep /\ UNCHANGED edits
  \/ setup = "owners" /\ Owners!VoteStep /\ UNCHANGED edits
  \/ setup = "owners" /\ edits < MaxEdits /\ edits' = edits + 1 /\ (Owners!QuorumOwnerStep \/ Owners!AdapterStep)
  \/ setup = "assets" /\ (\E c \in who : AdapterAdmin(c)) /\ UNCHANGED edits

MCNext ==
  /\ UNCHANGED <<setup, who>>
  /\ \/ PerpStep /\ UNCHANGED <<quorumVars, edits>>
     \/ QuorumStep /\ FirstOfAll /\ UNCHANGED vars

MCSpec == MCInit /\ [][MCNext]_MCvars

Twins == Permutations({v1, v2})
=============================================================================
