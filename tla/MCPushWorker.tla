--------------------------- MODULE MCPushWorker ----------------------------
(* Three setups: rows which two dispatches read, rows which the modes of   *)
(* one dispatch read, and the signals of a vault's state over time.  But   *)
(* for the last, the clock stands once there is something to read.  Chains *)
(* differ by name only, and so do dispatches: the first row is Main's, and *)
(* a dispatch alone is First.                                              *)
EXTENDS PushWorker

CONSTANTS First, Main

VARIABLE setup

MCvars == <<vars, setup>>

MCChoice == {Switch, Switch \ {"reserveBelowTarget"}}

MCInit == Init /\ setup \in {"rows", "modes", "states"}

Idle == \A j \in Job : At(j, "off")
Alone == \A j \in Job \ {First} : job'[j].step = "off"
Realtime == \A j \in Job : job'[j].step = "off" \/ job'[j].modes = <<"realtime">>
Fresh == rows = <<>> /\ Idle
ClockStands == now' <= 2 /\ (Fresh \/ UNCHANGED now)
NoNewDevice == \A w \in Wallet : subscriptions'[w] \subseteq subscriptions[w]
Heard == \E w \in Wallet : subscriptions[w] # {}

MCNext ==
  /\ Next /\ UNCHANGED setup
  /\ rows' = <<>> \/ rows'[1].chain = Main
  /\ CASE setup = "rows"   -> /\ Realtime /\ ClockStands 
                              /\ UNCHANGED <<vaultState, preferences>>
                              /\ Fresh \/ UNCHANGED subscriptions
                              /\ Len(rows') <= 1 \/ ~ Heard
                              /\ \A n \in DOMAIN rows' : rows'[n].kind = "risk"
       [] setup = "modes"  -> /\ Alone /\ ClockStands
                              /\ UNCHANGED <<vaultState, preferences, deaths>>
                              /\ Len(rows') <= 2 /\ (Fresh \/ NoNewDevice)
       [] setup = "states" -> Alone /\ Realtime /\ UNCHANGED <<rows, deaths>>

MCSpec == MCInit /\ [][MCNext]_MCvars /\ Scheduled
=============================================================================
