------------------------------ MODULE MCJobs -------------------------------
(* What is started by a schedule and goes on by itself: the push worker's  *)
(* dispatches (MCPushWorker) or the agents' runs, one or the other.  For   *)
(* the agents four setups: whose vault a run works with and what it        *)
(* remembers, over two networks, for an agent that lists what it trades    *)
(* and for one that lists the reserve tools; what trainings it knows of;   *)
(* and the turns of the runs of an agent that has its vault.               *)
EXTENDS MCPushWorker, AgentRunner

MCDirection == {{"long"}, {"long", "short"}}

Trades == {"create", "allocate", "close", "open"}
Reserves == {"reserve"}
MCWriteLists == {Trades, Reserves}

Setups == {"vaults", "reserves", "trainings", "turns"}

Runner == CHOOSE a \in Agent : TRUE
OneHub == CHOOSE c \in Hub : TRUE

\* Agent a has its vault, the other none.
Endowed(a) ==
  /\ vaults = <<[by |-> a, name |-> a, context |-> OneHub]>>
  /\ trainings = <<>> /\ run = NoRun /\ slipped = {}
  /\ memory = [b \in Agent |-> IF b # a THEN NoMemory
                               ELSE [NoMemory EXCEPT !.context = OneHub, !.vault = 1]]

JobsInit ==
  \/ MCInit /\ AgentInit
  \/ Init /\ setup \in {"vaults", "reserves", "trainings"} /\ \E a \in Agent \ {Runner} : Endowed(a)
  \/ Init /\ setup = "turns" /\ Endowed(Runner)

Runs == run'.step # "none"
Only(calls) == Runs => run'.agent = Runner /\ Range(run'.batch) \subseteq calls
Lists(tools) == Runs => run'.writeTools = tools
Plain == Runs => ~ run'.penalty /\ run'.sides = {"long"} /\ Len(run'.batch) <= 1

JobsNext ==
  \/ setup \notin Setups /\ UNCHANGED agentVars /\ MCNext
  \/ /\ setup \in Setups /\ AgentNext /\ UNCHANGED MCvars
     /\ CASE setup = "vaults"    -> /\ Plain /\ Lists(Trades) /\ Only({"look", "create", "close"})
                                    /\ Runs => run'.mode \in {"live", "dry"}
                                    /\ UNCHANGED trainings
          [] setup = "reserves"  -> /\ Plain /\ Lists(Reserves)
                                    /\ Only({"look", "create", "close", "reserve"})
                                    /\ Runs => run'.mode \in {"live", "dry"} /\ ~ run'.told
                                    /\ Len(vaults') <= 2 /\ UNCHANGED trainings
          [] setup = "trainings" -> /\ Plain /\ Lists(Trades) /\ Only({"train", "watch"})
                                    /\ Runs => run'.context = OneHub /\ run'.mode = "live"
          [] setup = "turns"     -> /\ Only({"look", "zero", "long", "short", "allocate"})
                                    /\ Runs => run'.context = OneHub
                                    /\ Runs /\ run'.writeTools = Reserves => run'.sides = {"long"}
                                    /\ UNCHANGED <<trainings, slipped>>

JobsSpec == JobsInit /\ [][JobsNext]_<<MCvars, agentVars>> /\ Scheduled
=============================================================================
