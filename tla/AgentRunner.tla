---------------------------- MODULE AgentRunner -----------------------------
(* The agents' runner.  One run at a time (the workflow's concurrency      *)
(* group): it reads the agent's memory, looks after the training of its    *)
(* model, checks whose vault it remembers, closes what its policy drops,   *)
(* and lets a language model propose batches of calls, turn by turn, which *)
(* it reviews, has confirmed, vetoed or executed.  What it learns it saves *)
(* at the end; a run that fails saves nothing.                             *)
(*                                                                         *)
(* The model is offered every tool of its servers, whether or not the      *)
(* agent's file lists it as a write; what is not listed is handled as a    *)
(* read.  It may propose anything, but gives no vault another agent's      *)
(* name, and what it stops with has no calls.  Agents have a vault and a   *)
(* policy.                                                                 *)
(***************************************************************************)
EXTENDS Naturals, Sequences, FiniteSets, SequencesExt

CONSTANTS
  Agent, Context,               \* a context is a network and its deployment
  Hub,                          \* contexts of the hub network, for writes that are listed
  WriteLists,                   \* what agents' files may list as their writeTools
  Direction,                    \* the sides a policy may allow (entryDirection)
  OpenCap, ShortCap,            \* maxNewPositionsPerRun, maxNewShortsPerRun
  MaxEnforced,                  \* rounds in which a policy is enforced
  MaxTurns, MaxCalls,           \* turns of a run; bound of the model: calls of a batch
  MaxVaults, MaxTrainings       \* bounds of the model

ASSUME AgentConstants ==
  /\ Hub \subseteq Context /\ Direction \subseteq SUBSET {"long", "short"}
  /\ WriteLists \subseteq SUBSET {"create", "allocate", "close", "open", "reserve"}
  /\ {OpenCap, ShortCap, MaxEnforced, MaxTurns, MaxCalls, MaxVaults, MaxTrainings} \subseteq Nat
  /\ "odd" \notin Agent         \* stands for a name that is no agent's

VARIABLES
  vaults, trainings,    \* what exists: baskets and training jobs, by number
  memory,               \* state.json of each agent
  run,
  slipped               \* observes: agents of which something was lost to the runner

agentVars == <<vaults, trainings, memory, run, slipped>>

NoRun == [step |-> "none"]
NoMemory == [context |-> "none", vault |-> 0, job |-> 0, pending |-> FALSE]
Nowhere == [to |-> 0, pinned |-> FALSE, listed |-> FALSE]
Holds(m) == m.vault # 0 \/ m.pending

AgentInit ==
  /\ vaults = <<>> /\ trainings = <<>> /\ run = NoRun /\ slipped = {}
  /\ memory = [a \in Agent |-> NoMemory]

In(step) == run.step = step
To(step) == [run EXCEPT !.step = step]
Slip(p) == slipped' = IF p THEN slipped \cup {run.agent} ELSE slipped

\* A run goes on; what exists and what is remembered stays.
Proceed(next) == run' = next /\ UNCHANGED <<vaults, trainings, memory, slipped>>

-----------------------------------------------------------------------------
(* Start: what is remembered, the training, the vault's identity.          *)

\* Mutation: another network's memory is as good.
RemembersAny(a, c) == FALSE

shouldInvalidateDeploymentMemory(a, c) == memory[a].context # c
Remembered(a, c) == IF shouldInvalidateDeploymentMemory(a, c) THEN NoMemory ELSE memory[a]

\* Memory of another context goes to the archive, one file for all of them.
\* A vault the operator names is for this run alone, and nothing is saved.
StartRun(a, c, mode, told, writeTools, sides, penalty) ==
  /\ In("none")
  /\ memory' = [memory EXCEPT ![a] = Remembered(a, c)]
  /\ LET m == IF told = 0 THEN Remembered(a, c) ELSE [NoMemory EXCEPT !.vault = told]
     IN run' = [step |-> "poll", agent |-> a, context |-> c, mode |-> mode, told |-> told # 0,
                vault |-> m.vault, needs |-> m.vault = 0, job |-> m.job, pending |-> m.pending,
                writeTools |-> writeTools, sides |-> sides, penalty |-> penalty,
                made |-> FALSE, failed |-> FALSE, new |-> {}, allocated |-> FALSE,
                turn |-> 0, rounds |-> 0, batch |-> <<>>, owed |-> 0, opens |-> 0, shorts |-> 0,
                unsure |-> FALSE, wrote |-> Nowhere]
  /\ slipped' = slipped \cup {b \in {a} : memory'[a] # memory[a] /\ Holds(memory[a])}
  /\ UNCHANGED <<vaults, trainings>>

\* An answer that cannot be read, or has no status, leaves what is remembered.
PollTraining ==
  /\ In("poll")
  /\ \E p \in {run.pending} \cup {trainings[j].pending : j \in {run.job} \ {0}} :
       Proceed([To("train") EXCEPT !.pending = p])

\* Mutation: a job that runs is not asked for.
RefreshAnyway == TRUE

evaluateMlRefreshNeed == ~ run.pending

\* A training is started where the last result is missing, old or unsure.  The
\* answer gives the job, or an error and no job, or is lost on the way.
StartTraining ==
  /\ In("train") /\ evaluateMlRefreshNeed /\ Len(trainings) < MaxTrainings
  /\ \E pending, heard \in BOOLEAN :
       /\ trainings' = Append(trainings, [by |-> run.agent, pending |-> pending])
       /\ run' = IF heard THEN [To("verify") EXCEPT !.job = Len(trainings'), !.pending = pending,
                                                    !.new = @ \cup {"training"}]
                 ELSE To("verify")
       /\ Slip(pending /\ (~ heard \/ run.told))
  /\ UNCHANGED <<vaults, memory>>

NoTraining == In("train") /\ Proceed(To("verify"))

\* Mutation: the name is not looked at.
NameUnread(v) == TRUE

verifyVaultNameMatch(v) == vaults[v].name = run.agent

\* A vault that is not the agent's own ends the run, as Fail.
verifyVaultIdentity ==
  /\ In("verify")
  /\ ~ run.needs /\ ~ run.told => verifyVaultNameMatch(run.vault)
  /\ Proceed(To("rebalance"))

\* Closes are asked of nobody, on whatever network and whether listed or not;
\* only a run that writes nothing skips them.
enforceAutoRebalance ==
  /\ In("rebalance")
  /\ \/ Proceed(To("ask"))
     \/ /\ ~ run.needs /\ run.mode \in {"live", "ask"}
        /\ Proceed([To("ask") EXCEPT !.wrote = [to |-> run.vault, pinned |-> TRUE,
                                                        listed |-> FALSE]])

-----------------------------------------------------------------------------
(* A turn: the proposal and what becomes of it before it is executed.      *)

\* A reserve call is one of the RWA adapter's; a close stands for a withdrawal
\* and for a choice of assets too.
Call == {"look", "create", "zero", "allocate", "close", "long", "short", "reserve",
         "train", "watch"}
Batches == UNION {[1..n -> Call] : n \in 1..MaxCalls}

Tool(call) ==
  CASE call \in {"zero", "allocate"} -> "allocate"
    [] call \in {"long", "short"}    -> "open"
    [] OTHER                         -> call

\* A call is a write if the agent's own file says so, whatever it does.
isWrite(call) == Tool(call) \in run.writeTools
hasWriteCalls(b) == \E n \in DOMAIN b : isWrite(b[n])
Calls(b, kinds) == Cardinality({n \in DOMAIN b : b[n] \in kinds})
CreateFirst == run.needs /\ run.vault = 0 /\ run.rounds < MaxEnforced

\* The model answers; the turn limit ends the run as its summary does.
Propose ==
  /\ In("ask")
  /\ \/ run.turn = MaxTurns /\ Proceed(To("save"))
     \/ /\ run.turn < MaxTurns
        /\ \/ \E b \in Batches : Proceed([To("review") EXCEPT !.turn = @ + 1, !.batch = b,
                                                !.wrote = Nowhere])
           \/ Proceed([To("stop") EXCEPT !.turn = @ + 1])

\* Mutation: the batch alone is held against the caps.
WithinOfBatch(b) ==
  Calls(b, {"long", "short"}) <= OpenCap /\ ("short" \in run.sides => Calls(b, {"short"}) <= ShortCap)

Within(b) ==
  /\ run.opens + Calls(b, {"long", "short"}) <= OpenCap
  /\ "short" \in run.sides => run.shorts + Calls(b, {"short"}) <= ShortCap

\* Opens are looked for among the writes, so only where they are listed.
\* Whether a long is of an eligible asset is up to the reads before.
validatePolicyWriteBatch(b) ==
  isWrite("long") /\ Calls(b, {"long", "short"}) > 0 =>
    /\ run.penalty => Calls(b, {"short"}) = 0
    /\ Range(b) \cap {"long", "short"} \subseteq run.sides
    /\ Within(b)

\* Mutation: the calls stay without an answer.
RejectedSilently(next, b) == [next EXCEPT !.step = "ask", !.batch = <<>>, !.owed = Len(b)]

\* The proposal joins the transcript with an answer to each of its calls.
pushRejectedToolResponses(next, b) == [next EXCEPT !.step = "ask", !.batch = <<>>, !.owed = 0]

Rejected == pushRejectedToolResponses([run EXCEPT !.rounds = @ + 1], run.batch)

\* A batch of calls that are not listed is neither reviewed nor confirmed.
ReviewBatch ==
  /\ In("review")
  /\ \/ /\ isWrite("zero") /\ "zero" \in Range(run.batch) /\ run.rounds < MaxEnforced
        /\ Proceed(Rejected)
     \/ /\ \/ ~ validatePolicyWriteBatch(run.batch)
           \/ isWrite("long") /\ "long" \in Range(run.batch)
        /\ Proceed(Rejected)
     \/ /\ validatePolicyWriteBatch(run.batch)
        /\ Proceed(To(IF run.mode = "ask" /\ hasWriteCalls(run.batch) THEN "confirm" ELSE "push"))

\* The operator approves, rejects, or has the model revise its calls, which
\* are shown again and not reviewed again.
confirmWriteBatchInteractively ==
  /\ In("confirm")
  /\ \/ Proceed(To("push"))
     \/ Proceed([To("ask") EXCEPT !.batch = <<>>])
     \/ \E b \in Batches :
          Proceed([To(IF hasWriteCalls(b) THEN "confirm" ELSE "push") EXCEPT
                    !.batch = b, !.unsure = @ \/ ~ validatePolicyWriteBatch(b)])
     \/ Proceed(IF CreateFirst THEN [To("ask") EXCEPT !.batch = <<>>, !.rounds = @ + 1]
                ELSE [To("save") EXCEPT !.batch = <<>>])

\* The risk officer sees the batch if a write of it is listed.
Push ==
  /\ In("push")
  /\ \/ Proceed([To("execute") EXCEPT !.owed = Len(run.batch)])
     \/ /\ run.mode \in {"live", "ask"} /\ hasWriteCalls(run.batch)
        /\ Proceed(pushRejectedToolResponses(run, run.batch))

\* A vault that is missing, or idle money, or entries that are due, are asked
\* for before the summary is taken for one.
Stop ==
  /\ In("stop")
  /\ IF CreateFirst THEN Proceed([To("ask") EXCEPT !.rounds = @ + 1])
     ELSE \/ /\ run.rounds < MaxEnforced /\ run.vault # 0
             /\ ~ run.allocated \/ run.opens = 0
             /\ Proceed([To("ask") EXCEPT !.rounds = @ + 1])
          \/ Proceed(To("save"))

-----------------------------------------------------------------------------
(* The calls of a batch, one after the other.                              *)

Skipped(call) == isWrite(call) /\ (run.context \notin Hub \/ run.mode \in {"dry", "skip"})

\* Mutation: what is left to answer is settled with the last call.
AnsweredAtEnd ==
  LET last == Len(run.batch) = 1 IN
  [run EXCEPT !.batch = Tail(@), !.owed = IF last THEN 0 ELSE @,
              !.step = IF last THEN "ask" ELSE "execute"]

\* A call is answered whatever became of it.
Answered ==
  [run EXCEPT !.batch = Tail(@), !.owed = @ - 1,
              !.step = IF Len(run.batch) = 1 THEN "ask" ELSE "execute"]

VAULT_ARG_WRITE_TOOLS == {"allocate", "close", "open"}
Pinned(call) == run.vault # 0 /\ Tool(call) \in VAULT_ARG_WRITE_TOOLS

\* Mutation: the model's vault, where it gives one.
PinOnlyMissing(call, v) == IF Pinned(call) /\ v = 0 THEN run.vault ELSE v

applyVaultArgPin(call, v) == IF Pinned(call) THEN run.vault ELSE v

\* A write that is executed goes to the vault the run has, if its tool is
\* pinned, or else to whichever the model names.
Wrote(next) ==
  LET call == Head(run.batch) IN
  /\ ~ Skipped(call)
  /\ \E v \in 0..Len(vaults) :
       /\ applyVaultArgPin(call, v) # 0
       /\ Proceed([next EXCEPT !.wrote = [to |-> applyVaultArgPin(call, v),
                                          pinned |-> Pinned(call), listed |-> isWrite(call)]])

NamedAs(a) == {v \in DOMAIN vaults : vaults[v].context = run.context /\ vaults[v].name = a}

\* Mutation: the newest vault will be the one.
extractNewest == {Len(vaults)} \ {0}

\* The first vault of the agent's name.
extractNewestVaultAddress == {v \in NamedAs(run.agent) : \A w \in NamedAs(run.agent) : v <= w}

\* Only a run that asked for a vault and was not refused looks for its own.
FindVault ==
  /\ run.vault = 0 /\ run.made /\ ~ run.failed
  /\ \E v \in extractNewestVaultAddress : Proceed([Answered EXCEPT !.vault = v])

\* The answer has the address, or none, or says that it failed, or is an
\* error of the call, in which cases the vault may be there all the same.
Create ==
  /\ ~ Skipped("create")
  /\ \E answer \in {"address", "none", "failed", "lost"}, name \in {run.agent, "odd"},
        exists \in BOOLEAN :
       /\ answer = "address" => exists
       /\ exists => Len(vaults) < MaxVaults
       /\ vaults' = IF exists THEN Append(vaults, [by |-> run.agent, name |-> name,
                                                   context |-> run.context])
                    ELSE vaults
       /\ run' = [Answered EXCEPT
                   !.vault = IF answer = "address" THEN Len(vaults') ELSE @,
                   !.made = @ \/ answer # "lost",
                   !.failed = @ \/ answer = "failed",
                   !.new = IF exists THEN @ \cup {"vault"} ELSE @]
       /\ Slip(exists /\ (answer \in {"failed", "lost"} \/ run.vault # 0 \/ "vault" \in run.new))
  /\ UNCHANGED <<trainings, memory>>

Allocate == Wrote([Answered EXCEPT !.allocated = TRUE]) \/ Wrote(Answered)

\* An open that succeeds counts; one whose answer is lost may have.
Open(side) ==
  \/ Wrote([Answered EXCEPT !.opens = @ + 1, !.shorts = IF side = "short" THEN @ + 1 ELSE @])
  \/ Wrote([Answered EXCEPT !.unsure = TRUE])

\* The model may start a training itself, and a job it finds ended becomes
\* the one that is remembered.
Train ==
  /\ Len(trainings) < MaxTrainings
  /\ trainings' = Append(trainings, [by |-> run.agent, pending |-> TRUE])
  /\ run' = Answered /\ Slip(TRUE)
  /\ UNCHANGED <<vaults, memory>>

Watch ==
  \E j \in {n \in DOMAIN trainings : ~ trainings[n].pending} :
    /\ run' = [Answered EXCEPT !.job = j, !.pending = FALSE]
    /\ Slip(run.pending /\ run.job # j)
    /\ UNCHANGED <<vaults, trainings, memory>>

\* A call may just be answered: one that is skipped, refused, or throws with
\* nothing done, or an allocation of nothing.
executeToolCall ==
  LET call == Head(run.batch) IN
  /\ In("execute")
  /\ \/ Proceed(Answered)
     \/ call = "look" /\ FindVault
     \/ call = "create" /\ Create
     \/ call = "allocate" /\ Allocate
     \/ call \in {"close", "reserve"} /\ Wrote(Answered)
     \/ call \in {"long", "short"} /\ Open(call)
     \/ call = "train" /\ Train
     \/ call = "watch" /\ Watch

-----------------------------------------------------------------------------
(* The end of a run.                                                       *)

\* Mutation: the vault is saved by the run that made it.
LearnedOnce ==
  [context |-> run.context, job |-> run.job, pending |-> run.pending,
   vault |-> IF run.made THEN run.vault ELSE 0]

Learned == [context |-> run.context, vault |-> run.vault, job |-> run.job, pending |-> run.pending]

\* A write of the memory that fails is logged, and the run ends well.
writeState ==
  /\ In("save") /\ run' = NoRun
  /\ \E saved \in BOOLEAN :
       /\ memory' = IF run.told \/ ~ saved THEN memory ELSE [memory EXCEPT ![run.agent] = Learned]
       /\ Slip((~ run.told /\ ~ saved /\ run.new # {}) \/ (run.vault = 0 /\ "vault" \in run.new))
  /\ UNCHANGED <<vaults, trainings>>

\* The model, a server or the process fails, or the vault is not the agent's.
Fail ==
  /\ run.step # "none" /\ run' = NoRun
  /\ Slip(run.new # {})
  /\ UNCHANGED <<vaults, trainings, memory>>

\* From outside: a training ends; the file is lost, or another agent's is put
\* in its place.
TrainingEnds(j) ==
  /\ trainings[j].pending /\ trainings' = [trainings EXCEPT ![j].pending = FALSE]
  /\ UNCHANGED <<vaults, memory, run, slipped>>

Misplace(a, m) ==
  /\ In("none") /\ memory[a] # m
  /\ memory' = [memory EXCEPT ![a] = m] /\ slipped' = slipped \cup {a}
  /\ UNCHANGED <<vaults, trainings, run>>

-----------------------------------------------------------------------------
AgentStep ==
  \/ PollTraining \/ StartTraining \/ NoTraining \/ verifyVaultIdentity \/ enforceAutoRebalance
  \/ Propose \/ ReviewBatch \/ confirmWriteBatchInteractively \/ Push \/ Stop \/ executeToolCall
  \/ writeState \/ Fail

AgentNext ==
  \/ AgentStep
  \/ \E a \in Agent, c \in Context, mode \in {"live", "ask", "skip", "dry"},
        told \in 0..Len(vaults), writeTools \in WriteLists, sides \in Direction,
        penalty \in BOOLEAN :
       StartRun(a, c, mode, told, writeTools, sides, penalty)
  \/ \E j \in DOMAIN trainings : TrainingEnds(j)
  \/ \E a \in Agent, m \in {NoMemory} \cup {memory[b] : b \in Agent} : Misplace(a, m)

AgentSpec == AgentInit /\ [][AgentNext]_agentVars

-----------------------------------------------------------------------------
(* Properties.                                                             *)

Working == run.step \notin {"none", "poll", "train", "verify"}

AgentTypeOK ==
  /\ Len(vaults) <= MaxVaults /\ Len(trainings) <= MaxTrainings
  /\ \A a \in Agent : memory[a].vault \in 0..Len(vaults) /\ memory[a].job \in 0..Len(trainings)

\* A run that found its vault by itself works with one that its own agent had
\* created, on this network, and what its perp tools write goes there, listed
\* or not, whatever the model says and whatever memory the run was given.  What
\* the reserve tools write goes wherever the model says.
OwnVault ==
  LET Own(v) == vaults[v].by = run.agent /\ vaults[v].context = run.context IN
  Working /\ ~ run.told =>
    /\ run.vault # 0 => Own(run.vault)
    /\ run.wrote.pinned => Own(run.wrote.to)
    /\ run.wrote.listed => run.context \in Hub /\ run.mode \in {"live", "ask"}

\* An agent has one vault in a context and one training at a time, unless the
\* runner lost track of one: a run failed or could not save after it had made
\* one, an answer got lost, the memory was another network's, or the model
\* asked twice.
OneVault ==
  \A a \in Agent \ slipped :
    /\ \A v, w \in DOMAIN vaults :
         vaults[v].by = a /\ vaults[w].by = a /\ vaults[v].context = vaults[w].context => v = w
    /\ \A j, k \in DOMAIN trainings :
         trainings[j].by = a /\ trainings[k].by = a /\ trainings[j].pending /\ trainings[k].pending
           => j = k

\* The caps hold over all turns of a run of an agent that lists the opening of
\* positions, unless a batch was revised past its review or an answer got lost,
\* and no short is opened in a squeeze.
CapsKept ==
  Working /\ isWrite("long") /\ ~ run.unsure =>
    /\ run.opens <= OpenCap
    /\ run.shorts <= ShortCap
    /\ run.penalty => run.shorts = 0
    /\ ("long" \in run.sides \/ run.opens = run.shorts) /\ ("short" \in run.sides \/ run.shorts = 0)

\* When the model is asked, each call of the transcript has its answer, and a
\* batch that is executed is owed one for each of its calls.
Paired ==
  /\ In("ask") => run.owed = 0
  /\ In("execute") => run.batch # <<>> /\ run.owed = Len(run.batch)

TurnsInOrder == CapsKept /\ Paired
=============================================================================
