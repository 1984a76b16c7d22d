---------------------------- MODULE PushWorker -----------------------------
(* The push worker: dispatches which the scheduler starts every few        *)
(* minutes, and which overlap when one is slow or is asked for by hand.    *)
(* Each reads the cursors, the indexer's newest rows, the subscriptions,   *)
(* and for each signal and wallet the preferences and the dispatch log,    *)
(* one awaited call after the other, and dies where a call throws.         *)
(*                                                                         *)
(* Rows come from several chains, each in its own order.  A deposit stands *)
(* for what its user is told, "risk" for what all are; rows that nobody is *)
(* told are left out.  One basket stands for all, "paused" for the signals *)
(* told once for a basket's state, "reserve" for the one with a cooldown.  *)
(***************************************************************************)
EXTENDS Naturals, Sequences, FiniteSets, SequencesExt, FiniteSetsExt

CONSTANTS
  Wallet, Device, Chain,
  Job,                  \* dispatches that may run at a time
  Choice,               \* bound of the model: the settings wallets choose from
  PageLimit,            \* rows a dispatch reads
  Cooldown,             \* RESERVE_BREACH_COOLDOWN_MS, in ticks
  MaxTime, MaxRows, MaxDeaths      \* bounds of the model

Kind == {"deposit", "risk"}
Pref == {"depositConfirmed", "riskConfigChanged", "basketPaused", "reserveBelowTarget"}
Switch == Pref \cup {"master", "digest"}
Mode == {"realtime", "digest"}

ASSUME PushConstants ==
  /\ Choice \subseteq SUBSET Switch
  /\ PageLimit \in Nat \ {0} /\ Cooldown \in Nat \ {0}
  /\ {MaxTime, MaxRows, MaxDeaths} \subseteq Nat /\ MaxTime # 0
  /\ IsFiniteSet(Wallet)

VARIABLES
  now, rows, vaultState,        \* the clock; BasketActivity; VaultStateCurrent
  subscriptions, preferences,   \* Firestore: the devices of a wallet, its switches on
  cursor, dispatchLog,          \* dispatch_state; dispatch_log: sentAt of a wallet's event
  job,
  deaths,
  told,                         \* observes: when a wallet was told an event
  worked,                       \* observes: rows that a finished dispatch had read
  overlapped,                   \* observes: modes two dispatches worked in at a time
  untold                        \* observes: one died between telling and logging

indexer == <<now, rows, vaultState>>
store == <<subscriptions, preferences>>
observed == <<told, worked, overlapped, untold>>
vars == <<indexer, store, cursor, dispatchLog, job, deaths, observed>>

None == [step |-> "off"]
At(j, step) == job[j].step = step
Anyone == "anyone"

Init ==
  /\ now = 1 /\ rows = <<>> /\ vaultState = [paused |-> FALSE, breach |-> FALSE]
  /\ subscriptions = [w \in Wallet |-> {}] /\ preferences = [w \in Wallet |-> Switch]
  /\ cursor = [m \in Mode |-> 0] /\ dispatchLog = <<>>
  /\ job = [j \in Job |-> None] /\ deaths = 0
  /\ told = <<>> /\ worked = [m \in Mode |-> {}] /\ overlapped = {} /\ untold = FALSE

Worker == <<cursor, dispatchLog, job, deaths, observed>>

-----------------------------------------------------------------------------
(* What the worker looks at.                                               *)

Tick == now < MaxTime /\ now' = now + 1 /\ UNCHANGED <<rows, vaultState, store, Worker>>

\* The indexer adds a row for an event of a block it has got to: a chain's
\* rows come in the order of their time, those of two chains need not.
Index(c, t, k, w) ==
  /\ Len(rows) < MaxRows /\ t <= now
  /\ \A n \in DOMAIN rows : rows[n].chain = c => rows[n].time <= t
  /\ rows' = Append(rows, [chain |-> c, time |-> t, kind |-> k, account |-> w])
  /\ UNCHANGED <<now, vaultState, store, Worker>>

Change(f) ==
  /\ vaultState' = [vaultState EXCEPT ![f] = ~ @]
  /\ UNCHANGED <<now, rows, store, Worker>>

Subscribe(w, d) ==
  /\ subscriptions' = [subscriptions EXCEPT ![w] = @ \cup {d}]
  /\ UNCHANGED <<indexer, preferences, Worker>>

\* Of one endpoint, or of all the wallet's where none is named.
Unsubscribe(w, ds) ==
  /\ subscriptions' = [subscriptions EXCEPT ![w] = @ \ ds]
  /\ UNCHANGED <<indexer, preferences, Worker>>

\* The web app sends every switch it shows.
SetPreferences(w, on) ==
  /\ preferences' = [preferences EXCEPT ![w] = on]
  /\ UNCHANGED <<indexer, subscriptions, Worker>>

-----------------------------------------------------------------------------
(* Signals and those who are told.                                         *)

\* A user's row of the indexer is one of its chain.
userId(row) == <<row.chain, row.account>>

\* txHash is the hash of the block, and a chain has a block for each time.
buildEventId(row) == <<row.chain, row.time, row.kind>>

RowSignal(row) ==
  [pref     |-> IF row.kind = "deposit" THEN "depositConfirmed" ELSE "riskConfigChanged",
   id       |-> buildEventId(row),
   wallet   |-> IF row.kind = "deposit" THEN userId(row) ELSE Anyone,
   cooldown |-> 0]

StateSignals ==
  (IF vaultState.paused
   THEN <<[pref |-> "basketPaused", id |-> <<"paused">>, wallet |-> Anyone, cooldown |-> 0]>>
   ELSE <<>>)
  \o (IF vaultState.breach
      THEN <<[pref |-> "reserveBelowTarget", id |-> <<"reserve">>, wallet |-> Anyone,
              cooldown |-> Cooldown]>>
      ELSE <<>>)

deriveRealtimeSignals(page) ==
  [i \in DOMAIN page |-> RowSignal(rows[page[i]])] \o StateSignals

\* One summary for each user named in the page.
buildDigestSummary(page) ==
  SetToSeq({[pref |-> "digest", id |-> <<"digest">>, wallet |-> userId(rows[n]), cooldown |-> 0] :
              n \in {m \in Range(page) : rows[m].kind = "deposit"}})

Newer(min) == {n \in DOMAIN rows : rows[n].time > min}

Listings(s, before(_, _)) ==
  {q \in [1..Cardinality(s) -> s] :
     /\ Range(q) = s
     /\ \A i, k \in DOMAIN q : i < k => ~ before(rows[q[k]].time, rows[q[i]].time)}

FirstOf(q) == SubSeq(q, 1, IF Len(q) < PageLimit THEN Len(q) ELSE PageLimit)

\* Mutation: the newest rows first.
PagesNewest(min) == {FirstOf(q) : q \in Listings(Newer(min), >)}

\* The rows newer than the cursor, oldest first, up to the limit; the order of
\* rows of one time is the database's.
Pages(min) == {FirstOf(q) : q \in Listings(Newer(min), <)}

\* A wallet for each signal, of those with a subscription when this was read.
Pairs(signals) ==
  LET Known == {w \in Wallet : subscriptions[w] # {}}
      Of(s) == SetToSeq({w \in Known : s.wallet = Anyone \/ s.wallet = w})
  IN FlattenSeq([i \in DOMAIN signals |->
       [k \in DOMAIN Of(signals[i]) |-> [signal |-> signals[i], wallet |-> Of(signals[i])[k]]]])

-----------------------------------------------------------------------------
(* A dispatch.                                                             *)

mode(j) == Head(job[j].modes)
Pair(j) == job[j].pairs[job[j].turn]
Key(p) == <<p.wallet, p.signal.id>>
With(f, k, v) == [x \in DOMAIN f \cup {k} |-> IF x = k THEN v ELSE f[x]]

\* One step of dispatch j; what is not said to change stays.
Step(j, next) ==
  /\ job' = [job EXCEPT ![j] = next]
  /\ UNCHANGED <<indexer, preferences, deaths>>

Go(j, step) == [job[j] EXCEPT !.step = step]
NextTurn(j) == [job[j] EXCEPT !.step = "look", !.turn = @ + 1]

Start(j, modes) ==
  /\ At(j, "off")
  /\ Step(j, [step |-> "fetch", modes |-> modes, min |-> cursor, page |-> <<>>,
              signals |-> <<>>, subs |-> <<>>, pairs |-> <<>>, turn |-> 1])
  /\ overlapped' = overlapped \cup
       {m \in Range(modes) : \E k \in Job : ~ At(k, "off") /\ m \in Range(job[k].modes)}
  /\ UNCHANGED <<subscriptions, cursor, dispatchLog, told, worked, untold>>

Fetch(j) ==
  /\ At(j, "fetch")
  /\ \E page \in Pages(job[j].min[mode(j)]) :
       Step(j, [Go(j, "subs") EXCEPT
                 !.page = page,
                 !.signals = IF mode(j) = "digest" THEN buildDigestSummary(page)
                             ELSE deriveRealtimeSignals(page)])
  /\ UNCHANGED <<subscriptions, cursor, dispatchLog, observed>>

getEnabledSubscriptionsByWallet(j) ==
  /\ At(j, "subs")
  /\ Step(j, [Go(j, "look") EXCEPT !.subs = subscriptions, !.pairs = Pairs(job[j].signals),
                                   !.signals = <<>>, !.turn = 1])
  /\ UNCHANGED <<subscriptions, cursor, dispatchLog, observed>>

Turns(j) == job[j].turn <= Len(job[j].pairs)
isEventAllowed(p) == {"master", p.signal.pref} \subseteq preferences[p.wallet]

\* A digest is sent without a look at the log.
Look(j) ==
  /\ At(j, "look") /\ Turns(j)
  /\ Step(j, IF ~ isEventAllowed(Pair(j)) THEN NextTurn(j)
             ELSE Go(j, IF mode(j) = "digest" THEN "send" ELSE "check"))
  /\ UNCHANGED <<subscriptions, cursor, dispatchLog, observed>>

\* Mutation: no cooldown is a cooldown of no time.
DispatchAgain(p) == Key(p) \notin DOMAIN dispatchLog \/ now - dispatchLog[Key(p)] >= p.signal.cooldown

shouldDispatch(p) ==
  \/ Key(p) \notin DOMAIN dispatchLog
  \/ p.signal.cooldown > 0 /\ now - dispatchLog[Key(p)] >= p.signal.cooldown

Check(j) ==
  /\ At(j, "check")
  /\ Step(j, IF shouldDispatch(Pair(j)) THEN Go(j, "send") ELSE NextTurn(j))
  /\ UNCHANGED <<subscriptions, cursor, dispatchLog, observed>>

\* Mutation: what was tried is logged.
ToLog(j, sent) == mode(j) = "realtime"

Logged(j, sent) == mode(j) = "realtime" /\ sent # {}

\* sendToSubscriptions: each device that the dispatch knew of takes it, fails,
\* or is gone and its subscription with it.
Send(j) ==
  /\ At(j, "send")
  /\ \E sent, gone \in SUBSET job[j].subs[Pair(j).wallet] :
       /\ sent \cap gone = {}
       /\ subscriptions' = [subscriptions EXCEPT ![Pair(j).wallet] = @ \ gone]
       /\ told' = IF sent = {} \/ mode(j) = "digest" THEN told
                  ELSE LET k == Key(Pair(j))
                           ts == IF k \in DOMAIN told THEN told[k] ELSE <<>>
                       IN With(told, k, Append(ts, now))
       /\ Step(j, IF Logged(j, sent) THEN Go(j, "log") ELSE NextTurn(j))
  /\ UNCHANGED <<cursor, dispatchLog, worked, overlapped, untold>>

Record(j) ==
  /\ At(j, "log")
  /\ dispatchLog' = With(dispatchLog, Key(Pair(j)), now)
  /\ Step(j, NextTurn(j))
  /\ UNCHANGED <<subscriptions, cursor, observed>>

Times(j) == {rows[n].time : n \in Range(job[j].page)}

\* Mutation: past the last row, so that it is not read again.
CursorPast(j) == Max({job[j].min[mode(j)]} \cup {t + 1 : t \in Times(j)})

nextCursor(j) == Max({job[j].min[mode(j)]} \cup Times(j))

\* The cursor is written whatever it is by now; "all" goes on with the digest.
Finish(j) ==
  /\ At(j, "look") /\ ~ Turns(j)
  /\ cursor' = [cursor EXCEPT ![mode(j)] = nextCursor(j)]
  /\ worked' = [worked EXCEPT ![mode(j)] = @ \cup Range(job[j].page)]
  /\ Step(j, IF Len(job[j].modes) = 1 THEN None
             ELSE [Go(j, "fetch") EXCEPT !.modes = Tail(@)])
  /\ UNCHANGED <<subscriptions, dispatchLog, told, overlapped, untold>>

Advance(j) ==
  \/ Fetch(j) \/ getEnabledSubscriptionsByWallet(j) \/ Look(j) \/ Check(j) \/ Send(j)
  \/ Record(j) \/ Finish(j)

\* A call throws, or the process ends.
Die(j) ==
  /\ ~ At(j, "off") /\ deaths < MaxDeaths
  /\ deaths' = deaths + 1
  /\ job' = [job EXCEPT ![j] = None]
  /\ untold' = (untold \/ At(j, "log"))
  /\ UNCHANGED <<indexer, store, cursor, dispatchLog, told, worked, overlapped>>

-----------------------------------------------------------------------------
AllModes == {<<"realtime">>, <<"digest">>, <<"realtime", "digest">>}

WorldStep ==
  \/ Tick
  \/ \E c \in Chain, t \in 1..MaxTime, k \in Kind, w \in Wallet : Index(c, t, k, w)
  \/ \E f \in DOMAIN vaultState : Change(f)
  \/ \E w \in Wallet : \/ \E d \in Device : Subscribe(w, d) \/ Unsubscribe(w, {d})
                        \/ Unsubscribe(w, Device)
                        \/ \E on \in Choice : SetPreferences(w, on)

Next ==
  \/ WorldStep
  \/ \E j \in Job : Advance(j) \/ Die(j) \/ (\E modes \in AllModes : Start(j, modes))

Spec == Init /\ [][Next]_vars

\* The scheduler keeps starting dispatches, and one that runs goes on.
Scheduled ==
  /\ WF_vars(\E j \in Job : Start(j, <<"realtime">>))
  /\ \A j \in Job : WF_vars(Advance(j))

-----------------------------------------------------------------------------
(* Properties.                                                             *)

TypeOK ==
  /\ now \in 1..MaxTime /\ Len(rows) <= MaxRows
  /\ subscriptions \in [Wallet -> SUBSET Device] /\ preferences \in [Wallet -> SUBSET Switch]
  /\ cursor \in [Mode -> 0..now]
  /\ DOMAIN dispatchLog \subseteq DOMAIN told
  /\ \A j \in Job : At(j, "off") \/ job[j].turn \in 1..(Len(job[j].pairs) + 1)

\* Where dispatches did not overlap and none died between the push and its
\* log, no wallet is told an event twice: once for good, or once in a cooldown,
\* with rows of one block that share an id, pages read again, and devices that
\* fail or come and go.
ToldOnce ==
  "realtime" \notin overlapped /\ ~ untold =>
    \A k \in DOMAIN told : \A a, b \in DOMAIN told[k] :
      a < b => k[2] = <<"reserve">> /\ told[k][b] - told[k][a] >= Cooldown

\* What the log keeps from being told again was told: a wallet none of whose
\* devices took the push is tried again at the next dispatch.
LoggedWasTold == \A k \in DOMAIN dispatchLog : k \in DOMAIN told /\ dispatchLog[k] >= told[k][1]

\* What the worker told and what it remembers of it go together.
ToldAsLogged == ToldOnce /\ LoggedWasTold

\* A row whose time no other shares, indexed after all older and before all newer.
InOrder(n) ==
  /\ n \in DOMAIN rows
  /\ \A m \in DOMAIN rows \ {n} : IF m < n THEN rows[m].time < rows[n].time
                                   ELSE rows[m].time > rows[n].time

\* The cursor passes such a row only with a finished dispatch that had read it,
\* whatever dispatches overlapped or died.
NothingPassed ==
  \A m \in Mode, n \in DOMAIN rows :
    InOrder(n) /\ rows[n].time <= cursor[m] => n \in worked[m]

\* Every such row is read by a dispatch that finishes, however many rows there
\* are for a page, and though overlapping dispatches move the cursor back.
EveryRowWorked ==
  \A n \in 1..MaxRows : InOrder(n) ~> (n \in worked["realtime"] \/ ~ InOrder(n))

-----------------------------------------------------------------------------
(* What a test and the documents say and the worker does not do.           *)

\* "depositConfirmed" is one of the notifications an investor gets
\* (PWA_PUSH_NOTIFICATIONS.md:62), and the test's rows carry the wallet itself
\* (dispatch.test.js:15): a deposit of a wallet with a subscription is among
\* what the dispatch that reads it tells.
DepositConfirmed ==
  \A j \in Job : At(j, "look") /\ mode(j) = "realtime" =>
    \A n \in Range(job[j].page) :
      rows[n].kind = "deposit" /\ job[j].subs[rows[n].account] # {} =>
        \E p \in Range(job[j].pairs) :
          p.wallet = rows[n].account /\ p.signal.id = buildEventId(rows[n])
=============================================================================
