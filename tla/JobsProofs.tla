----------------------------- MODULE JobsProofs -----------------------------
(***************************************************************************)
(* What is started by a schedule.  First the push worker, for any wallets, *)
(* devices, chains, dispatches at a time, pages and deaths: what a         *)
(* dispatch holds, that a cursor passes no row unread, and that the log    *)
(* and what was told agree.  Then the agents' runs, for any agents,        *)
(* networks, caps, number of turns, calls of a batch, vaults and           *)
(* trainings: that a run works with a vault of its own agent, that an      *)
(* agent has one unless the runner lost track of it, and that the caps of  *)
(* its policy hold over all its turns.                                     *)
(***************************************************************************)
EXTENDS PushWorker, AgentRunner, SumLemmas

-----------------------------------------------------------------------------
(* What the push worker's operators return.                                *)

\* A bounded set of numbers has a greatest one.
LEMMA MaxOf ==
  ASSUME NEW S, S \subseteq Nat, S # {}, NEW b \in Nat, \A x \in S : x <= b
  PROVE  Max(S) \in S /\ \A x \in S : x <= Max(S)
<1> DEFINE U == {u \in Nat : \A x \in S : x <= u}
<1>1. PICK u \in U : \A v \in U : u <= v
  <2>1. b \in U /\ U \subseteq Nat
    OBVIOUS
  <2> HIDE DEF U
  <2> QED
    BY <2>1, LeastOf
<1>2. u \in S
  <2>1. SUFFICES ASSUME u \notin S PROVE FALSE
    OBVIOUS
  <2>2. u \in Nat /\ \A x \in S : x \in Nat /\ x <= u /\ x # u
    BY <2>1, <1>1
  <2>3. PICK x \in S : TRUE
    OBVIOUS
  <2>4. u - 1 \in Nat /\ \A y \in S : y <= u - 1
    BY <2>2, <2>3
  <2>5. u - 1 \in U
    BY <2>4
  <2> HIDE DEF U
  <2> QED
    BY <2>2, <2>5, <1>1
<1>3. \E x \in S : \A y \in S : x >= y
  BY <1>1, <1>2
<1>4. Max(S) \in S /\ \A y \in S : Max(S) >= y
  BY <1>3 DEF Max
<1> QED
  BY <1>4

\* A finite set as a sequence.
LEMMA Listed ==
  ASSUME NEW S, IsFiniteSet(S)
  PROVE  SetToSeq(S) \in Seq(S)
<1> DEFINE N == Cardinality(S)
<1>1. N \in Nat /\ ExistsBijection(1..N, S)
  BY FS_CardinalityType
<1>2. \E f \in [1..N -> S] : IsInjective(f)
  BY <1>1 DEF ExistsBijection, Bijection, Injection
<1>3. SetToSeq(S) \in [1..N -> S]
  BY <1>2 DEF SetToSeq
<1> QED
  BY <1>1, <1>3

\* Joining the sequences of a sequence, one after the other.
IsFlat(f, s, n) ==
  f = [i \in 1..n |-> IF i = 1 THEN s[i] ELSE f[i - 1] \o s[i]]

LEMMA FlatExists ==
  ASSUME NEW T, NEW s \in Seq(Seq(T)), s # <<>>
  PROVE  \E f \in [1..Len(s) -> Seq(T)] : IsFlat(f, s, Len(s))
<1> DEFINE B == {n \in 1..Len(s) : ~ \E f \in [1..n -> Seq(T)] : IsFlat(f, s, n)}
<1>0. Len(s) \in Nat \ {0} /\ \A i \in 1..Len(s) : s[i] \in Seq(T)
  OBVIOUS
<1>1. SUFFICES ASSUME B # {} PROVE FALSE
  BY <1>0
<1>2. PICK n \in B : \A m \in B : n <= m
  <2>1. B \subseteq Nat
    BY <1>0
  <2> HIDE DEF B
  <2> QED
    BY <1>1, <2>1, LeastOf
<1>3. n \in 1..Len(s) /\ n \in Nat
  BY <1>0, <1>2
<1>4. CASE n = 1
  <2> DEFINE f == [i \in 1..1 |-> s[i]]
  <2>1. f \in [1..1 -> Seq(T)]
    BY <1>0
  <2>2. IsFlat(f, s, 1)
    BY DEF IsFlat
  <2> QED
    BY <1>2, <1>4, <2>1, <2>2
<1>5. CASE n # 1
  <2>1. n - 1 \in 1..Len(s) /\ n - 1 \notin B
    <3> HIDE DEF B
    <3> QED
      BY <1>2, <1>3, <1>5, <1>0
  <2>2. PICK g \in [1..(n - 1) -> Seq(T)] : IsFlat(g, s, n - 1)
    BY <2>1
  <2> DEFINE f == [i \in 1..n |-> IF i = n THEN g[n - 1] \o s[n] ELSE g[i]]
  <2>3. g[n - 1] \in Seq(T) /\ s[n] \in Seq(T)
    BY <2>1, <2>2, <1>0, <1>3
  <2>4. g[n - 1] \o s[n] \in Seq(T)
    BY <2>3
  <2>5. \A i \in 1..n : i # n => i \in 1..(n - 1)
    BY <1>3
  <2>6. f \in [1..n -> Seq(T)]
    BY <2>2, <2>4, <2>5
  <2>7. \A i \in 1..n : f[i] = IF i = 1 THEN s[i] ELSE f[i - 1] \o s[i]
    <3> SUFFICES ASSUME NEW i \in 1..n
                 PROVE  f[i] = IF i = 1 THEN s[i] ELSE f[i - 1] \o s[i]
      OBVIOUS
    <3>1. CASE i = n
      <4>1. n - 1 \in 1..n /\ n - 1 # n
        BY <1>3, <1>5
      <4>2. f[n - 1] = g[n - 1]
        BY <4>1
      <4> QED
        BY <3>1, <4>2, <1>5, <1>3
    <3>2. CASE i # n
      <4>1. i \in 1..(n - 1) /\ f[i] = g[i]
        BY <3>2, <2>5
      <4>2. g[i] = IF i = 1 THEN s[i] ELSE g[i - 1] \o s[i]
        BY <4>1, <2>2 DEF IsFlat
      <4>3. i # 1 => i - 1 \in 1..n /\ i - 1 # n
        BY <1>3
      <4>4. i # 1 => f[i - 1] = g[i - 1]
        BY <4>3
      <4> QED
        BY <4>1, <4>2, <4>4
    <3> QED
      BY <3>1, <3>2
  <2>8. IsFlat(f, s, n)
    <3> HIDE DEF f
    <3>1. f = [i \in 1..n |-> f[i]]
      BY <2>6
    <3> QED
      BY <2>7, <3>1 DEF IsFlat
  <2> QED
    BY <1>2, <2>6, <2>8
<1> QED
  BY <1>4, <1>5

LEMMA FlatTyped ==
  ASSUME NEW T, NEW s \in Seq(Seq(T)), NEW f, IsFlat(f, s, Len(s)), s # <<>>
  PROVE  f[Len(s)] \in Seq(T)
<1> DEFINE B == {n \in 1..Len(s) : f[n] \notin Seq(T)}
<1>0. Len(s) \in Nat \ {0} /\ \A i \in 1..Len(s) : s[i] \in Seq(T)
  OBVIOUS
<1>1. SUFFICES ASSUME B # {} PROVE FALSE
  BY <1>0
<1>2. PICK n \in B : \A m \in B : n <= m
  <2>1. B \subseteq Nat
    BY <1>0
  <2> HIDE DEF B
  <2> QED
    BY <1>1, <2>1, LeastOf
<1>3. n \in 1..Len(s) /\ n \in Nat /\ f[n] \notin Seq(T)
  BY <1>0, <1>2
<1>4. f[n] = IF n = 1 THEN s[n] ELSE f[n - 1] \o s[n]
  BY <1>3 DEF IsFlat
<1>5. n # 1
  BY <1>0, <1>3, <1>4
<1>6. n - 1 \in 1..Len(s) /\ n - 1 \notin B
  <2> HIDE DEF B
  <2> QED
    BY <1>2, <1>3, <1>5, <1>0
<1>7. f[n - 1] \in Seq(T) /\ s[n] \in Seq(T)
  BY <1>6, <1>0, <1>3
<1>8. f[n - 1] \o s[n] \in Seq(T)
  BY <1>7
<1> QED
  BY <1>3, <1>4, <1>5, <1>8

\* FlattenSeq joins sequences over T to one over T.
LEMMA FlattenTyped ==
  ASSUME NEW T, NEW s \in Seq(Seq(T))
  PROVE  FlattenSeq(s) \in Seq(T)
<1>1. CASE s = <<>>
  <2>1. FlattenSeq(s) = <<>>
    BY <1>1 DEF FlattenSeq
  <2> QED
    BY <2>1
<1>2. CASE s # <<>>
  <2>1. Len(s) # 0
    BY <1>2
  <2> DEFINE f == CHOOSE f : IsFlat(f, s, Len(s))
  <2>2. FlattenSeq(s) = f[Len(s)]
    BY <2>1 DEF FlattenSeq, IsFlat
  <2>3. \E g : IsFlat(g, s, Len(s))
    BY <1>2, FlatExists
  <2>4. IsFlat(f, s, Len(s))
    BY <2>3
  <2> HIDE DEF f
  <2> QED
    BY <1>2, <2>2, <2>4, FlatTyped
<1> QED
  BY <1>1, <1>2

-----------------------------------------------------------------------------
(* Types.                                                                  *)

Row == [chain : Chain, time : 1..MaxTime, kind : Kind, account : Wallet]
Id == (Chain \X (1..MaxTime) \X Kind) \cup {<<"paused">>, <<"reserve">>, <<"digest">>}
Recipient == (Chain \X Wallet) \cup {Anyone}

\* One signal has a cooldown.
Signal ==
  {s \in [pref : Pref \cup {"digest"}, id : Id, wallet : Recipient, cooldown : {0, Cooldown}] :
     s.cooldown # 0 => s.id = <<"reserve">>}
Told == [signal : Signal, wallet : Wallet]

Dispatch ==
  [step : {"fetch", "subs", "look", "check", "send", "log"}, modes : AllModes,
   min : [Mode -> Nat], page : Seq(Nat), signals : Seq(Signal),
   subs : {<<>>} \cup [Wallet -> SUBSET Device], pairs : Seq(Told), turn : Nat \ {0}]

\* What a dispatch holds: rows there are, a turn it has, and a cursor and log
\* that only dispatches in realtime consult.
Sound(r) ==
  /\ Range(r.page) \subseteq DOMAIN rows
  /\ r.turn <= Len(r.pairs) + 1
  /\ r.step \in {"check", "send", "log"} => r.turn <= Len(r.pairs)
  /\ r.step \in {"check", "log"} => Head(r.modes) = "realtime"
  /\ \A m \in Mode : r.min[m] <= now

Typed ==
  /\ now \in 1..MaxTime
  /\ rows \in Seq(Row) /\ Len(rows) <= MaxRows
  /\ \A n \in DOMAIN rows : rows[n].time <= now
  /\ subscriptions \in [Wallet -> SUBSET Device] /\ preferences \in [Wallet -> SUBSET Switch]
  /\ cursor \in [Mode -> 0..now]
  /\ job \in [Job -> {None} \cup Dispatch]
  /\ \A j \in Job : ~ At(j, "off") => Sound(job[j])

-----------------------------------------------------------------------------
(* What dispatches compute.                                                *)

LEMMA RowTyped ==
  ASSUME Typed, NEW n \in DOMAIN rows
  PROVE  /\ n \in Nat /\ rows[n] \in Row /\ rows[n].time \in 1..MaxTime /\ rows[n].time \in Nat
         /\ rows[n].time <= now
<1>1. rows[n] \in Row /\ n \in Nat
  BY DEF Typed
<1> QED
  BY <1>1, PushConstants DEF Typed, Row

\* A page holds rows newer than the cursor, and with a row all older ones.
LEMMA PageOf ==
  ASSUME Typed, NEW min \in Nat, NEW page \in Pages(min)
  PROVE  /\ page \in Seq(Nat) /\ Range(page) \subseteq DOMAIN rows
         /\ \A n \in Range(page) : rows[n].time > min
         /\ \A n \in DOMAIN rows, p \in Range(page) :
              min < rows[n].time /\ rows[n].time < rows[p].time => n \in Range(page)
<1> DEFINE S == Newer(min)
           N == Cardinality(S)
<1>1. S \subseteq DOMAIN rows /\ DOMAIN rows \subseteq Nat /\ IsFiniteSet(S) /\ N \in Nat
  <2>1. DOMAIN rows = 1..Len(rows) /\ Len(rows) \in Nat
    BY DEF Typed
  <2>2. IsFiniteSet(1..Len(rows)) /\ S \subseteq 1..Len(rows)
    BY <2>1, FS_Interval DEF Newer
  <2>3. IsFiniteSet(S)
    BY <2>2, FS_Subset
  <2> QED
    BY <2>1, <2>2, <2>3, FS_CardinalityType
<1>2. PICK q \in [1..N -> S] : /\ Range(q) = S /\ page = FirstOf(q)
                               /\ \A i, k \in DOMAIN q : i < k => ~ (rows[q[k]].time < rows[q[i]].time)
  BY DEF Pages, Listings
<1> HIDE DEF N
<1>3. q \in Seq(S) /\ Len(q) = N /\ DOMAIN q = 1..N
  BY <1>1, <1>2
<1>4. PICK l \in Nat : l <= N /\ page = SubSeq(q, 1, l)
  <2>1. PICK l \in Nat : l <= N /\ l = IF Len(q) < PageLimit THEN Len(q) ELSE PageLimit
    BY <1>1, <1>3, PushConstants
  <2> QED
    BY <1>2, <2>1 DEF FirstOf
<1>5. /\ page \in Seq(S) /\ DOMAIN page = 1..l /\ \A i \in 1..l : page[i] = q[i] /\ i \in 1..N
  BY <1>1, <1>3, <1>4
<1>6. Range(page) = {q[i] : i \in 1..l}
  BY <1>5 DEF Range
<1>7. Range(page) \subseteq S
  BY <1>2, <1>5, <1>6
<1>8. page \in Seq(Nat)
  BY <1>1, <1>5
<1>9. \A n \in Range(page) : rows[n].time > min
  BY <1>7 DEF Newer
<1>10. ASSUME NEW n \in DOMAIN rows, NEW p \in Range(page), min < rows[n].time,
              rows[n].time < rows[p].time
       PROVE  n \in Range(page)
  <2>1. n \in S
    BY <1>10 DEF Newer
  <2>2. PICK k \in 1..N : q[k] = n
    BY <2>1, <1>2, <1>3 DEF Range
  <2>3. PICK i \in 1..l : q[i] = p
    BY <1>6
  <2>4. i \in 1..N
    BY <1>5
  <2>5. ~ (i < k)
    BY <1>10, <2>2, <2>3, <2>4, <1>2, <1>3, RowTyped, <1>7, <1>1
  <2>6. k \in 1..l
    BY <2>2, <2>3, <2>5, <1>1
  <2> QED
    BY <2>2, <2>6, <1>6
<1> QED
  BY <1>1, <1>7, <1>8, <1>9, <1>10

LEMMA RowSignals ==
  ASSUME NEW row \in Row
  PROVE  RowSignal(row) \in Signal
<1>1. PICK c \in Chain, t \in 1..MaxTime, k \in Kind, w \in Wallet :
        c = row.chain /\ t = row.time /\ k = row.kind /\ w = row.account
  BY DEF Row
<1>2. buildEventId(row) = <<c, t, k>> /\ userId(row) = <<c, w>>
  BY <1>1 DEF buildEventId, userId
<1>3. PICK id \in Id : id = buildEventId(row)
  BY <1>1, <1>2 DEF Id
<1>4. PICK to \in Recipient : to = IF row.kind = "deposit" THEN userId(row) ELSE Anyone
  BY <1>1, <1>2 DEF Recipient
<1>5. PICK pref \in Pref : pref = IF row.kind = "deposit" THEN "depositConfirmed" ELSE "riskConfigChanged"
  BY DEF Pref
<1>6. RowSignal(row) = [pref |-> pref, id |-> id, wallet |-> to, cooldown |-> 0]
  BY <1>3, <1>4, <1>5 DEF RowSignal
<1> QED
  BY <1>6, PushConstants DEF Signal

LEMMA StateSignalsTyped == StateSignals \in Seq(Signal)
<1> DEFINE a == [pref |-> "basketPaused", id |-> <<"paused">>, wallet |-> Anyone, cooldown |-> 0]
           b == [pref |-> "reserveBelowTarget", id |-> <<"reserve">>, wallet |-> Anyone,
                 cooldown |-> Cooldown]
<1>1. a \in Signal /\ b \in Signal
  BY PushConstants DEF Signal, Pref, Id, Recipient
<1> HIDE DEF a, b
<1>5. <<a>> \in Seq(Signal) /\ <<b>> \in Seq(Signal) /\ <<>> \in Seq(Signal)
  BY <1>1
<1>2. (IF vaultState.paused THEN <<a>> ELSE <<>>) \in Seq(Signal)
  BY <1>5
<1>3. (IF vaultState.breach THEN <<b>> ELSE <<>>) \in Seq(Signal)
  BY <1>5
<1>4. StateSignals = (IF vaultState.paused THEN <<a>> ELSE <<>>)
                      \o (IF vaultState.breach THEN <<b>> ELSE <<>>)
  BY DEF StateSignals, a, b
<1> QED
  BY <1>2, <1>3, <1>4

LEMMA SignalsOf ==
  ASSUME Typed, NEW page \in Seq(Nat), Range(page) \subseteq DOMAIN rows
  PROVE  /\ deriveRealtimeSignals(page) \in Seq(Signal)
         /\ buildDigestSummary(page) \in Seq(Signal)
<1>1. \A i \in 1..Len(page) : page[i] \in DOMAIN rows
  BY DEF Range
<1>2. DOMAIN page = 1..Len(page) /\ Len(page) \in Nat
  OBVIOUS
<1>3. \A n \in DOMAIN rows : rows[n] \in Row
  BY RowTyped
<1>4. deriveRealtimeSignals(page) \in Seq(Signal)
  <2> DEFINE s == [i \in DOMAIN page |-> RowSignal(rows[page[i]])]
  <2>1. \A i \in 1..Len(page) : RowSignal(rows[page[i]]) \in Signal
    BY <1>1, <1>3, RowSignals
  <2>2. s \in [1..Len(page) -> Signal]
    BY <1>2, <2>1
  <2>3. s \in Seq(Signal)
    BY <1>2, <2>2
  <2>4. deriveRealtimeSignals(page) = s \o StateSignals
    BY DEF deriveRealtimeSignals
  <2> HIDE DEF s
  <2> QED
    BY <2>3, <2>4, StateSignalsTyped
<1>5. buildDigestSummary(page) \in Seq(Signal)
  <2> DEFINE D == {m \in Range(page) : rows[m].kind = "deposit"}
             sum(n) == [pref |-> "digest", id |-> <<"digest">>, wallet |-> userId(rows[n]), cooldown |-> 0]
             S == {sum(n) : n \in D}
  <2>1. IsFiniteSet(DOMAIN rows)
    <3>1. DOMAIN rows = 1..Len(rows) /\ Len(rows) \in Nat
      BY DEF Typed
    <3> QED
      BY <3>1, FS_Interval
  <2>2. IsFiniteSet(D)
    <3>1. D \subseteq DOMAIN rows
      OBVIOUS
    <3> HIDE DEF D
    <3> QED
      BY <2>1, <3>1, FS_Subset
  <2>3. IsFiniteSet(S)
    <3> DEFINE f == [n \in D |-> sum(n)]
    <3>1. f \in Surjection(D, S)
      <4>1. f \in [D -> S]
        OBVIOUS
      <4>2. \A t \in S : \E n \in D : f[n] = t
        OBVIOUS
      <4> HIDE DEF f, D, S
      <4> QED
        BY <4>1, <4>2 DEF Surjection
    <3> HIDE DEF f, D, S
    <3> QED
      BY <2>2, <3>1, FS_Surjection
  <2>4. \A n \in D : sum(n) \in Signal
    <3> TAKE n \in D
    <3>1. n \in DOMAIN rows
      OBVIOUS
    <3>2. PICK c \in Chain, w \in Wallet : c = rows[n].chain /\ w = rows[n].account
      BY <1>3, <3>1 DEF Row
    <3>3. PICK to \in Recipient : to = userId(rows[n])
      BY <3>2 DEF Recipient, userId
    <3> QED
      BY <3>3, PushConstants DEF Signal, Id
  <2>5. S \subseteq Signal
    BY <2>4
  <2>6. buildDigestSummary(page) = SetToSeq(S)
    BY DEF buildDigestSummary
  <2> HIDE DEF S
  <2>7. SetToSeq(S) \in Seq(S)
    BY <2>3, Listed
  <2> QED
    BY <2>5, <2>6, <2>7
<1> QED
  BY <1>4, <1>5

LEMMA PairsOf ==
  ASSUME NEW signals \in Seq(Signal)
  PROVE  Pairs(signals) \in Seq(Told)
<1> DEFINE Known == {w \in Wallet : subscriptions[w] # {}}
           Of(s) == SetToSeq({w \in Known : s.wallet = Anyone \/ s.wallet = w})
           row(i) == [k \in DOMAIN Of(signals[i]) |->
                        [signal |-> signals[i], wallet |-> Of(signals[i])[k]]]
           all == [i \in DOMAIN signals |-> row(i)]
<1>1. \A i \in 1..Len(signals) : Of(signals[i]) \in Seq(Wallet)
  <2> TAKE i \in 1..Len(signals)
  <2> DEFINE S == {w \in Known : signals[i].wallet = Anyone \/ signals[i].wallet = w}
  <2>1. S \subseteq Wallet
    OBVIOUS
  <2> HIDE DEF S
  <2>2. SetToSeq(S) \in Seq(S)
    BY <2>1, FS_Subset, PushConstants, Listed
  <2>3. SetToSeq(S) \in Seq(Wallet)
    BY <2>1, <2>2
  <2> QED
    BY <2>3 DEF S
<1> HIDE DEF Of
<1>2. \A i \in 1..Len(signals) : row(i) \in Seq(Told)
  <2> TAKE i \in 1..Len(signals)
  <2>1. PICK o \in Seq(Wallet) : o = Of(signals[i])
    BY <1>1
  <2>2. PICK s \in Signal : s = signals[i]
    OBVIOUS
  <2>3. row(i) = [k \in 1..Len(o) |-> [signal |-> s, wallet |-> o[k]]]
    BY <2>1, <2>2
  <2>4. \A k \in 1..Len(o) : [signal |-> s, wallet |-> o[k]] \in Told
    BY DEF Told
  <2> HIDE DEF row
  <2>5. row(i) \in [1..Len(o) -> Told] /\ Len(o) \in Nat
    BY <2>3, <2>4
  <2> QED
    BY <2>5
<1> HIDE DEF row
<1>3. all \in Seq(Seq(Told))
  <2>1. DOMAIN signals = 1..Len(signals) /\ Len(signals) \in Nat
    OBVIOUS
  <2>2. all \in [1..Len(signals) -> Seq(Told)]
    BY <1>2, <2>1
  <2> QED
    BY <2>1, <2>2
<1>4. Pairs(signals) = FlattenSeq(all)
  BY DEF Pairs, Of, row
<1> HIDE DEF all
<1> QED
  BY <1>3, <1>4, FlattenTyped

-----------------------------------------------------------------------------
(* Steps of a dispatch and the types.                                      *)

Stages == {"fetch", "subs", "look", "check", "send", "log"}

\* The same page of the same mode, with the same people to tell.
SameWork(r, q) == q.modes = r.modes /\ q.min = r.min /\ q.page = r.page
SameTurns(r, q) == SameWork(r, q) /\ q.pairs = r.pairs

LEMMA DispatchTyped ==
  ASSUME NEW r \in Dispatch
  PROVE  /\ r.step \in Stages /\ r.step # "off" /\ r.modes \in AllModes /\ r.min \in [Mode -> Nat]
         /\ r.page \in Seq(Nat) /\ r.signals \in Seq(Signal)
         /\ r.subs \in {<<>>} \cup [Wallet -> SUBSET Device]
         /\ r.pairs \in Seq(Told) /\ Len(r.pairs) \in Nat
         /\ r.turn \in Nat \ {0} /\ r.turn \in Nat
         /\ Head(r.modes) \in Mode
BY DEF Dispatch, Stages, AllModes, Mode

LEMMA ModesLeft ==
  ASSUME NEW m \in AllModes
  PROVE  /\ m \in Seq(Mode) /\ m # <<>> /\ Head(m) \in Range(m)
         /\ Len(m) # 1 => Tail(m) \in AllModes /\ Range(Tail(m)) \subseteq Range(m)
<1>1. CASE m = <<"realtime">>
  BY <1>1 DEF AllModes, Mode, Range
<1>2. CASE m = <<"digest">>
  BY <1>2 DEF AllModes, Mode, Range
<1>3. CASE m = <<"realtime", "digest">>
  <2>1. Tail(m) = <<"digest">> /\ Tail(m) \in AllModes
    BY <1>3 DEF AllModes
  <2>2. Range(Tail(m)) = {"digest"} /\ "digest" \in Range(m) /\ Head(m) \in Range(m)
    BY <1>3, <2>1 DEF Range
  <2> QED
    BY <1>3, <2>1, <2>2 DEF Mode
<1> QED
  BY <1>1, <1>2, <1>3 DEF AllModes

LEMMA Active ==
  ASSUME Typed, NEW j \in Job
  PROVE  /\ job[j] \in {None} \cup Dispatch
         /\ At(j, "off") \/ (job[j] \in Dispatch /\ Sound(job[j]) /\ ~ At(j, "off"))
         /\ At(j, "off") <=> job[j] = None
<1>1. job[j] \in {None} \cup Dispatch
  BY DEF Typed
<1>2. None.step = "off" /\ \A r \in Dispatch : r.step # "off"
  BY DispatchTyped DEF None
<1> QED
  BY <1>1, <1>2 DEF Typed, At

LEMMA GoesOn ==
  ASSUME NEW r \in Dispatch, NEW step \in Stages
  PROVE  LET q == [r EXCEPT !.step = step]
         IN  q \in Dispatch /\ q.step = step /\ SameTurns(r, q) /\ q.turn = r.turn
BY DEF Dispatch, Stages, SameTurns, SameWork

LEMMA Turns1 ==
  ASSUME NEW r \in Dispatch
  PROVE  LET q == [r EXCEPT !.step = "look", !.turn = @ + 1]
         IN  q \in Dispatch /\ q.step = "look" /\ SameTurns(r, q) /\ q.turn = r.turn + 1
<1> DEFINE q == [r EXCEPT !.step = "look", !.turn = @ + 1]
<1>1. r.turn \in Nat /\ r.turn + 1 \in Nat \ {0}
  BY DispatchTyped
<1>2. q \in Dispatch
  BY <1>1 DEF Dispatch
<1>3. q.step = "look" /\ q.modes = r.modes /\ q.min = r.min /\ q.page = r.page /\ q.pairs = r.pairs
  BY DEF Dispatch
<1>4. q.turn = r.turn + 1
  BY DEF Dispatch
<1> QED
  BY <1>2, <1>3, <1>4 DEF SameTurns, SameWork

\* What one dispatch does keeps the types, if it holds what it should.
LEMMA TypedOn ==
  ASSUME Typed, NEW j \in Job, NEW next \in {None} \cup Dispatch,
         job' = [job EXCEPT ![j] = next], UNCHANGED <<now, rows, preferences>>,
         subscriptions' \in [Wallet -> SUBSET Device], cursor' \in [Mode -> 0..now],
         next.step # "off" => Sound(next)
  PROVE  Typed'
<1>1. job' \in [Job -> {None} \cup Dispatch]
  BY DEF Typed
<1>2. ASSUME NEW i \in Job, ~ At(i, "off")'
      PROVE  Sound(job[i])'
  <2>1. CASE i = j
    <3>1. job'[i] = next
      BY <2>1 DEF Typed
    <3>2. Sound(next)
      BY <1>2, <3>1 DEF At
    <3> QED
      BY <3>1, <3>2 DEF Sound
  <2>2. CASE i # j
    <3>1. job'[i] = job[i]
      BY <2>2 DEF Typed
    <3>2. Sound(job[i])
      BY <1>2, <3>1 DEF At, Typed
    <3> QED
      BY <3>1, <3>2 DEF Sound
  <2> QED
    BY <2>1, <2>2
<1> QED
  BY <1>1, <1>2 DEF Typed

\* A look at the preferences, at the log, a push and a new entry in the log.
LEMMA Turning ==
  ASSUME Typed, NEW j \in Job, Look(j) \/ Check(j) \/ Send(j) \/ Record(j)
  PROVE  /\ job[j] \in Dispatch /\ job[j].step \in {"look", "check", "send", "log"}
         /\ job[j].turn <= Len(job[j].pairs)
         /\ \E next \in Dispatch :
              /\ job' = [job EXCEPT ![j] = next]
              /\ SameTurns(job[j], next) /\ Sound(next) /\ next.step \notin {"off", "fetch"}
         /\ UNCHANGED <<now, rows, preferences, cursor, worked, overlapped, untold, deaths>>
         /\ Typed'
<1> DEFINE r == job[j]
<1>1. r.step \in {"look", "check", "send", "log"}
  BY DEF Look, Check, Send, Record, At
<1>2. r \in Dispatch /\ Sound(r)
  BY <1>1, Active DEF At
<1>3. r.turn <= Len(r.pairs)
  BY <1>1, <1>2 DEF Look, Turns, At, Check, Send, Record, Sound
<1>4. UNCHANGED <<now, rows, preferences, cursor, worked, overlapped, untold, deaths>>
  BY DEF Look, Check, Send, Record, Step, indexer, observed
<1>5. PICK next : /\ job' = [job EXCEPT ![j] = next]
                  /\ \/ next = NextTurn(j)
                     \/ \E step \in Stages : /\ next = Go(j, step) /\ step \notin {"off", "fetch"}
                                             /\ step \in {"check", "log"} => mode(j) = "realtime"
  <2>1. CASE Look(j)
    <3>1. mode(j) # "digest" => mode(j) = "realtime"
      BY <1>2, DispatchTyped DEF mode, Mode
    <3> QED
      BY <2>1, <3>1 DEF Look, Step, Stages
  <2>2. CASE Check(j)
    BY <2>2 DEF Check, Step, Stages
  <2>3. CASE Send(j)
    BY <2>3 DEF Send, Step, Stages, Logged
  <2>4. CASE Record(j)
    BY <2>4 DEF Record, Step
  <2> QED
    BY <2>1, <2>2, <2>3, <2>4
<1>6. next \in Dispatch /\ SameTurns(r, next) /\ Sound(next) /\ next.step \notin {"off", "fetch"}
  <2>1. CASE next = NextTurn(j)
    <3>1. next \in Dispatch /\ next.step = "look" /\ SameTurns(r, next) /\ next.turn = r.turn + 1
      BY <1>2, <2>1, Turns1 DEF NextTurn
    <3>2. r.turn \in Nat /\ Len(r.pairs) \in Nat
      BY <1>2, DispatchTyped
    <3> QED
      BY <1>2, <1>3, <3>1, <3>2 DEF Sound, SameTurns, SameWork
  <2>2. ASSUME NEW step \in Stages, next = Go(j, step), step \notin {"off", "fetch"},
               step \in {"check", "log"} => mode(j) = "realtime"
        PROVE  /\ next \in Dispatch /\ SameTurns(r, next) /\ Sound(next)
               /\ next.step \notin {"off", "fetch"}
    <3>1. next \in Dispatch /\ next.step = step /\ SameTurns(r, next) /\ next.turn = r.turn
      BY <1>2, <2>2, GoesOn DEF Go
    <3> QED
      BY <1>2, <1>3, <2>2, <3>1 DEF Sound, SameTurns, SameWork, mode
  <2> QED
    BY <1>5, <2>1, <2>2
<1>7. subscriptions' \in [Wallet -> SUBSET Device]
  <2>1. CASE Send(j)
    <3>1. Pair(j).wallet \in Wallet
      <4>1. r.pairs[r.turn] \in Told
        BY <1>2, <1>3, DispatchTyped
      <4> QED
        BY <4>1 DEF Pair, Told
    <3>2. PICK gone : subscriptions' = [subscriptions EXCEPT ![Pair(j).wallet] = @ \ gone]
      BY <2>1 DEF Send
    <3>3. subscriptions \in [Wallet -> SUBSET Device]
      BY DEF Typed
    <3> QED
      BY <3>1, <3>2, <3>3
  <2>2. CASE ~ Send(j)
    BY <2>2 DEF Look, Check, Record, Typed
  <2> QED
    BY <2>1, <2>2
<1>8. Typed'
  <2>1. cursor' \in [Mode -> 0..now]
    BY <1>4 DEF Typed
  <2> QED
    BY <1>4, <1>5, <1>6, <1>7, <2>1, TypedOn
<1> QED
  BY <1>1, <1>2, <1>3, <1>4, <1>5, <1>6, <1>8

LEMMA Fetching ==
  ASSUME Typed, NEW j \in Job, Fetch(j)
  PROVE  /\ job[j] \in Dispatch
         /\ \E next \in Dispatch, page \in Pages(job[j].min[mode(j)]) :
              /\ job' = [job EXCEPT ![j] = next] /\ Sound(next)
              /\ next.step = "subs" /\ next.page = page
              /\ next.modes = job[j].modes /\ next.min = job[j].min
         /\ UNCHANGED <<indexer, store, cursor, dispatchLog, deaths, observed>>
         /\ Typed'
<1> DEFINE r == job[j]
<1>1. r \in Dispatch /\ Sound(r)
  BY Active DEF Fetch, At
<1>2. r.min \in [Mode -> Nat] /\ mode(j) \in Mode /\ r.min[mode(j)] \in Nat
  BY <1>1, DispatchTyped DEF mode
<1>3. PICK page \in Pages(r.min[mode(j)]) :
        job' = [job EXCEPT ![j] =
                 [Go(j, "subs") EXCEPT !.page = page,
                                       !.signals = IF mode(j) = "digest" THEN buildDigestSummary(page)
                                                   ELSE deriveRealtimeSignals(page)]]
  BY DEF Fetch, Step
<1>4. page \in Seq(Nat) /\ Range(page) \subseteq DOMAIN rows
  BY <1>2, PageOf
<1> DEFINE signals == IF mode(j) = "digest" THEN buildDigestSummary(page)
                      ELSE deriveRealtimeSignals(page)
<1>5. signals \in Seq(Signal)
  BY <1>4, SignalsOf
<1> DEFINE q == Go(j, "subs")
           next == [q EXCEPT !.page = page, !.signals = signals]
<1>6. q \in Dispatch /\ q.step = "subs" /\ SameTurns(r, q) /\ q.turn = r.turn
  BY <1>1, GoesOn DEF Go, Stages
<1> HIDE DEF q, signals
<1>7. next \in Dispatch
  BY <1>4, <1>5, <1>6 DEF Dispatch
<1>8. /\ next.step = q.step /\ next.modes = q.modes /\ next.min = q.min
      /\ next.page = page /\ next.pairs = q.pairs /\ next.turn = q.turn
  BY <1>6 DEF Dispatch
<1>9. Sound(next)
  BY <1>1, <1>4, <1>6, <1>8 DEF Sound, SameTurns, SameWork
<1>10. job' = [job EXCEPT ![j] = next]
  BY <1>3 DEF q, signals
<1>11. UNCHANGED <<indexer, store, cursor, dispatchLog, deaths, observed>>
  BY DEF Fetch, Step, store, indexer, observed
<1> HIDE DEF next
<1>12. Typed'
  <2>1. UNCHANGED <<now, rows, preferences>> /\ subscriptions' = subscriptions /\ cursor' = cursor
    BY <1>11 DEF indexer, store
  <2> QED
    BY <1>7, <1>9, <1>10, <2>1, TypedOn DEF Typed
<1> QED
  BY <1>1, <1>6, <1>7, <1>8, <1>9, <1>10, <1>11, <1>12 DEF SameTurns, SameWork

LEMMA Subscribing ==
  ASSUME Typed, NEW j \in Job, getEnabledSubscriptionsByWallet(j)
  PROVE  /\ job[j] \in Dispatch /\ At(j, "subs")
         /\ \E next \in Dispatch :
              /\ job' = [job EXCEPT ![j] = next] /\ Sound(next)
              /\ next.step = "look" /\ SameWork(job[j], next)
         /\ UNCHANGED <<indexer, store, cursor, dispatchLog, deaths, observed>>
         /\ Typed'
<1> DEFINE r == job[j]
<1>1. r \in Dispatch /\ Sound(r) /\ At(j, "subs")
  BY Active DEF getEnabledSubscriptionsByWallet, At
<1>2. PICK pairs \in Seq(Told) : pairs = Pairs(r.signals)
  BY <1>1, DispatchTyped, PairsOf
<1> DEFINE q == Go(j, "look")
           next == [q EXCEPT !.subs = subscriptions, !.pairs = pairs, !.signals = <<>>, !.turn = 1]
<1>3. q \in Dispatch /\ q.step = "look" /\ SameTurns(r, q) /\ q.turn = r.turn
  BY <1>1, GoesOn DEF Go, Stages
<1>4. job' = [job EXCEPT ![j] = next]
  BY <1>2 DEF getEnabledSubscriptionsByWallet, Step
<1> HIDE DEF q
<1>5. next \in Dispatch
  <2>1. <<>> \in Seq(Signal) /\ 1 \in Nat \ {0} /\ subscriptions \in [Wallet -> SUBSET Device]
    BY DEF Typed
  <2> QED
    BY <1>2, <1>3, <2>1 DEF Dispatch
<1>6. /\ next.step = q.step /\ next.modes = q.modes /\ next.min = q.min
      /\ next.page = q.page /\ next.pairs = pairs /\ next.turn = 1
  BY <1>3 DEF Dispatch
<1>7. Len(pairs) \in Nat
  BY <1>2
<1>8. Sound(next)
  BY <1>1, <1>3, <1>6, <1>7 DEF Sound, SameTurns, SameWork
<1>9. UNCHANGED <<indexer, store, cursor, dispatchLog, deaths, observed>>
  BY DEF getEnabledSubscriptionsByWallet, Step, store, indexer, observed
<1> HIDE DEF next
<1>10. Typed'
  <2>1. UNCHANGED <<now, rows, preferences>> /\ subscriptions' = subscriptions /\ cursor' = cursor
    BY <1>9 DEF indexer, store
  <2> QED
    BY <1>4, <1>5, <1>8, <2>1, TypedOn DEF Typed
<1> QED
  BY <1>1, <1>3, <1>4, <1>5, <1>6, <1>8, <1>9, <1>10 DEF SameTurns, SameWork

\* The next cursor is the last or the time of a row of the page, and no row of
\* the page is later.
LEMMA NextCursor ==
  ASSUME Typed, NEW j \in Job, job[j] \in Dispatch, Sound(job[j])
  PROVE  LET c == nextCursor(j)
             min == job[j].min[mode(j)]
         IN  /\ min \in Nat /\ min <= c /\ c \in 0..now
             /\ c = min \/ \E p \in Range(job[j].page) : c = rows[p].time
<1> DEFINE min == job[j].min[mode(j)]
           S == {min} \cup Times(j)
<1>1. min \in Nat /\ min <= now /\ now \in Nat
  BY DispatchTyped, PushConstants DEF Sound, Typed, mode
<1>2. \A t \in Times(j) : t \in Nat /\ t <= now
  BY RowTyped DEF Times, Sound
<1>3. S \subseteq Nat /\ S # {} /\ \A x \in S : x <= now
  BY <1>1, <1>2
<1> HIDE DEF S
<1>4. Max(S) \in S /\ \A x \in S : x <= Max(S)
  BY <1>1, <1>3, MaxOf
<1>5. nextCursor(j) = Max(S)
  BY DEF nextCursor, S
<1>6. min \in S
  BY DEF S
<1>7. Max(S) \in Nat /\ min <= Max(S) /\ Max(S) <= now
  BY <1>3, <1>4, <1>6
<1>8. Max(S) = min \/ \E p \in Range(job[j].page) : Max(S) = rows[p].time
  BY <1>4 DEF S, Times
<1> QED
  BY <1>1, <1>5, <1>7, <1>8

LEMMA Finishing ==
  ASSUME Typed, NEW j \in Job, Finish(j)
  PROVE  /\ job[j] \in Dispatch /\ Sound(job[j]) /\ At(j, "look")
         /\ \E next \in {None} \cup Dispatch :
              /\ job' = [job EXCEPT ![j] = next]
              /\ next.step # "off" => Sound(next)
              /\ next.step \in {"off", "fetch"}
              /\ next.step # "off" => /\ next.min = job[j].min
                                      /\ Range(next.modes) \subseteq Range(job[j].modes)
         /\ cursor' = [cursor EXCEPT ![mode(j)] = nextCursor(j)]
         /\ worked' = [worked EXCEPT ![mode(j)] = @ \cup Range(job[j].page)]
         /\ UNCHANGED <<indexer, store, dispatchLog, deaths, told, overlapped, untold>>
         /\ Typed'
<1> DEFINE r == job[j]
<1>1. r \in Dispatch /\ Sound(r) /\ At(j, "look")
  BY Active DEF Finish, At
<1>2. PICK next : /\ job' = [job EXCEPT ![j] = next]
                  /\ next = IF Len(r.modes) = 1 THEN None
                            ELSE [Go(j, "fetch") EXCEPT !.modes = Tail(@)]
  BY DEF Finish, Step
<1>3. /\ next \in {None} \cup Dispatch /\ (next.step # "off" => Sound(next))
      /\ next.step \in {"off", "fetch"}
      /\ next.step # "off" => next.min = r.min /\ Range(next.modes) \subseteq Range(r.modes)
  <2>1. CASE Len(r.modes) = 1
    BY <1>2, <2>1 DEF None
  <2>2. CASE Len(r.modes) # 1
    <3> DEFINE q == Go(j, "fetch")
    <3>1. q \in Dispatch /\ q.step = "fetch" /\ SameTurns(r, q) /\ q.turn = r.turn
      BY <1>1, GoesOn DEF Go, Stages
    <3>2. next = [q EXCEPT !.modes = Tail(@)]
      BY <1>2, <2>2
    <3> HIDE DEF q
    <3>3. q.modes = r.modes /\ q.min = r.min /\ q.page = r.page /\ q.pairs = r.pairs
      BY <3>1 DEF SameTurns, SameWork
    <3>4. Tail(q.modes) \in AllModes /\ Range(Tail(q.modes)) \subseteq Range(r.modes)
      BY <1>1, <2>2, <3>3, DispatchTyped, ModesLeft
    <3>5. next \in Dispatch
      BY <3>1, <3>2, <3>4 DEF Dispatch
    <3>6. /\ next.step = q.step /\ next.modes = Tail(q.modes) /\ next.min = q.min
          /\ next.page = q.page /\ next.pairs = q.pairs /\ next.turn = q.turn
      BY <3>1, <3>2 DEF Dispatch
    <3>7. Sound(next)
      BY <1>1, <3>1, <3>3, <3>6 DEF Sound
    <3> QED
      BY <3>1, <3>3, <3>4, <3>5, <3>6, <3>7
  <2> QED
    BY <2>1, <2>2
<1>4. /\ cursor' = [cursor EXCEPT ![mode(j)] = nextCursor(j)]
      /\ worked' = [worked EXCEPT ![mode(j)] = @ \cup Range(job[j].page)]
      /\ UNCHANGED <<indexer, store, dispatchLog, deaths, told, overlapped, untold>>
  BY DEF Finish, Step, store
<1>5. Typed'
  <2>1. UNCHANGED <<now, rows, preferences>> /\ subscriptions' = subscriptions
    BY <1>4 DEF indexer, store
  <2>2. nextCursor(j) \in 0..now
    BY <1>1, NextCursor
  <2>3. cursor' \in [Mode -> 0..now]
    BY <1>4, <2>2 DEF Typed
  <2> QED
    BY <1>2, <1>3, <2>1, <2>3, TypedOn DEF Typed
<1> QED
  BY <1>1, <1>2, <1>3, <1>4, <1>5

LEMMA Starting ==
  ASSUME Typed, NEW j \in Job, NEW modes \in AllModes, Start(j, modes)
  PROVE  /\ At(j, "off")
         /\ \E next \in Dispatch :
              /\ job' = [job EXCEPT ![j] = next] /\ Sound(next)
              /\ next.step = "fetch" /\ next.modes = modes /\ next.min = cursor
         /\ overlapped' = overlapped \cup
              {m \in Range(modes) : \E k \in Job : ~ At(k, "off") /\ m \in Range(job[k].modes)}
         /\ UNCHANGED <<indexer, store, cursor, dispatchLog, deaths, told, worked, untold>>
         /\ Typed'
<1> DEFINE next == [step |-> "fetch", modes |-> modes, min |-> cursor, page |-> <<>>,
                    signals |-> <<>>, subs |-> <<>>, pairs |-> <<>>, turn |-> 1]
<1>1. cursor \in [Mode -> Nat] /\ (\A m \in Mode : cursor[m] <= now)
  BY PushConstants DEF Typed
<1>2. next \in Dispatch
  <2>1. <<>> \in Seq(Nat) /\ <<>> \in Seq(Signal) /\ <<>> \in Seq(Told) /\ 1 \in Nat \ {0}
    OBVIOUS
  <2> QED
    BY <1>1, <2>1 DEF Dispatch
<1>3. Sound(next)
  BY <1>1 DEF Sound, Range
<1>4. /\ At(j, "off") /\ job' = [job EXCEPT ![j] = next]
      /\ overlapped' = overlapped \cup
           {m \in Range(modes) : \E k \in Job : ~ At(k, "off") /\ m \in Range(job[k].modes)}
      /\ UNCHANGED <<indexer, store, cursor, dispatchLog, deaths, told, worked, untold>>
  BY DEF Start, Step, store
<1>5. Typed'
  <2>1. UNCHANGED <<now, rows, preferences>> /\ subscriptions' = subscriptions /\ cursor' = cursor
    BY <1>4 DEF indexer, store
  <2> HIDE DEF next
  <2> QED
    BY <1>2, <1>3, <1>4, <2>1, TypedOn DEF Typed
<1> QED
  BY <1>2, <1>3, <1>4, <1>5

LEMMA Dying ==
  ASSUME Typed, NEW j \in Job, Die(j)
  PROVE  /\ ~ At(j, "off") /\ job' = [job EXCEPT ![j] = None]
         /\ untold' = (untold \/ At(j, "log"))
         /\ UNCHANGED <<indexer, store, cursor, dispatchLog, told, worked, overlapped>>
         /\ Typed'
<1>1. /\ ~ At(j, "off") /\ job' = [job EXCEPT ![j] = None]
      /\ untold' = (untold \/ At(j, "log"))
      /\ UNCHANGED <<indexer, store, cursor, dispatchLog, told, worked, overlapped>>
  BY DEF Die
<1>2. None.step = "off"
  BY DEF None
<1>3. Typed'
  BY <1>1, <1>2, TypedOn DEF Typed, indexer, store
<1> QED
  BY <1>1, <1>3

\* Of the world, time goes on and rows are added at the end.
LEMMA WorldMoves ==
  ASSUME Typed, WorldStep
  PROVE  /\ UNCHANGED <<cursor, dispatchLog, job, deaths, observed>>
         /\ now' \in Nat /\ now <= now'
         /\ \/ rows' = rows
            \/ \E row \in Row : /\ rows' = Append(rows, row)
                                /\ row.time \in Nat /\ 0 < row.time
         /\ Typed'
<1>1. UNCHANGED <<cursor, dispatchLog, job, deaths, observed>>
  BY DEF WorldStep, Tick, Index, Change, Subscribe, Unsubscribe, SetPreferences, Worker
<1>2. now \in Nat /\ now' \in 1..MaxTime /\ now' \in Nat /\ now <= now'
  <2>1. now' = now \/ (now < MaxTime /\ now' = now + 1)
    BY DEF WorldStep, Tick, Index, Change, Subscribe, Unsubscribe, SetPreferences, indexer
  <2>2. PICK n \in 1..MaxTime : n = now
    BY DEF Typed
  <2>3. PICK k \in 1..MaxTime : n <= k /\ k = now'
    BY <2>1, <2>2, PushConstants
  <2> QED
    BY <2>2, <2>3, PushConstants
<1>3. subscriptions' \in [Wallet -> SUBSET Device]
  BY DEF WorldStep, Tick, Index, Change, Subscribe, Unsubscribe, SetPreferences,
         Typed, indexer, store
<1>4. preferences' \in [Wallet -> SUBSET Switch]
  BY PushConstants DEF WorldStep, Tick, Index, Change, Subscribe, Unsubscribe, SetPreferences,
                       Typed, indexer, store
<1>5. \/ rows' = rows
      \/ \E row \in Row : /\ rows' = Append(rows, row) /\ row.time <= now
                          /\ Len(rows) < MaxRows /\ row.time \in Nat /\ 0 < row.time
  <2>1. CASE \E c \in Chain, t \in 1..MaxTime, k \in Kind, w \in Wallet : Index(c, t, k, w)
    <3>1. PICK c \in Chain, t \in 1..MaxTime, k \in Kind, w \in Wallet : Index(c, t, k, w)
      BY <2>1
    <3> DEFINE row == [chain |-> c, time |-> t, kind |-> k, account |-> w]
    <3>2. row \in Row /\ row.time = t
      BY DEF Row
    <3>3. rows' = Append(rows, row) /\ t <= now /\ Len(rows) < MaxRows
      BY <3>1 DEF Index
    <3> HIDE DEF row
    <3> QED
      BY <3>2, <3>3, PushConstants
  <2>2. CASE ~ \E c \in Chain, t \in 1..MaxTime, k \in Kind, w \in Wallet : Index(c, t, k, w)
    BY <2>2 DEF WorldStep, Tick, Change, Subscribe, Unsubscribe, SetPreferences, indexer
  <2> QED
    BY <2>1, <2>2
<1>6. /\ rows' \in Seq(Row) /\ Len(rows') <= MaxRows /\ DOMAIN rows \subseteq DOMAIN rows'
      /\ \A n \in DOMAIN rows' : rows'[n].time <= now'
  <2>1. rows \in Seq(Row) /\ Len(rows) \in Nat /\ Len(rows) <= MaxRows /\ DOMAIN rows = 1..Len(rows)
    BY DEF Typed
  <2>2. \A n \in DOMAIN rows : rows[n].time \in Nat /\ rows[n].time <= now
    BY RowTyped
  <2>3. CASE rows' = rows
    BY <2>1, <2>2, <2>3, <1>2
  <2>4. ASSUME NEW row \in Row, rows' = Append(rows, row), row.time <= now, Len(rows) < MaxRows,
               row.time \in Nat
        PROVE  /\ rows' \in Seq(Row) /\ Len(rows') <= MaxRows /\ DOMAIN rows \subseteq DOMAIN rows'
               /\ \A n \in DOMAIN rows' : rows'[n].time <= now'
    <3>1. /\ rows' \in Seq(Row) /\ Len(rows') = Len(rows) + 1 /\ DOMAIN rows' = 1..(Len(rows) + 1)
          /\ \A n \in 1..Len(rows) : rows'[n] = rows[n]
          /\ rows'[Len(rows) + 1] = row
      BY <2>1, <2>4
    <3>2. \A n \in DOMAIN rows' : n \in 1..Len(rows) \/ n = Len(rows) + 1
      BY <2>1, <3>1
    <3>3. row.time <= now'
      BY <2>4, <1>2
    <3>4. \A n \in 1..Len(rows) : rows'[n].time <= now'
      BY <3>1, <2>1, <2>2, <1>2
    <3>5. Len(rows') <= MaxRows
      BY <2>1, <2>4, <3>1, PushConstants
    <3> QED
      BY <2>1, <3>1, <3>2, <3>3, <3>4, <3>5
  <2> QED
    BY <1>5, <2>3, <2>4
<1>7. cursor' \in [Mode -> 0..now']
  BY <1>1, <1>2 DEF Typed
<1>8. ASSUME NEW i \in Job, ~ At(i, "off")'
      PROVE  Sound(job[i])'
  <2>1. job' = job
    BY <1>1
  <2>2. job[i] \in Dispatch /\ Sound(job[i])
    BY <1>8, <2>1, Active DEF At
  <2>3. job[i].min \in [Mode -> Nat]
    BY <2>2, DispatchTyped
  <2>4. \A m \in Mode : job[i].min[m] <= now'
    BY <2>2, <2>3, <1>2 DEF Sound
  <2> QED
    BY <2>1, <2>2, <2>4, <1>6 DEF Sound
<1>9. Typed'
  BY <1>1, <1>2, <1>3, <1>4, <1>6, <1>7, <1>8 DEF Typed
<1> QED
  BY <1>1, <1>2, <1>5, <1>9

-----------------------------------------------------------------------------
(* What a cursor has passed.                                               *)

\* A cursor that says c shows a row or the beginning, and the rows in order up to
\* it were worked on.
Met(c, m) ==
  /\ c = 0 \/ \E n \in DOMAIN rows : rows[n].time = c
  /\ \A n \in DOMAIN rows : InOrder(n) /\ rows[n].time <= c => n \in worked[m]

\* With a row, a page has the rows in order between it and the cursor.
Whole(r) ==
  \A n \in DOMAIN rows, p \in Range(r.page) :
    InOrder(n) /\ r.min[Head(r.modes)] < rows[n].time /\ rows[n].time <= rows[p].time =>
      n \in Range(r.page)

Passed ==
  /\ \A m \in Mode : Met(cursor[m], m)
  /\ \A j \in Job : ~ At(j, "off") => \A m \in Mode : Met(job[j].min[m], m)
  /\ \A j \in Job : job[j].step \notin {"off", "fetch"} => Whole(job[j])

LEMMA MetKept ==
  ASSUME NEW c, NEW m, rows' = rows, worked[m] \subseteq worked'[m], Met(c, m)
  PROVE  Met(c, m)'
<1>1. \A n : InOrder(n)' <=> InOrder(n)
  BY DEF InOrder
<1> QED
  BY <1>1 DEF Met

LEMMA WholeKept ==
  ASSUME NEW r, rows' = rows, Whole(r)
  PROVE  Whole(r)'
<1>1. \A n : InOrder(n)' <=> InOrder(n)
  BY DEF InOrder
<1> QED
  BY <1>1 DEF Whole

\* What one dispatch does, the others and the cursors keep.
LEMMA PassedOn ==
  ASSUME Typed, Passed, NEW j \in Job, NEW next \in {None} \cup Dispatch,
         job' = [job EXCEPT ![j] = next], rows' = rows,
         \A m \in Mode : worked[m] \subseteq worked'[m],
         \A m \in Mode : Met(cursor[m], m)',
         next.step # "off" => \A m \in Mode : Met(next.min[m], m),
         next.step \notin {"off", "fetch"} => Whole(next)
  PROVE  Passed'
<1>0. job \in [Job -> {None} \cup Dispatch]
  BY DEF Typed
<1>1. ASSUME NEW i \in Job, ~ At(i, "off")', NEW m \in Mode
      PROVE  Met(job[i].min[m], m)'
  <2>1. CASE i = j
    <3>1. job'[i] = next /\ next.step # "off"
      BY <1>0, <1>1, <2>1 DEF At
    <3>2. Met(next.min[m], m)'
      BY <3>1, MetKept
    <3> QED
      BY <3>1, <3>2 DEF Met
  <2>2. CASE i # j
    <3>1. job'[i] = job[i]
      BY <1>0, <2>2
    <3> DEFINE c == job[i].min[m]
    <3>2. Met(c, m)
      BY <1>1, <3>1 DEF At, Passed
    <3>3. PICK d : d = c
      OBVIOUS
    <3>4. Met(d, m)'
      BY <3>2, <3>3, MetKept
    <3> QED
      BY <3>1, <3>3, <3>4 DEF Met
  <2> QED
    BY <2>1, <2>2
<1>2. ASSUME NEW i \in Job, job'[i].step \notin {"off", "fetch"}
      PROVE  Whole(job[i])'
  <2>1. PICK r : r = job'[i]
    OBVIOUS
  <2>2. CASE i = j
    <3>1. r = next
      BY <1>0, <2>1, <2>2
    <3>2. Whole(r)'
      BY <1>2, <2>1, <3>1, WholeKept
    <3> QED
      BY <2>1, <3>2 DEF Whole
  <2>3. CASE i # j
    <3>1. r = job[i]
      BY <1>0, <2>1, <2>3
    <3>2. Whole(r)
      BY <1>2, <2>1, <3>1 DEF Passed
    <3>3. Whole(r)'
      BY <3>2, WholeKept
    <3> QED
      BY <2>1, <3>3 DEF Whole
  <2> QED
    BY <2>2, <2>3
<1> QED
  BY <1>1, <1>2 DEF Passed

\* Steps that leave cursors and rows and what was worked on.
LEMMA PassedStill ==
  ASSUME Typed, Passed, NEW j \in Job, NEW next \in {None} \cup Dispatch,
         job' = [job EXCEPT ![j] = next], UNCHANGED <<rows, worked, cursor>>,
         next.step # "off" => \A m \in Mode : Met(next.min[m], m),
         next.step \notin {"off", "fetch"} => Whole(next)
  PROVE  Passed'
<1>1. \A m \in Mode : Met(cursor[m], m)'
  <2> TAKE m \in Mode
  <2>1. PICK c : c = cursor[m]
    OBVIOUS
  <2>2. Met(c, m)'
    BY <2>1, MetKept DEF Passed
  <2> QED
    BY <2>1, <2>2
<1> QED
  BY <1>1, PassedOn

LEMMA TurningPasses ==
  ASSUME Typed, Passed, NEW j \in Job, Look(j) \/ Check(j) \/ Send(j) \/ Record(j)
  PROVE  Passed'
<1>1. /\ job[j] \in Dispatch /\ job[j].step \in {"look", "check", "send", "log"}
      /\ UNCHANGED <<rows, worked, cursor>>
  BY Turning
<1>2. PICK next \in Dispatch : /\ job' = [job EXCEPT ![j] = next]
                               /\ SameTurns(job[j], next) /\ next.step \notin {"off", "fetch"}
  BY Turning
<1>3. Whole(job[j]) /\ \A m \in Mode : Met(job[j].min[m], m)
  BY <1>1 DEF Passed, At
<1>4. Whole(next) /\ \A m \in Mode : Met(next.min[m], m)
  BY <1>2, <1>3 DEF SameTurns, SameWork, Whole
<1> QED
  BY <1>1, <1>2, <1>4, PassedStill

LEMMA SubscribingPasses ==
  ASSUME Typed, Passed, NEW j \in Job, getEnabledSubscriptionsByWallet(j)
  PROVE  Passed'
<1>1. PICK next \in Dispatch : /\ job' = [job EXCEPT ![j] = next]
                               /\ next.step = "look" /\ SameWork(job[j], next)
  BY Subscribing
<1>2. At(j, "subs") /\ UNCHANGED <<rows, worked, cursor>>
  BY Subscribing DEF indexer, observed
<1>3. Whole(job[j]) /\ \A m \in Mode : Met(job[j].min[m], m)
  BY <1>2 DEF Passed, At
<1>4. Whole(next) /\ \A m \in Mode : Met(next.min[m], m)
  BY <1>1, <1>3 DEF SameWork, Whole
<1> QED
  BY <1>1, <1>2, <1>4, PassedStill

LEMMA FetchingPasses ==
  ASSUME Typed, Passed, NEW j \in Job, Fetch(j)
  PROVE  Passed'
<1> DEFINE min == job[j].min[mode(j)]
<1>1. PICK next \in Dispatch, page \in Pages(min) :
        /\ job' = [job EXCEPT ![j] = next]
        /\ next.page = page /\ next.modes = job[j].modes /\ next.min = job[j].min
  BY Fetching
<1>2. job[j] \in Dispatch /\ At(j, "fetch") /\ UNCHANGED <<rows, worked, cursor>>
  BY Fetching DEF Fetch, indexer, observed
<1>3. min \in Nat
  BY <1>2, DispatchTyped DEF mode
<1>4. \A m \in Mode : Met(next.min[m], m)
  BY <1>1, <1>2 DEF Passed, At
<1>5. Whole(next)
  <2> SUFFICES ASSUME NEW n \in DOMAIN rows, NEW p \in Range(page), InOrder(n),
                      min < rows[n].time, rows[n].time <= rows[p].time
               PROVE  n \in Range(page)
    BY <1>1 DEF Whole, mode
  <2>1. p \in DOMAIN rows
    BY <1>3, PageOf
  <2>2. rows[n].time \in Nat /\ rows[p].time \in Nat /\ n \in Nat /\ p \in Nat
    BY <2>1, RowTyped
  <2>3. n = p \/ rows[n].time < rows[p].time
    BY <2>1, <2>2 DEF InOrder
  <2> QED
    BY <1>3, <2>3, PageOf
<1> QED
  BY <1>1, <1>2, <1>4, <1>5, PassedStill

LEMMA FinishingPasses ==
  ASSUME Typed, Passed, NEW j \in Job, Finish(j), worked \in [Mode -> SUBSET Nat]
  PROVE  Passed'
<1> DEFINE r == job[j]
           c == nextCursor(j)
           min == r.min[mode(j)]
<1>1. r \in Dispatch /\ Sound(r) /\ At(j, "look") /\ rows' = rows
  BY Finishing DEF indexer
<1>2. PICK next \in {None} \cup Dispatch :
        /\ job' = [job EXCEPT ![j] = next] /\ next.step \in {"off", "fetch"}
        /\ next.step # "off" => next.min = r.min
  BY Finishing
<1>3. /\ cursor' = [cursor EXCEPT ![mode(j)] = c]
      /\ worked' = [worked EXCEPT ![mode(j)] = @ \cup Range(r.page)]
  BY DEF Finish
<1>4. \A m \in Mode : Met(r.min[m], m)
  BY <1>1, DispatchTyped DEF Passed, At
<1>5. Whole(r)
  BY <1>1 DEF Passed, At
<1>6. mode(j) \in Mode
  BY <1>1, DispatchTyped DEF mode
<1>7. \A m \in Mode : worked[m] \subseteq worked'[m]
  BY <1>3
<1>8. /\ min \in Nat /\ min <= c /\ c \in Nat
      /\ c = min \/ \E p \in Range(r.page) : c = rows[p].time
  BY <1>1, NextCursor, PushConstants DEF Typed
<1> HIDE DEF c
<1>9. ASSUME NEW k, k = c, NEW m, m = mode(j)
      PROVE  Met(k, m)'
  <2>1. c = 0 \/ \E n \in DOMAIN rows : rows[n].time = c
    <3>1. CASE c = min
      BY <1>4, <1>6, <3>1 DEF Met
    <3>2. CASE c # min
      BY <1>1, <1>8, <3>2 DEF Sound
    <3> QED
      BY <3>1, <3>2
  <2>2. ASSUME NEW n \in DOMAIN rows, InOrder(n), rows[n].time <= c
        PROVE  n \in worked[mode(j)] \cup Range(r.page)
    <3>1. rows[n].time \in Nat
      BY RowTyped
    <3>2. CASE rows[n].time <= min
      BY <1>4, <1>6, <2>2, <3>2 DEF Met
    <3>3. CASE ~ (rows[n].time <= min)
      <4>1. min < rows[n].time /\ c # min
        BY <1>8, <2>2, <3>1, <3>3
      <4>2. PICK p \in Range(r.page) : c = rows[p].time
        BY <1>8, <4>1
      <4> QED
        BY <1>5, <2>2, <4>1, <4>2 DEF Whole, mode
    <3> QED
      BY <3>2, <3>3
  <2>3. worked'[mode(j)] = worked[mode(j)] \cup Range(r.page)
    BY <1>3, <1>6
  <2>4. \A n : InOrder(n)' <=> InOrder(n)
    BY <1>1 DEF InOrder
  <2> QED
    BY <1>1, <1>9, <2>1, <2>2, <2>3, <2>4 DEF Met
<1>10. ASSUME NEW m \in Mode
       PROVE  Met(cursor[m], m)'
  <2>1. PICK k : k = cursor'[m]
    OBVIOUS
  <2>2. Met(k, m)'
    <3>1. CASE m = mode(j)
      <4>1. k = c
        BY <1>3, <2>1, <3>1 DEF Typed
      <4> QED
        BY <1>9, <3>1, <4>1
    <3>2. CASE m # mode(j)
      <4>1. k = cursor[m]
        BY <1>3, <2>1, <3>2 DEF Typed
      <4>2. Met(k, m)
        BY <4>1 DEF Passed
      <4> QED
        BY <1>1, <1>7, <4>2, MetKept
    <3> QED
      BY <3>1, <3>2
  <2> QED
    BY <2>1, <2>2
<1>11. next.step # "off" => \A m \in Mode : Met(next.min[m], m)
  BY <1>2, <1>4
<1> QED
  BY <1>1, <1>2, <1>7, <1>10, <1>11, PassedOn

LEMMA StartingPasses ==
  ASSUME Typed, Passed, NEW j \in Job, NEW modes \in AllModes, Start(j, modes)
  PROVE  Passed'
<1>1. PICK next \in Dispatch : /\ job' = [job EXCEPT ![j] = next] /\ Sound(next)
                               /\ next.step = "fetch" /\ next.modes = modes /\ next.min = cursor
  BY Starting
<1>2. UNCHANGED <<rows, worked, cursor>>
  BY Starting DEF indexer
<1>3. \A m \in Mode : Met(next.min[m], m)
  BY <1>1 DEF Passed
<1> QED
  BY <1>1, <1>2, <1>3, PassedStill

LEMMA DyingPasses ==
  ASSUME Typed, Passed, NEW j \in Job, Die(j)
  PROVE  Passed'
<1>1. job' = [job EXCEPT ![j] = None] /\ None.step = "off" /\ UNCHANGED <<rows, worked, cursor>>
  BY Dying DEF indexer, None
<1> QED
  BY <1>1, PassedStill

\* A row in order is an old one, or later than all others.
RowsAdded ==
  /\ \A n \in DOMAIN rows' :
       InOrder(n)' => \/ n \in DOMAIN rows /\ InOrder(n) /\ rows'[n] = rows[n]
                      \/ /\ \A k \in DOMAIN rows : rows[k].time < rows'[n].time
                         /\ 0 < rows'[n].time /\ rows'[n].time \in Nat
  /\ \A n \in DOMAIN rows : n \in DOMAIN rows' /\ rows'[n] = rows[n]

LEMMA WorldPasses ==
  ASSUME Typed, Passed, WorldStep
  PROVE  Passed'
<1>1. UNCHANGED <<cursor, job, worked>>
  BY WorldMoves DEF observed
<1>2. RowsAdded
  <2>1. CASE rows' = rows
    <3>1. \A n : InOrder(n)' <=> InOrder(n)
      BY <2>1 DEF InOrder
    <3> QED
      BY <2>1, <3>1 DEF RowsAdded
  <2>2. ASSUME NEW row \in Row, rows' = Append(rows, row), row.time \in Nat, 0 < row.time
        PROVE  RowsAdded
    <3> DEFINE N == Len(rows)
    <3>1. N \in Nat /\ DOMAIN rows = 1..N /\ rows \in Seq(Row)
      BY DEF Typed
    <3>2. /\ DOMAIN rows' = 1..(N + 1) /\ rows'[N + 1] = row
          /\ \A n \in 1..N : rows'[n] = rows[n]
      BY <2>2, <3>1
    <3> HIDE DEF N
    <3>3. ASSUME NEW n \in DOMAIN rows', InOrder(n)', n # N + 1
          PROVE  n \in DOMAIN rows /\ InOrder(n) /\ rows'[n] = rows[n]
      <4>1. n \in 1..N /\ \A m \in 1..N : m \in DOMAIN rows' /\ rows'[m] = rows[m]
        BY <3>1, <3>2, <3>3
      <4> QED
        BY <3>1, <3>3, <4>1 DEF InOrder
    <3>4. ASSUME NEW n, n = N + 1, InOrder(n)', NEW k \in DOMAIN rows
          PROVE  rows[k].time < rows'[n].time
      <4>1. k \in DOMAIN rows' \ {n} /\ k < n /\ rows'[k] = rows[k]
        BY <3>1, <3>2, <3>4
      <4> QED
        BY <3>4, <4>1 DEF InOrder
    <3>5. \A n \in 1..N : n \in 1..(N + 1)
      BY <3>1
    <3> QED
      BY <2>2, <3>1, <3>2, <3>3, <3>4, <3>5 DEF RowsAdded
  <2> QED
    BY <2>1, <2>2, WorldMoves
<1>3. ASSUME NEW c, NEW m, Met(c, m)
      PROVE  Met(c, m)'
  <2>1. c = 0 \/ \E n \in DOMAIN rows' : rows'[n].time = c
    BY <1>2, <1>3 DEF Met, RowsAdded
  <2>2. ASSUME NEW n \in DOMAIN rows', InOrder(n)', rows'[n].time <= c
        PROVE  n \in worked'[m]
    <3>1. CASE n \in DOMAIN rows /\ InOrder(n) /\ rows'[n] = rows[n]
      BY <1>1, <1>3, <2>2, <3>1 DEF Met
    <3>2. CASE /\ \A k \in DOMAIN rows : rows[k].time < rows'[n].time
               /\ 0 < rows'[n].time /\ rows'[n].time \in Nat
      <4>1. PICK t \in Nat : t = rows'[n].time
        BY <3>2
      <4>2. c = 0 \/ \E k \in DOMAIN rows : rows[k].time = c /\ rows[k].time \in Nat
        BY <1>3, RowTyped DEF Met
      <4> QED
        BY <2>2, <3>2, <4>1, <4>2
    <3> QED
      BY <1>2, <2>2, <3>1, <3>2 DEF RowsAdded
  <2> QED
    BY <2>1, <2>2 DEF Met
<1>4. ASSUME NEW r, Whole(r), Range(r.page) \subseteq DOMAIN rows
      PROVE  Whole(r)'
  <2> SUFFICES ASSUME NEW n \in DOMAIN rows', NEW p \in Range(r.page), InOrder(n)',
                      r.min[Head(r.modes)] < rows'[n].time, rows'[n].time <= rows'[p].time
               PROVE  n \in Range(r.page)
    BY DEF Whole
  <2>1. rows'[p] = rows[p] /\ rows[p].time \in Nat
    BY <1>2, <1>4, RowTyped DEF RowsAdded
  <2>2. CASE n \in DOMAIN rows /\ InOrder(n) /\ rows'[n] = rows[n]
    BY <1>4, <2>1, <2>2 DEF Whole
  <2>3. CASE /\ \A k \in DOMAIN rows : rows[k].time < rows'[n].time
             /\ 0 < rows'[n].time /\ rows'[n].time \in Nat
    BY <1>4, <2>1, <2>3
  <2> QED
    BY <1>2, <2>2, <2>3 DEF RowsAdded
<1>5. \A m \in Mode : Met(cursor[m], m)'
  <2> TAKE m \in Mode
  <2>1. PICK c : c = cursor[m]
    OBVIOUS
  <2>2. Met(c, m)'
    BY <2>1, <1>3 DEF Passed
  <2> QED
    BY <1>1, <2>1, <2>2
<1>6. ASSUME NEW j \in Job, ~ At(j, "off")', NEW m \in Mode
      PROVE  Met(job[j].min[m], m)'
  <2>1. PICK c : c = job[j].min[m]
    OBVIOUS
  <2>2. Met(c, m)
    BY <1>1, <1>6, <2>1 DEF Passed, At
  <2>3. Met(c, m)'
    BY <2>2, <1>3
  <2> QED
    BY <1>1, <2>1, <2>3
<1>7. ASSUME NEW j \in Job, job'[j].step \notin {"off", "fetch"}
      PROVE  Whole(job[j])'
  <2>1. PICK r : r = job[j]
    OBVIOUS
  <2>2. Whole(r) /\ Range(r.page) \subseteq DOMAIN rows
    BY <1>1, <1>7, <2>1 DEF Passed, Typed, At, Sound
  <2>3. Whole(r)'
    BY <2>2, <1>4
  <2> QED
    BY <1>1, <2>1, <2>3
<1> QED
  BY <1>5, <1>6, <1>7 DEF Passed

-----------------------------------------------------------------------------
(* What was told, and the log of it.                                       *)

KeyOf(r) == Key(r.pairs[r.turn])
IsRealtime(r) == r.step # "off" /\ "realtime" \in Range(r.modes)

ToldTyped ==
  /\ \A k \in DOMAIN told : /\ told[k] \in Seq(Nat) /\ told[k] # <<>>
                            /\ \A i \in DOMAIN told[k] : told[k][i] <= now
  /\ \A k \in DOMAIN dispatchLog : dispatchLog[k] \in Nat /\ k \in DOMAIN told /\ told[k][1] <= dispatchLog[k]
  /\ \A j \in Job : At(j, "log") => KeyOf(job[j]) \in DOMAIN told

Spaced(k) ==
  \A a, b \in DOMAIN told[k] :
    a < b => k[2] = <<"reserve">> /\ told[k][b] - told[k][a] >= Cooldown

\* What was told is in the log, or about to be.
LoggedOnce(k) ==
  \/ k \in DOMAIN dispatchLog /\ \A i \in DOMAIN told[k] : told[k][i] <= dispatchLog[k]
  \/ \E j \in Job : At(j, "log") /\ KeyOf(job[j]) = k

\* The log lets the event of the turn be told.
Free(r) ==
  LET cooldown == r.pairs[r.turn].signal.cooldown
  IN \/ KeyOf(r) \notin DOMAIN dispatchLog
     \/ cooldown > 0 /\ now - dispatchLog[KeyOf(r)] >= cooldown

OneRealtime == \A i, j \in Job : IsRealtime(job[i]) /\ IsRealtime(job[j]) => i = j

Undisturbed == "realtime" \notin overlapped /\ ~ untold

Once ==
  /\ OneRealtime
  /\ \A k \in DOMAIN told : Spaced(k) /\ LoggedOnce(k)
  /\ \A j \in Job : At(j, "send") /\ Head(job[j].modes) = "realtime" => Free(job[j])

Remembers == ToldTyped /\ (Undisturbed => Once)

LEMMA HeadIn ==
  ASSUME NEW r \in Dispatch, Head(r.modes) = "realtime"
  PROVE  IsRealtime(r)
BY DispatchTyped, ModesLeft DEF IsRealtime

\* A step of one dispatch that tells nobody and logs nothing.
LEMMA SilentRemembers ==
  ASSUME Typed, Remembers, NEW j \in Job, NEW next \in {None} \cup Dispatch,
         job' = [job EXCEPT ![j] = next], UNCHANGED <<now, told, dispatchLog>>,
         Undisturbed' => Undisturbed,
         At(j, "log") => untold', next.step # "log",
         next.step = "send" /\ Head(next.modes) = "realtime" => Free(next),
         Undisturbed' /\ IsRealtime(next) =>
           IsRealtime(job[j]) \/ \A i \in Job : ~ IsRealtime(job[i])
  PROVE  Remembers'
<1>0. job \in [Job -> {None} \cup Dispatch]
  BY DEF Typed
<1>1. \A i \in Job : job'[i] = IF i = j THEN next ELSE job[i]
  BY <1>0
<1>2. ToldTyped'
  <2>1. \A i \in Job : At(i, "log")' => At(i, "log") /\ job'[i] = job[i]
    BY <1>1 DEF At
  <2>2. \A i \in Job : At(i, "log")' => KeyOf(job[i])' \in DOMAIN told
    BY <2>1 DEF Remembers, ToldTyped, KeyOf
  <2> QED
    BY <2>2 DEF Remembers, ToldTyped
<1>3. ASSUME Undisturbed'
      PROVE  Once'
  <2>1. Once /\ ~ At(j, "log")
    BY <1>3 DEF Remembers, Undisturbed
  <2>2. OneRealtime'
    <3> SUFFICES ASSUME NEW h \in Job, NEW i \in Job, IsRealtime(job'[h]), IsRealtime(job'[i]), h # i
                 PROVE  FALSE
      BY DEF OneRealtime, IsRealtime
    <3>1. \A g \in Job : g # j => job'[g] = job[g]
      BY <1>1
    <3>2. \A f, g \in Job : IsRealtime(job[f]) /\ IsRealtime(job[g]) => f = g
      BY <2>1 DEF Once, OneRealtime
    <3>3. IsRealtime(job'[j]) => IsRealtime(job[j]) \/ \A g \in Job : ~ IsRealtime(job[g])
      BY <1>1, <1>3
    <3>4. CASE h # j /\ i # j
      BY <3>1, <3>2, <3>4
    <3>5. CASE h = j
      BY <3>1, <3>2, <3>3, <3>5
    <3>6. CASE i = j
      BY <3>1, <3>2, <3>3, <3>6
    <3> QED
      BY <3>4, <3>5, <3>6
  <2>3. ASSUME NEW k \in DOMAIN told
        PROVE  Spaced(k)' /\ LoggedOnce(k)'
    <3>1. Spaced(k) /\ LoggedOnce(k)
      BY <2>1 DEF Once
    <3>2. \A i \in Job : At(i, "log") => job'[i] = job[i]
      BY <1>1, <2>1
    <3> QED
      BY <3>1, <3>2 DEF Spaced, LoggedOnce, At, KeyOf
  <2>4. ASSUME NEW i \in Job, At(i, "send")', Head(job'[i].modes) = "realtime"
        PROVE  Free(job[i])'
    <3>1. CASE i = j
      BY <1>1, <2>4, <3>1 DEF Free, At, KeyOf
    <3>2. CASE i # j
      BY <1>1, <2>1, <2>4, <3>2 DEF Free, At, KeyOf, Once
    <3> QED
      BY <3>1, <3>2
  <2> QED
    BY <2>2, <2>3, <2>4 DEF Once
<1> QED
  BY <1>2, <1>3 DEF Remembers

LEMMA WorldRemembers ==
  ASSUME Typed, Remembers, WorldStep
  PROVE  Remembers'
<1>1. UNCHANGED <<job, told, dispatchLog, overlapped, untold>>
  BY WorldMoves DEF observed
<1>2. now \in Nat /\ now' \in Nat /\ now <= now'
  BY WorldMoves, PushConstants DEF Typed
<1>3. ToldTyped'
  <2>1. \A k \in DOMAIN told : \A i \in DOMAIN told[k] : told[k][i] \in Nat /\ told[k][i] <= now
    BY DEF Remembers, ToldTyped
  <2>2. \A k \in DOMAIN told : \A i \in DOMAIN told[k] : told[k][i] <= now'
    BY <1>2, <2>1
  <2> QED
    BY <1>1, <2>2 DEF Remembers, ToldTyped, At, KeyOf
<1>4. ASSUME Undisturbed
      PROVE  Once'
  <2>1. Once
    BY <1>4 DEF Remembers
  <2>2. OneRealtime' /\ \A k \in DOMAIN told : Spaced(k)' /\ LoggedOnce(k)'
    BY <1>1, <2>1 DEF Once, OneRealtime, Spaced, LoggedOnce, IsRealtime, At, KeyOf
  <2>3. ASSUME NEW j \in Job, At(j, "send"), Head(job[j].modes) = "realtime"
        PROVE  Free(job[j])'
    <3>1. PICK r \in Dispatch : r = job[j] /\ Sound(r) /\ r.step = "send"
      BY <2>3, Active DEF At
    <3>2. r.pairs[r.turn] \in Told
      BY <3>1, DispatchTyped DEF Sound
    <3>3. PICK c \in Nat : c = r.pairs[r.turn].signal.cooldown
      BY <3>2, PushConstants DEF Told, Signal
    <3>4. Free(r)
      BY <2>1, <2>3, <3>1 DEF Once
    <3>5. CASE KeyOf(r) \notin DOMAIN dispatchLog
      BY <1>1, <3>1, <3>5 DEF Free, KeyOf
    <3>6. CASE KeyOf(r) \in DOMAIN dispatchLog
      <4>1. PICK t \in Nat : t = dispatchLog[KeyOf(r)]
        BY <3>6 DEF Remembers, ToldTyped
      <4>2. c > 0 /\ now - t >= c
        BY <3>3, <3>4, <3>6, <4>1 DEF Free
      <4>3. now' - t >= c
        BY <1>2, <3>3, <4>1, <4>2
      <4> QED
        BY <1>1, <3>1, <3>3, <4>1, <4>2, <4>3 DEF Free, KeyOf
    <3> QED
      BY <3>5, <3>6
  <2> QED
    BY <1>1, <2>2, <2>3 DEF Once, At
<1> QED
  BY <1>1, <1>3, <1>4 DEF Remembers, Undisturbed


\* A look at the preferences or at the log.
LEMMA LookingRemembers ==
  ASSUME Typed, Remembers, NEW j \in Job, Look(j) \/ Check(j)
  PROVE  Remembers'
<1> DEFINE r == job[j]
<1>1. r \in Dispatch /\ Sound(r) /\ ~ At(j, "log")
  BY Active DEF Look, Check, At
<1>2. UNCHANGED <<now, told, dispatchLog, overlapped, untold>>
  BY DEF Look, Check, Step, indexer, observed
<1>3. PICK next : /\ job' = [job EXCEPT ![j] = next]
                  /\ \/ next = NextTurn(j)
                     \/ Look(j) /\ next = Go(j, IF mode(j) = "digest" THEN "send" ELSE "check")
                     \/ Check(j) /\ next = Go(j, "send") /\ shouldDispatch(Pair(j))
  BY DEF Look, Check, Step
<1>4. /\ next \in Dispatch /\ next.step # "log" /\ next.modes = r.modes
      /\ next.step = "send" /\ Head(next.modes) = "realtime" => Free(next)
  <2>1. CASE next = NextTurn(j)
    BY <1>1, <2>1, Turns1 DEF NextTurn, SameTurns, SameWork
  <2>2. CASE Look(j) /\ next = Go(j, IF mode(j) = "digest" THEN "send" ELSE "check")
    <3>1. PICK step \in {"send", "check"} : /\ step = IF mode(j) = "digest" THEN "send" ELSE "check"
                                            /\ next = Go(j, step)
      BY <2>2
    <3>2. next \in Dispatch /\ next.step = step /\ next.modes = r.modes
      <4>1. step \in Stages /\ step # "log"
        BY DEF Stages
      <4> QED
        BY <1>1, <3>1, <4>1, GoesOn DEF Go, SameTurns, SameWork
    <3>3. step = "send" => mode(j) = "digest"
      BY <3>1
    <3> QED
      BY <3>1, <3>2, <3>3 DEF mode
  <2>3. CASE next = Go(j, "send") /\ shouldDispatch(Pair(j))
    <3>1. /\ next \in Dispatch /\ next.step = "send" /\ next.modes = r.modes
          /\ next.pairs = r.pairs /\ next.turn = r.turn
      BY <1>1, <2>3, GoesOn DEF Go, Stages, SameTurns, SameWork
    <3>2. Free(next)
      BY <2>3, <3>1 DEF Free, KeyOf, shouldDispatch, Pair
    <3> QED
      BY <3>1, <3>2
  <2> QED
    BY <1>3, <2>1, <2>2, <2>3
<1>5. IsRealtime(next) => IsRealtime(r)
  BY <1>1, <1>4, DispatchTyped DEF IsRealtime
<1> QED
  BY <1>1, <1>2, <1>3, <1>4, <1>5, SilentRemembers DEF Undisturbed

\* An event told goes from what the log allows to what is about to be logged.
LEMMA TellingRemembers ==
  ASSUME Typed, Remembers, NEW j \in Job, NEW next \in Dispatch,
         At(j, "send"), Head(job[j].modes) = "realtime",
         job' = [job EXCEPT ![j] = next], next.step = "log", next.modes = job[j].modes,
         KeyOf(next) = KeyOf(job[j]),
         UNCHANGED <<now, dispatchLog, overlapped, untold>>,
         NEW k, k = KeyOf(job[j]),
         NEW ts, ts = IF k \in DOMAIN told THEN told[k] ELSE <<>>,
         told' = With(told, k, Append(ts, now))
  PROVE  Remembers'
<1> DEFINE r == job[j]
<1>1. r \in Dispatch /\ Sound(r) /\ r.step = "send" /\ IsRealtime(r) /\ IsRealtime(next)
  BY Active, HeadIn DEF At
<1>2. job' \in [Job -> {None} \cup Dispatch] /\ \A i \in Job : job'[i] = IF i = j THEN next ELSE job[i]
  BY DEF Typed
<1>3. now \in Nat /\ ts \in Seq(Nat) /\ Len(ts) \in Nat /\ \A i \in DOMAIN ts : ts[i] <= now
  BY PushConstants DEF Remembers, ToldTyped, Typed
<1>4. /\ DOMAIN told' = DOMAIN told \cup {k} /\ told'[k] = Append(ts, now)
      /\ \A x \in DOMAIN told : x # k => told'[x] = told[x]
  BY DEF With
<1> DEFINE new == Append(ts, now)
           N == Len(ts)
<1>5. /\ new \in Seq(Nat) /\ new # <<>> /\ DOMAIN new = 1..(N + 1)
      /\ \A i \in 1..N : new[i] = ts[i] /\ ts[i] \in Nat /\ ts[i] <= now
      /\ new[N + 1] = now
  <2>1. /\ new \in Seq(Nat) /\ Len(new) = N + 1 /\ DOMAIN new = 1..(N + 1)
        /\ \A i \in 1..N : new[i] = ts[i]
        /\ new[N + 1] = now
    BY <1>3
  <2>2. new # <<>>
    <3>1. Len(<<>>) = 0
      OBVIOUS
    <3>2. N + 1 # 0
      BY <1>3
    <3> HIDE DEF new, N
    <3> QED
      BY <2>1, <3>1, <3>2
  <2>3. \A i \in 1..N : ts[i] \in Nat /\ ts[i] <= now
    BY <1>3
  <2> QED
    BY <2>1, <2>2, <2>3
<1> HIDE DEF new
<1>6. N \in Nat /\ told'[k] = new /\ \A i \in DOMAIN told'[k] : i \in 1..N \/ i = N + 1
  BY <1>3, <1>4, <1>5 DEF new
<1> HIDE DEF N
<1>7. ToldTyped'
  <2>1. \A i \in DOMAIN told'[k] : told'[k][i] <= now
    BY <1>3, <1>5, <1>6
  <2>2. \A x \in DOMAIN told' : /\ told'[x] \in Seq(Nat) /\ told'[x] # <<>>
                                /\ \A i \in DOMAIN told'[x] : told'[x][i] <= now
    <3> TAKE x \in DOMAIN told'
    <3>1. CASE x = k
      BY <1>5, <1>6, <2>1, <3>1
    <3>2. CASE x # k
      <4>1. x \in DOMAIN told /\ told'[x] = told[x]
        BY <1>4, <3>2
      <4> QED
        BY <4>1 DEF Remembers, ToldTyped
    <3> QED
      BY <3>1, <3>2
  <2>3. \A x \in DOMAIN dispatchLog : x \in DOMAIN told' /\ told'[x][1] <= dispatchLog[x]
    <3> TAKE x \in DOMAIN dispatchLog
    <3>1. x \in DOMAIN told /\ told[x] \in Seq(Nat) /\ told[x] # <<>> /\ told[x][1] <= dispatchLog[x]
      BY DEF Remembers, ToldTyped
    <3>2. CASE x = k
      <4>1. ts = told[k] /\ 1 \in 1..N
        BY <1>3, <3>1, <3>2 DEF N
      <4> QED
        <5>1. told'[x][1] = told[x][1]
          BY <1>5, <1>6, <3>2, <4>1
        <5> QED
          BY <1>4, <3>1, <5>1
    <3> QED
      BY <1>4, <3>1, <3>2
  <2>4. \A i \in Job : At(i, "log")' => KeyOf(job[i])' \in DOMAIN told'
    BY <1>2, <1>4 DEF At, KeyOf, Remembers, ToldTyped
  <2> QED
    BY <2>2, <2>3, <2>4 DEF Remembers, ToldTyped
<1>8. ASSUME Undisturbed
      PROVE  Once'
  <2>1. Once
    BY <1>8 DEF Remembers
  <2>2. \A i \in Job : IsRealtime(job[i]) => i = j
    BY <1>1, <2>1 DEF Once, OneRealtime
  <2>3. \A i \in Job : IsRealtime(job'[i]) => i = j
    BY <1>2, <2>2
  <2>4. OneRealtime'
    BY <2>3 DEF OneRealtime, IsRealtime
  <2>5. \A i \in Job : At(i, "log") => i = j
    <3> SUFFICES ASSUME NEW i \in Job, At(i, "log") PROVE i = j
      OBVIOUS
    <3>1. job[i] \in Dispatch /\ Sound(job[i]) /\ job[i].step = "log"
      BY Active DEF At
    <3> QED
      BY <2>2, <3>1, HeadIn DEF Sound
  <2>6. \A i \in Job : ~ At(i, "log")
    BY <1>1, <2>5 DEF At
  <2>7. \A x \in DOMAIN told : x \in DOMAIN dispatchLog /\ \A i \in DOMAIN told[x] : told[x][i] <= dispatchLog[x]
    BY <2>1, <2>6 DEF Once, LoggedOnce
  <2>8. ASSUME NEW a \in 1..N
        PROVE  k[2] = <<"reserve">> /\ now - ts[a] >= Cooldown
    <3>1. k \in DOMAIN told /\ ts = told[k] /\ a \in DOMAIN told[k]
      BY <1>3 DEF N
    <3>2. PICK t \in Nat : t = dispatchLog[k] /\ ts[a] <= t
      BY <2>7, <3>1 DEF Remembers, ToldTyped
    <3>3. PICK s \in Signal : s = r.pairs[r.turn].signal /\ k[2] = s.id
      <4>1. r.pairs[r.turn] \in Told
        BY <1>1, DispatchTyped DEF Sound
      <4> QED
        BY <4>1 DEF Told, KeyOf, Key
    <3>4. s.cooldown > 0 /\ now - t >= s.cooldown
      BY <2>1, <2>7, <3>1, <3>2, <3>3 DEF Once, Free
    <3>5. s.cooldown = Cooldown /\ s.id = <<"reserve">>
      BY <3>4, PushConstants DEF Signal
    <3>6. now - ts[a] >= Cooldown
      <4>1. PICK u \in Nat, n \in Nat, c \in Nat : u = ts[a] /\ n = now /\ c = Cooldown
        BY <1>3, <1>5, PushConstants
      <4>2. u <= t /\ n - t >= c
        BY <3>2, <3>4, <3>5, <4>1
      <4> QED
        BY <4>1, <4>2
    <3> QED
      BY <3>3, <3>5, <3>6
  <2>9. Spaced(k)'
    <3> SUFFICES ASSUME NEW a \in DOMAIN told'[k], NEW b \in DOMAIN told'[k], a < b
                 PROVE  k[2] = <<"reserve">> /\ told'[k][b] - told'[k][a] >= Cooldown
      BY DEF Spaced
    <3>1. a \in 1..N
      BY <1>3, <1>5, <1>6
    <3>2. CASE b \in 1..N
      <4>1. k \in DOMAIN told /\ ts = told[k] /\ a \in DOMAIN told[k] /\ b \in DOMAIN told[k]
        BY <1>3, <3>1, <3>2 DEF N
      <4>2. k[2] = <<"reserve">> /\ told[k][b] - told[k][a] >= Cooldown
        BY <2>1, <4>1 DEF Once, Spaced
      <4> QED
        BY <1>5, <1>6, <3>1, <3>2, <4>1, <4>2
    <3>3. CASE b = N + 1
      BY <1>5, <1>6, <2>8, <3>1, <3>3
    <3> QED
      BY <1>6, <3>2, <3>3
  <2>10. At(j, "log")' /\ KeyOf(job[j])' = k
    BY <1>2 DEF At, KeyOf
  <2>11. \A x \in DOMAIN told' : Spaced(x)' /\ LoggedOnce(x)'
    <3> TAKE x \in DOMAIN told'
    <3>1. CASE x = k
      BY <2>9, <2>10, <3>1 DEF LoggedOnce
    <3>2. CASE x # k
      <4>1. x \in DOMAIN told /\ told'[x] = told[x]
        BY <1>4, <3>2
      <4>2. Spaced(x)
        BY <2>1, <4>1 DEF Once
      <4> QED
        BY <2>7, <4>1, <4>2 DEF Spaced, LoggedOnce
    <3> QED
      BY <3>1, <3>2
  <2>12. \A i \in Job : ~ (At(i, "send")' /\ Head(job'[i].modes) = "realtime")
    <3> SUFFICES ASSUME NEW i \in Job, At(i, "send")', Head(job'[i].modes) = "realtime" PROVE FALSE
      OBVIOUS
    <3>1. job'[i] \in Dispatch
      BY <1>2 DEF At, None
    <3>2. i = j
      BY <2>3, <3>1, HeadIn
    <3> QED
      BY <2>10, <3>2 DEF At
  <2> QED
    BY <2>4, <2>11, <2>12 DEF Once
<1> QED
  BY <1>7, <1>8 DEF Remembers, Undisturbed

LEMMA SendingRemembers ==
  ASSUME Typed, Remembers, NEW j \in Job, Send(j)
  PROVE  Remembers'
<1> DEFINE r == job[j]
           k == KeyOf(r)
           ts == IF k \in DOMAIN told THEN told[k] ELSE <<>>
<1>1. r \in Dispatch /\ Sound(r) /\ At(j, "send") /\ ~ At(j, "log") /\ r.step = "send"
  BY Active DEF Send, At
<1>2. UNCHANGED <<now, dispatchLog, overlapped, untold>>
  BY DEF Send, Step, indexer
<1>3. PICK sent :
        /\ told' = IF sent = {} \/ mode(j) = "digest" THEN told ELSE With(told, k, Append(ts, now))
        /\ job' = [job EXCEPT ![j] = IF Logged(j, sent) THEN Go(j, "log") ELSE NextTurn(j)]
  BY DEF Send, Step, KeyOf, Pair
<1>4. mode(j) \in Mode /\ (mode(j) = "digest" <=> mode(j) # "realtime")
  BY <1>1, DispatchTyped DEF mode, Mode
<1>5. CASE ~ Logged(j, sent)
  <2> DEFINE next == NextTurn(j)
  <2>1. told' = told /\ job' = [job EXCEPT ![j] = next]
    BY <1>3, <1>4, <1>5 DEF Logged
  <2>2. next \in Dispatch /\ next.step = "look" /\ next.modes = r.modes
    BY <1>1, Turns1 DEF NextTurn, SameTurns, SameWork
  <2> HIDE DEF next
  <2>3. IsRealtime(next) => IsRealtime(r)
    BY <1>1, <2>2 DEF IsRealtime
  <2> QED
    BY <1>1, <1>2, <2>1, <2>2, <2>3, SilentRemembers DEF Undisturbed
<1>6. CASE Logged(j, sent)
  <2>1. told' = With(told, k, Append(ts, now)) /\ Head(r.modes) = "realtime"
    BY <1>3, <1>4, <1>6 DEF Logged, mode
  <2>2. PICK next \in Dispatch : /\ job' = [job EXCEPT ![j] = next] /\ next.step = "log"
                                 /\ next.modes = r.modes /\ KeyOf(next) = k
    <3>1. /\ Go(j, "log") \in Dispatch /\ Go(j, "log").step = "log" /\ Go(j, "log").modes = r.modes
          /\ Go(j, "log").pairs = r.pairs /\ Go(j, "log").turn = r.turn
      BY <1>1, GoesOn DEF Go, Stages, SameTurns, SameWork
    <3> QED
      BY <1>3, <1>6, <3>1 DEF KeyOf
  <2>3. PICK key : key = KeyOf(r)
    OBVIOUS
  <2>4. PICK times : times = IF key \in DOMAIN told THEN told[key] ELSE <<>>
    OBVIOUS
  <2>5. told' = With(told, key, Append(times, now)) /\ KeyOf(next) = KeyOf(r)
    BY <2>1, <2>2, <2>3, <2>4
  <2> QED
    BY <1>1, <1>2, <2>1, <2>2, <2>3, <2>4, <2>5, TellingRemembers
<1> QED
  BY <1>5, <1>6


\* What was told is logged at a time that is not before it.
LEMMA RecordingRemembers ==
  ASSUME Typed, Remembers, NEW j \in Job, Record(j)
  PROVE  Remembers'
<1> DEFINE r == job[j]
           k == KeyOf(r)
           next == NextTurn(j)
<1>1. r \in Dispatch /\ Sound(r) /\ At(j, "log") /\ IsRealtime(r)
  BY Active, HeadIn DEF Record, At, Sound
<1>2. /\ dispatchLog' = With(dispatchLog, k, now) /\ job' = [job EXCEPT ![j] = next]
      /\ UNCHANGED <<now, told, overlapped, untold>>
  BY DEF Record, Step, KeyOf, Pair, indexer, observed
<1>3. next \in Dispatch /\ next.step = "look" /\ next.modes = r.modes
  BY <1>1, Turns1 DEF NextTurn, SameTurns, SameWork
<1> HIDE DEF next, k
<1>4. job' \in [Job -> {None} \cup Dispatch] /\ \A i \in Job : job'[i] = IF i = j THEN next ELSE job[i]
  BY <1>2, <1>3 DEF Typed
<1>5. /\ DOMAIN dispatchLog' = DOMAIN dispatchLog \cup {k} /\ dispatchLog'[k] = now
      /\ \A x \in DOMAIN dispatchLog : x # k => dispatchLog'[x] = dispatchLog[x]
  BY <1>2 DEF With
<1>6. k \in DOMAIN told /\ now \in Nat
  BY <1>1, PushConstants DEF Remembers, ToldTyped, Typed, k
<1>7. told[k] \in Seq(Nat) /\ told[k] # <<>> /\ (\A i \in DOMAIN told[k] : told[k][i] <= now) /\ told[k][1] <= now
  <2>1. told[k] \in Seq(Nat) /\ told[k] # <<>> /\ \A i \in DOMAIN told[k] : told[k][i] <= now
    BY <1>6 DEF Remembers, ToldTyped
  <2>2. 1 \in DOMAIN told[k]
    BY <2>1
  <2> QED
    BY <2>1, <2>2
<1>8. ToldTyped'
  <2>1. \A x \in DOMAIN dispatchLog' : dispatchLog'[x] \in Nat /\ x \in DOMAIN told /\ told[x][1] <= dispatchLog'[x]
    <3> TAKE x \in DOMAIN dispatchLog'
    <3>1. CASE x = k
      BY <1>5, <1>6, <1>7, <3>1
    <3>2. CASE x # k
      BY <1>5, <3>2 DEF Remembers, ToldTyped
    <3> QED
      BY <3>1, <3>2
  <2>2. \A i \in Job : At(i, "log")' => KeyOf(job[i])' \in DOMAIN told
    BY <1>3, <1>4 DEF At, KeyOf, Remembers, ToldTyped
  <2> QED
    BY <1>2, <2>1, <2>2 DEF Remembers, ToldTyped
<1>9. ASSUME Undisturbed
      PROVE  Once'
  <2>1. Once
    BY <1>9 DEF Remembers
  <2>2. \A i \in Job : IsRealtime(job[i]) => i = j
    BY <1>1, <2>1 DEF Once, OneRealtime
  <2>3. \A i \in Job : IsRealtime(job'[i]) => i = j
    BY <1>4, <2>2
  <2>4. OneRealtime'
    BY <2>3 DEF OneRealtime, IsRealtime
  <2>5. ASSUME NEW x \in DOMAIN told
        PROVE  Spaced(x)' /\ LoggedOnce(x)'
    <3>1. Spaced(x)'
      BY <1>2, <2>1 DEF Once, Spaced
    <3>2. CASE x = k
      <4>1. x \in DOMAIN dispatchLog' /\ \A i \in DOMAIN told'[x] : told'[x][i] <= dispatchLog'[x]
        BY <1>2, <1>5, <1>7, <3>2
      <4> QED
        BY <3>1, <4>1 DEF LoggedOnce
    <3>3. CASE x # k
      <4>1. CASE x \in DOMAIN dispatchLog /\ \A i \in DOMAIN told[x] : told[x][i] <= dispatchLog[x]
        <5>1. x \in DOMAIN dispatchLog' /\ \A i \in DOMAIN told'[x] : told'[x][i] <= dispatchLog'[x]
          BY <1>2, <1>5, <3>3, <4>1
        <5> QED
          BY <3>1, <5>1 DEF LoggedOnce
      <4>2. CASE \E i \in Job : At(i, "log") /\ KeyOf(job[i]) = x
        <5>1. PICK i \in Job : At(i, "log") /\ KeyOf(job[i]) = x
          BY <4>2
        <5>2. i # j
          BY <3>3, <5>1 DEF k
        <5>3. job'[i] = job[i]
          BY <1>4, <5>2
        <5>4. At(i, "log")' /\ KeyOf(job[i])' = x
          BY <5>1, <5>3 DEF At, KeyOf
        <5> QED
          BY <3>1, <5>4 DEF LoggedOnce
      <4> QED
        BY <2>1, <4>1, <4>2 DEF Once, LoggedOnce
    <3> QED
      BY <3>1, <3>2, <3>3
  <2>6. \A i \in Job : ~ (At(i, "send")' /\ Head(job'[i].modes) = "realtime")
    <3> SUFFICES ASSUME NEW i \in Job, At(i, "send")', Head(job'[i].modes) = "realtime" PROVE FALSE
      OBVIOUS
    <3>1. job'[i] \in Dispatch
      BY <1>4 DEF At, None
    <3>2. i = j
      BY <2>3, <3>1, HeadIn
    <3> QED
      BY <1>3, <1>4, <3>2 DEF At
  <2> QED
    BY <1>2, <2>4, <2>5, <2>6 DEF Once
<1> QED
  BY <1>2, <1>8, <1>9 DEF Remembers, Undisturbed

\* Steps before and after the turns.
LEMMA PreparingRemembers ==
  ASSUME Typed, Remembers, NEW j \in Job, Fetch(j) \/ getEnabledSubscriptionsByWallet(j) \/ Finish(j)
  PROVE  Remembers'
<1> DEFINE r == job[j]
<1>1. r \in Dispatch /\ ~ At(j, "log")
  BY Active DEF Fetch, getEnabledSubscriptionsByWallet, Finish, At
<1>2. UNCHANGED <<now, told, dispatchLog, overlapped, untold>>
  BY Fetching, Subscribing, Finishing DEF indexer, observed
<1>3. PICK next \in {None} \cup Dispatch :
        /\ job' = [job EXCEPT ![j] = next] /\ next.step \in {"off", "fetch", "subs", "look"}
        /\ next.step # "off" => Range(next.modes) \subseteq Range(r.modes)
  <2>1. CASE Fetch(j)
    <3>1. PICK next \in Dispatch : /\ job' = [job EXCEPT ![j] = next]
                                   /\ next.step = "subs" /\ next.modes = r.modes
      BY <2>1, Fetching
    <3> QED
      BY <3>1
  <2>2. CASE getEnabledSubscriptionsByWallet(j)
    <3>1. PICK next \in Dispatch : /\ job' = [job EXCEPT ![j] = next]
                                   /\ next.step = "look" /\ SameWork(r, next)
      BY <2>2, Subscribing
    <3> QED
      BY <3>1 DEF SameWork
  <2>3. CASE Finish(j)
    BY <2>3, Finishing
  <2> QED
    BY <2>1, <2>2, <2>3
<1>4. IsRealtime(next) => IsRealtime(r)
  BY <1>1, <1>3, DispatchTyped DEF IsRealtime
<1> QED
  BY <1>1, <1>2, <1>3, <1>4, SilentRemembers DEF Undisturbed

LEMMA StartingRemembers ==
  ASSUME Typed, Remembers, NEW j \in Job, NEW modes \in AllModes, Start(j, modes)
  PROVE  Remembers'
<1>1. PICK next \in Dispatch : /\ job' = [job EXCEPT ![j] = next]
                               /\ next.step = "fetch" /\ next.modes = modes
  BY Starting
<1>2. /\ At(j, "off") /\ UNCHANGED <<now, told, dispatchLog, untold>>
      /\ overlapped' = overlapped \cup
           {m \in Range(modes) : \E i \in Job : ~ At(i, "off") /\ m \in Range(job[i].modes)}
  BY Starting DEF indexer
<1>3. Undisturbed' => Undisturbed
  BY <1>2 DEF Undisturbed
<1>4. Undisturbed' /\ IsRealtime(next) => \A i \in Job : ~ IsRealtime(job[i])
  BY <1>1, <1>2 DEF Undisturbed, IsRealtime, At
<1>5. ~ At(j, "log")
  BY <1>2 DEF At
<1> QED
  BY <1>1, <1>2, <1>3, <1>4, <1>5, SilentRemembers

\* A dispatch that dies between the push and the log is noted as one.
LEMMA DyingRemembers ==
  ASSUME Typed, Remembers, NEW j \in Job, Die(j)
  PROVE  Remembers'
<1>1. /\ job' = [job EXCEPT ![j] = None] /\ untold' = (untold \/ At(j, "log"))
      /\ UNCHANGED <<now, told, dispatchLog, overlapped>>
  BY Dying DEF indexer
<1>2. Undisturbed' => Undisturbed
  BY <1>1 DEF Undisturbed
<1>3. None.step = "off" /\ ~ IsRealtime(None)
  BY DEF None, IsRealtime
<1>4. At(j, "log") => untold'
  BY <1>1
<1> QED
  BY <1>1, <1>2, <1>3, <1>4, SilentRemembers

-----------------------------------------------------------------------------
(* The specification.                                                      *)

WorkedTyped == worked \in [Mode -> SUBSET Nat]

PushInv == Typed /\ WorkedTyped /\ Passed /\ Remembers

LEMMA PushInit == Init => PushInv
<1> SUFFICES ASSUME Init PROVE PushInv
  OBVIOUS
<1> USE DEF Init
<1>1. \A j \in Job : At(j, "off") /\ job[j] = None
  BY DEF At, None
<1>2. Typed
  <2>1. 1 \in 1..MaxTime /\ 0 \in 0..1 /\ MaxRows \in Nat
    BY PushConstants
  <2>2. rows \in Seq(Row) /\ Len(rows) = 0 /\ DOMAIN rows = {}
    OBVIOUS
  <2>3. job \in [Job -> {None} \cup Dispatch]
    OBVIOUS
  <2>4. Len(rows) <= MaxRows
    BY <2>1, <2>2
  <2> QED
    BY <1>1, <2>1, <2>2, <2>3, <2>4 DEF Typed
<1>3. Passed
  <2>1. \A m \in Mode : Met(cursor[m], m)
    BY DEF Met
  <2> QED
    BY <1>1, <2>1 DEF Passed, At
<1>4. Remembers
  <2>1. DOMAIN told = {} /\ DOMAIN dispatchLog = {}
    OBVIOUS
  <2>2. \A j \in Job : job[j].step = "off"
    BY <1>1 DEF At
  <2> QED
    BY <2>1, <2>2 DEF Remembers, ToldTyped, Once, OneRealtime, IsRealtime, At
<1> QED
  BY <1>2, <1>3, <1>4 DEF PushInv, WorkedTyped

LEMMA PushStep == PushInv /\ [Next]_vars => PushInv'
<1> SUFFICES ASSUME Typed, WorkedTyped, Passed, Remembers, [Next]_vars
             PROVE  Typed' /\ WorkedTyped' /\ Passed' /\ Remembers'
  BY DEF PushInv
<1>1. CASE WorldStep
  <2>1. worked' = worked
    BY <1>1, WorldMoves DEF observed
  <2> QED
    BY <1>1, <2>1, WorldMoves, WorldPasses, WorldRemembers DEF WorkedTyped
<1>2. ASSUME NEW j \in Job, Look(j) \/ Check(j) \/ Send(j) \/ Record(j)
      PROVE  Typed' /\ WorkedTyped' /\ Passed' /\ Remembers'
  <2>1. Typed' /\ worked' = worked
    BY <1>2, Turning
  <2>2. Passed'
    BY <1>2, TurningPasses
  <2>3. Remembers'
    BY <1>2, LookingRemembers, SendingRemembers, RecordingRemembers
  <2> QED
    BY <2>1, <2>2, <2>3 DEF WorkedTyped
<1>3. ASSUME NEW j \in Job, Fetch(j) \/ getEnabledSubscriptionsByWallet(j)
      PROVE  Typed' /\ WorkedTyped' /\ Passed' /\ Remembers'
  <2>1. Typed' /\ worked' = worked
    BY <1>3, Fetching, Subscribing DEF observed
  <2>2. Passed'
    BY <1>3, FetchingPasses, SubscribingPasses
  <2>3. Remembers'
    BY <1>3, PreparingRemembers
  <2> QED
    BY <2>1, <2>2, <2>3 DEF WorkedTyped
<1>4. ASSUME NEW j \in Job, Finish(j)
      PROVE  Typed' /\ WorkedTyped' /\ Passed' /\ Remembers'
  <2>1. Typed' /\ Passed' /\ Remembers'
    BY <1>4, Finishing, FinishingPasses, PreparingRemembers DEF WorkedTyped
  <2>2. job[j] \in Dispatch /\ worked' = [worked EXCEPT ![mode(j)] = @ \cup Range(job[j].page)]
    BY <1>4, Finishing
  <2>3. Range(job[j].page) \subseteq Nat
    BY <2>2, DispatchTyped DEF Range
  <2> QED
    BY <2>1, <2>2, <2>3 DEF WorkedTyped
<1>5. ASSUME NEW j \in Job, Die(j) \/ \E modes \in AllModes : Start(j, modes)
      PROVE  Typed' /\ WorkedTyped' /\ Passed' /\ Remembers'
  <2>1. Typed' /\ worked' = worked
    BY <1>5, Dying, Starting
  <2>2. Passed' /\ Remembers'
    BY <1>5, DyingPasses, StartingPasses, DyingRemembers, StartingRemembers
  <2> QED
    BY <2>1, <2>2 DEF WorkedTyped
<1>6. CASE UNCHANGED vars
  <2>1. /\ UNCHANGED <<now, rows, vaultState, subscriptions, preferences, cursor, dispatchLog>>
        /\ UNCHANGED <<job, deaths, told, worked, overlapped, untold>>
    BY <1>6 DEF vars, indexer, store, observed
  <2>2. Typed' /\ WorkedTyped'
    BY <2>1 DEF Typed, WorkedTyped, At, Sound
  <2>3. Passed'
    BY <2>1 DEF Passed, Met, Whole, InOrder, At
  <2>4. Remembers'
    BY <2>1 DEF Remembers, ToldTyped, Undisturbed, Once, OneRealtime, Spaced, LoggedOnce, Free,
                IsRealtime, KeyOf, At
  <2> QED
    BY <2>2, <2>3, <2>4
<1> QED
  BY <1>1, <1>2, <1>3, <1>4, <1>5, <1>6 DEF Next, Advance

LEMMA PushAlways == Spec => []PushInv
<1>1. Init => PushInv
  BY PushInit
<1>2. PushInv /\ [Next]_vars => PushInv'
  BY PushStep
<1> QED
  BY <1>1, <1>2, PTL DEF Spec

\* The push worker's state has its types: a cursor is never past the clock, a
\* dispatch's turn is one of its pairs or past the last, and only what was told
\* is logged.
THEOREM DispatchesTyped == Spec => []TypeOK
<1>1. PushInv => TypeOK
  <2> SUFFICES ASSUME Typed, ToldTyped PROVE TypeOK
    BY DEF PushInv, Remembers
  <2>1. ASSUME NEW j \in Job, ~ At(j, "off")
        PROVE  job[j].turn \in 1..(Len(job[j].pairs) + 1)
    <3>1. PICK r \in Dispatch : r = job[j] /\ Sound(r)
      BY <2>1, Active
    <3>2. PICK t \in Nat \ {0}, l \in Nat : t = r.turn /\ l = Len(r.pairs)
      BY <3>1, DispatchTyped
    <3>3. t <= l + 1
      BY <3>1, <3>2 DEF Sound
    <3>4. t \in 1..(l + 1)
      BY <3>2, <3>3
    <3> QED
      BY <3>1, <3>2, <3>4
  <2> QED
    BY <2>1 DEF Typed, ToldTyped, TypeOK
<1> QED
  BY <1>1, PushAlways, PTL

\* The cursor passes no row unread that came in the order of its time, whatever
\* dispatches overlap, die or are cut at a page.
THEOREM CursorPassesNothing == Spec => []NothingPassed
<1>1. PushInv => NothingPassed
  BY DEF PushInv, Passed, Met, NothingPassed
<1> QED
  BY <1>1, PushAlways, PTL

\* What is logged was told; and where realtime dispatches neither overlap nor die
\* between a push and its log, no wallet is told an event twice, but for one with
\* a cooldown once the cooldown is over.
THEOREM ToldOnceAndLogged == Spec => []ToldAsLogged
<1>1. PushInv => ToldAsLogged
  <2> SUFFICES ASSUME ToldTyped, Undisturbed => Once PROVE ToldAsLogged
    BY DEF PushInv, Remembers
  <2>1. LoggedWasTold
    <3> SUFFICES ASSUME NEW k \in DOMAIN dispatchLog
                 PROVE  k \in DOMAIN told /\ dispatchLog[k] >= told[k][1]
      BY DEF LoggedWasTold
    <3>1. /\ dispatchLog[k] \in Nat /\ k \in DOMAIN told /\ told[k][1] <= dispatchLog[k]
          /\ told[k] \in Seq(Nat) /\ told[k] # <<>>
      BY DEF ToldTyped
    <3>2. told[k][1] \in Nat
      BY <3>1
    <3> QED
      BY <3>1, <3>2
  <2>2. ToldOnce
    BY DEF ToldOnce, Undisturbed, Once, Spaced
  <2> QED
    BY <2>1, <2>2 DEF ToldAsLogged
<1> QED
  BY <1>1, PushAlways, PTL

-----------------------------------------------------------------------------
(* The inductive invariant.                                                *)

Early == {"poll", "train", "verify"}
Reviewed == {"confirm", "push", "execute"}
AgentStages == Early \cup {"rebalance", "ask", "review", "stop", "save"} \cup Reviewed

MemoryType == [context : Context \cup {"none"}, vault : Nat, job : Nat, pending : BOOLEAN]

RunType ==
  [step : AgentStages, agent : Agent, context : Context, mode : {"live", "ask", "skip", "dry"},
   told : BOOLEAN, vault : Nat, needs : BOOLEAN, job : Nat, pending : BOOLEAN,
   writeTools : WriteLists, sides : Direction, penalty : BOOLEAN, made : BOOLEAN, failed : BOOLEAN,
   new : SUBSET {"vault", "training"}, allocated : BOOLEAN, turn : Nat, rounds : Nat,
   batch : Seq(Call), owed : Nat, opens : Nat, shorts : Nat, unsure : BOOLEAN,
   wrote : [to : Nat, pinned : BOOLEAN, listed : BOOLEAN]]

Running == run # NoRun

\* What is remembered is there, and so is what the run works with.
Exists(m) == m.vault <= Len(vaults) /\ m.job <= Len(trainings)

AgentTyped ==
  /\ vaults \in Seq([by : Agent, name : Agent \cup {"odd"}, context : Context])
  /\ \A v \in DOMAIN vaults : vaults[v].name \in {vaults[v].by, "odd"}
  /\ trainings \in Seq([by : Agent, pending : BOOLEAN])
  /\ Len(vaults) <= MaxVaults /\ Len(trainings) <= MaxTrainings
  /\ memory \in [Agent -> MemoryType] /\ \A a \in Agent : Exists(memory[a])
  /\ Running => run \in RunType /\ Exists(run)
  /\ slipped \subseteq Agent

\* Each call of a batch is answered once.
Batched(r) ==
  /\ r.step \in {"review"} \cup Reviewed => r.batch # <<>>
  /\ r.owed = IF r.step = "execute" THEN Len(r.batch) ELSE 0

Here(m) == m.vault # 0 => vaults[m.vault].context = m.context

\* Of a run whose vault nobody told: up to the check of its name the vault is
\* known to be on the run's network, from then on to be the agent's.  Whatever
\* else a run may do, its listed writes need a hub and a run that executes.
Owned(r) ==
  ~ r.told =>
    /\ Here(r)
    /\ r.step \in Early \cup {"rebalance"} => (r.needs <=> r.vault = 0)
    /\ r.step \notin Early /\ r.vault # 0 => vaults[r.vault].by = r.agent
    /\ r.wrote.pinned => /\ r.wrote.to \in DOMAIN vaults
                         /\ vaults[r.wrote.to].by = r.agent
                         /\ vaults[r.wrote.to].context = r.context
    /\ r.wrote.listed => r.context \in Hub /\ r.mode \in {"live", "ask"}

\* What was opened and the entries of batch b keep within the policy.
Room(r, b) ==
  LET longs == Calls(b, {"long"})
      shorts == Calls(b, {"short"})
  IN /\ r.opens + longs + shorts <= OpenCap
     /\ r.shorts + shorts <= ShortCap
     /\ r.penalty => r.shorts = 0 /\ shorts = 0
     /\ "long" \in r.sides \/ (r.opens = r.shorts /\ longs = 0)
     /\ "short" \in r.sides \/ (r.shorts = 0 /\ shorts = 0)

\* Of an agent that lists no opens nothing is reviewed.
Certain(r) == "open" \in r.writeTools /\ ~ r.unsure

Capped(r) ==
  Certain(r) => Room(r, <<>>) /\ (r.step \in Reviewed => Room(r, r.batch))

VaultsOf(a) == {v \in DOMAIN vaults : vaults[v].by = a}
PendingOf(a) == {j \in DOMAIN trainings : trainings[j].by = a /\ trainings[j].pending}

KnowsVault(m, a) == VaultsOf(a) \subseteq {m.vault}
KnowsTraining(m, a) == PendingOf(a) \subseteq {m.job} /\ (PendingOf(a) # {} => m.pending)
Runs(a) == Running /\ run.agent = a

\* Of an agent of which nothing was lost: its memory knows its vault and its
\* training, but for what the run has made; and so does a run that was not
\* told a vault, unless it asked for one and has not found it yet.
Followed(a) ==
  /\ ~ Runs(a) \/ run.told \/ "vault" \notin run.new => KnowsVault(memory[a], a)
  /\ ~ Runs(a) \/ run.told \/ "training" \notin run.new => KnowsTraining(memory[a], a)
  /\ Runs(a) /\ ~ run.told =>
       /\ KnowsTraining(run, a)
       /\ run.vault # 0 \/ "vault" \notin run.new => KnowsVault(run, a)
       /\ \A v, w \in VaultsOf(a) : v = w

Tracked ==
  /\ Running /\ run.told => run.vault # 0
  /\ \A a \in Agent \ slipped : Followed(a)

AgentInv ==
  /\ AgentTyped
  /\ \A a \in Agent : Here(memory[a])
  /\ Running => Batched(run) /\ Owned(run) /\ Capped(run)
  /\ Tracked

-----------------------------------------------------------------------------
(* The calls of a batch.                                                   *)

LEMMA CallsFinite ==
  ASSUME NEW b \in Seq(Call), NEW K
  PROVE  /\ IsFiniteSet({n \in DOMAIN b : b[n] \in K})
         /\ Calls(b, K) \in Nat
<1>1. IsFiniteSet(DOMAIN b)
  BY FS_Interval, Len(b) \in Nat, DOMAIN b = 1..Len(b)
<1>2. {n \in DOMAIN b : b[n] \in K} \in SUBSET (DOMAIN b)
  OBVIOUS
<1>3. IsFiniteSet({n \in DOMAIN b : b[n] \in K})
  BY <1>1, <1>2, FS_Subset
<1> QED BY <1>3, FS_CardinalityType DEF Calls

\* What is not among a batch's calls does not count.
LEMMA NoCalls ==
  ASSUME NEW b \in Seq(Call), NEW K
  PROVE  Calls(b, K) = 0 <=> Range(b) \cap K = {}
<1> DEFINE S == {n \in DOMAIN b : b[n] \in K}
<1>1. IsFiniteSet(S)
  BY CallsFinite
<1>2. Cardinality(S) = 0 <=> S = {}
  BY <1>1, FS_EmptySet
<1>3. S = {} <=> Range(b) \cap K = {}
  BY DEF Range
<1> QED BY <1>2, <1>3 DEF Calls

LEMMA NoneLeft ==
  ASSUME NEW K
  PROVE  Calls(<<>>, K) = 0
<1>1. <<>> \in Seq(Call) /\ Range(<<>>) = {}
  BY DEF Range
<1> QED BY <1>1, NoCalls

\* Longs and shorts are counted apart.
LEMMA Entries ==
  ASSUME NEW b \in Seq(Call)
  PROVE  Calls(b, {"long", "short"}) = Calls(b, {"long"}) + Calls(b, {"short"})
<1> DEFINE L == {n \in DOMAIN b : b[n] \in {"long"}}
           S == {n \in DOMAIN b : b[n] \in {"short"}}
           B == {n \in DOMAIN b : b[n] \in {"long", "short"}}
<1>1. IsFiniteSet(L) /\ IsFiniteSet(S)
  BY CallsFinite
<1>2. L \cap S = {} /\ B = L \cup S
  OBVIOUS
<1>3. Cardinality(L) \in Nat /\ Cardinality(S) \in Nat
  BY <1>1, FS_CardinalityType
<1>4. Cardinality(L \cup S) = Cardinality(L) + Cardinality(S) - Cardinality(L \cap S)
  BY <1>1, FS_Union
<1>5. Cardinality(L \cap S) = 0
  BY <1>2, FS_EmptySet
<1> HIDE DEF L, S, B
<1>6. Cardinality(B) = Cardinality(L) + Cardinality(S)
  BY <1>2, <1>3, <1>4, <1>5
<1> QED BY <1>6 DEF Calls, L, S, B

\* The first call, and those that are left.
LEMMA FirstCall ==
  ASSUME NEW b \in Seq(Call), b # <<>>, NEW K
  PROVE  Calls(b, K) = Calls(Tail(b), K) + (IF Head(b) \in K THEN 1 ELSE 0)
<1> DEFINE S == {n \in DOMAIN b : b[n] \in K}
           T == {n \in DOMAIN Tail(b) : Tail(b)[n] \in K}
           U == S \ {1}
           f == [n \in T |-> n + 1]
<1>1. /\ Tail(b) \in Seq(Call) /\ Len(b) \in Nat \ {0} /\ Len(Tail(b)) = Len(b) - 1
      /\ DOMAIN b = 1..Len(b) /\ DOMAIN Tail(b) = 1..Len(b) - 1
      /\ \A n \in 1..Len(b) - 1 : Tail(b)[n] = b[n + 1]
  OBVIOUS
<1>2. IsFiniteSet(S) /\ IsFiniteSet(T)
  BY <1>1, CallsFinite
<1>3. f \in Bijection(T, U)
  <2>1. \A n \in T : n + 1 \in U
    BY <1>1
  <2>2. \A m \in U : m - 1 \in T /\ f[m - 1] = m
    BY <1>1
  <2>3. \A m, n \in T : f[m] = f[n] => m = n
    BY <1>1
  <2>4. \A n \in T : f[n] = n + 1
    OBVIOUS
  <2>5. f \in [T -> U]
    BY <2>1, <2>4
  <2> HIDE DEF S, T, U, f
  <2>6. \A m \in U : \E n \in T : f[n] = m
    BY <2>2
  <2> QED BY <2>3, <2>5, <2>6 DEF Bijection, Injection, Surjection, IsInjective
<1>4. Cardinality(U) = Cardinality(T)
  BY <1>2, <1>3, FS_Bijection DEF ExistsBijection
<1>5. Cardinality(U) = IF 1 \in S THEN Cardinality(S) - 1 ELSE Cardinality(S)
  BY <1>2, FS_RemoveElement
<1>6. 1 \in S <=> Head(b) \in K
  BY <1>1
<1>7. Cardinality(S) \in Nat /\ Cardinality(T) \in Nat
  BY <1>2, FS_CardinalityType
<1> HIDE DEF S, T, U
<1>8. Cardinality(S) = Cardinality(T) + (IF Head(b) \in K THEN 1 ELSE 0)
  BY <1>4, <1>5, <1>6, <1>7
<1> QED BY <1>8 DEF Calls, S, T

LEMMA Left ==
  ASSUME NEW b \in Seq(Call), b # <<>>
  PROVE  /\ Tail(b) \in Seq(Call) /\ Len(b) \in Nat \ {0} /\ Len(Tail(b)) = Len(b) - 1
         /\ Tail(b) # <<>> <=> Len(b) # 1
<1>1. Tail(b) \in Seq(Call) /\ Len(b) \in Nat \ {0} /\ Len(Tail(b)) = Len(b) - 1
  OBVIOUS
<1>2. Tail(b) = <<>> <=> Len(Tail(b)) = 0
  BY <1>1
<1> QED BY <1>1, <1>2

LEMMA BatchesAreCalls == \A b \in Batches : b \in Seq(Call) /\ b # <<>>
<1>1. SUFFICES ASSUME NEW n \in 1..MaxCalls, NEW b \in [1..n -> Call]
               PROVE  b \in Seq(Call) /\ b # <<>>
  BY DEF Batches
<1>2. n \in Nat /\ n # 0
  BY AgentConstants
<1> QED BY <1>2

-----------------------------------------------------------------------------
(* Steps of a run that leave what exists and what is remembered.           *)

LEMMA ThingTyped ==
  ASSUME AgentTyped
  PROVE  /\ \A v \in DOMAIN vaults : vaults[v].by \in Agent /\ vaults[v].context \in Context
         /\ \A j \in DOMAIN trainings : trainings[j].by \in Agent /\ trainings[j].pending \in BOOLEAN
<1>1. ASSUME NEW S, NEW q \in Seq(S), NEW n \in DOMAIN q
      PROVE  q[n] \in S
  OBVIOUS
<1>2. ASSUME NEW v \in DOMAIN vaults
      PROVE  vaults[v] \in [by : Agent, name : Agent \cup {"odd"}, context : Context]
  BY <1>1, Zenon DEF AgentTyped
<1>3. ASSUME NEW j \in DOMAIN trainings
      PROVE  trainings[j] \in [by : Agent, pending : BOOLEAN]
  BY <1>1, Zenon DEF AgentTyped
<1> QED BY <1>2, <1>3

LEMMA RunTyped ==
  ASSUME AgentTyped, NEW s \in AgentStages, In(s)
  PROVE  Running /\ run \in RunType /\ run.step = s /\ Exists(run)
<1>1. Running
  BY DEF In, Running, NoRun, AgentStages, Early, Reviewed
<1> QED BY <1>1 DEF AgentTyped, In

\* The run stays the same agent's, with the same vault and training.
Same(next) ==
  /\ next \in RunType
  /\ next.agent = run.agent /\ next.context = run.context
  /\ next.mode = run.mode /\ next.writeTools = run.writeTools /\ next.told = run.told
  /\ next.vault = run.vault /\ next.needs = run.needs
  /\ next.job = run.job /\ next.new = run.new

LEMMA Goes ==
  ASSUME AgentInv, Running, NEW next, Same(next), Proceed(next),
         next.pending \/ next.pending = run.pending \/ run.told
           \/ PendingOf(run.agent) = {} \/ run.agent \in slipped,
         Batched(next), Owned(next), Capped(next)
  PROVE  AgentInv'
<1> USE DEF AgentInv
<1>1. run' = next /\ vaults' = vaults /\ trainings' = trainings /\ memory' = memory /\ slipped' = slipped
  BY DEF Proceed
<1>2. next \in RunType /\ next # NoRun /\ Running'
  BY <1>1 DEF Same, Running, NoRun, RunType, AgentStages, Early, Reviewed
<1>3. AgentTyped'
  BY <1>1, <1>2 DEF AgentTyped, Exists, Same, MemoryType
<1>4. (\A a \in Agent : Here(memory[a]))'
  BY <1>1 DEF Here
<1>5. (Running => Batched(run) /\ Owned(run) /\ Capped(run))'
  <2>1. Batched(run)' /\ Capped(run)'
    BY <1>1 DEF Batched, Capped, Certain, Room
  <2>2. Owned(run)'
    BY <1>1 DEF Owned, Here
  <2> QED BY <2>1, <2>2
<1>6. Tracked'
  <2>1. /\ \A a : VaultsOf(a)' = VaultsOf(a) /\ PendingOf(a)' = PendingOf(a)
        /\ \A a : Runs(a)' = Runs(a)
    BY <1>1, <1>2 DEF VaultsOf, PendingOf, Runs, Same
  <2>2. (Running /\ run.told => run.vault # 0)'
    BY <1>1 DEF Same, Tracked
  <2>3. SUFFICES ASSUME NEW a \in Agent \ slipped PROVE Followed(a)'
    BY <1>1, <2>1, <2>2 DEF Tracked
  <2>4. ~ Runs(a) \/ run'.told \/ "vault" \notin run'.new => KnowsVault(memory[a], a)'
    BY <1>1, <2>1 DEF Tracked, Followed, KnowsVault, Same
  <2>5. ~ Runs(a) \/ run'.told \/ "training" \notin run'.new => KnowsTraining(memory[a], a)'
    BY <1>1, <2>1 DEF Tracked, Followed, KnowsTraining, Same
  <2>6. ASSUME Runs(a), ~ run'.told
        PROVE  /\ KnowsTraining(run, a)'
               /\ run'.vault # 0 \/ "vault" \notin run'.new => KnowsVault(run, a)'
               /\ \A v, w \in VaultsOf(a) : v = w
    BY <1>1, <2>1, <2>6 DEF Tracked, Followed, KnowsTraining, KnowsVault, Same, Runs
  <2> QED BY <2>1, <2>4, <2>5, <2>6 DEF Followed
<1> QED BY <1>3, <1>4, <1>5, <1>6

\* What was written before is known, or is no longer looked at.
LEMMA OwnedOn ==
  ASSUME AgentInv, Running, NEW next, Same(next), next.wrote \in {run.wrote, Nowhere},
         next.step \in Early \cup {"rebalance"} => run.step \in Early \cup {"rebalance"},
         run.step \in Early => next.step \in Early
  PROVE  Owned(next)
<1>1. SUFFICES ASSUME ~ next.told PROVE Owned(next)
  BY DEF Owned
<1>2. Owned(run) /\ ~ run.told
  BY <1>1 DEF AgentInv, Same
<1>3. Here(next) /\ (next.step \notin Early /\ next.vault # 0 => vaults[next.vault].by = next.agent)
  BY <1>2 DEF Owned, Same, Here
<1>4. next.step \in Early \cup {"rebalance"} => (next.needs <=> next.vault = 0)
  BY <1>2 DEF Owned, Same
<1>5. CASE next.wrote = run.wrote
  BY <1>2, <1>3, <1>4, <1>5 DEF Owned, Same
<1>6. CASE next.wrote = Nowhere
  BY <1>3, <1>4, <1>6 DEF Owned, Nowhere
<1> QED BY <1>5, <1>6

LEMMA Steps ==
  ASSUME AgentTyped, Running, NEW s \in AgentStages
  PROVE  To(s) \in RunType /\ To(s) = [run EXCEPT !.step = s]
<1>1. run \in RunType
  BY DEF AgentTyped
<1> QED BY <1>1 DEF To, RunType

\* The room that is left does not depend on what the run does besides.
LEMMA RoomAs ==
  ASSUME NEW r, NEW q, NEW b, Room(r, b), q.opens = r.opens, q.shorts = r.shorts,
         q.penalty = r.penalty, q.sides = r.sides
  PROVE  Room(q, b)
BY DEF Room

LEMMA RoomLess ==
  ASSUME NEW r \in RunType, NEW b \in Seq(Call), Room(r, b)
  PROVE  Room(r, <<>>)
<1> DEFINE L == Calls(b, {"long"})
           S == Calls(b, {"short"})
<1>1. L \in Nat /\ S \in Nat
  BY CallsFinite
<1>2. Calls(<<>>, {"long"}) = 0 /\ Calls(<<>>, {"short"}) = 0
  BY NoneLeft
<1>3. /\ r.opens + L + S <= OpenCap /\ r.shorts + S <= ShortCap
      /\ r.penalty => r.shorts = 0 /\ S = 0
      /\ "long" \in r.sides \/ (r.opens = r.shorts /\ L = 0)
      /\ "short" \in r.sides \/ (r.shorts = 0 /\ S = 0)
  BY DEF Room
<1>4. r.opens \in Nat /\ r.shorts \in Nat /\ OpenCap \in Nat /\ ShortCap \in Nat
  BY AgentConstants DEF RunType
<1> HIDE DEF L, S
<1>5. /\ r.opens + 0 + 0 <= OpenCap /\ r.shorts + 0 <= ShortCap
      /\ r.penalty => r.shorts = 0
      /\ "long" \in r.sides \/ r.opens = r.shorts
      /\ "short" \in r.sides \/ r.shorts = 0
  BY <1>1, <1>3, <1>4
<1> QED BY <1>2, <1>5 DEF Room

\* A batch that passes the review fits, if the agent lists what it reviews.
LEMMA RoomReviewed ==
  ASSUME AgentTyped, Running, "open" \in run.writeTools, NEW b \in Seq(Call),
         Room(run, <<>>), validatePolicyWriteBatch(b)
  PROVE  Room(run, b)
<1> DEFINE L == Calls(b, {"long"})
           S == Calls(b, {"short"})
<1>1. L \in Nat /\ S \in Nat /\ Calls(b, {"long", "short"}) = L + S
  BY CallsFinite, Entries
<1>2. /\ L = 0 <=> Range(b) \cap {"long"} = {}
      /\ S = 0 <=> Range(b) \cap {"short"} = {}
  BY NoCalls
<1>3. Calls(<<>>, {"long"}) = 0 /\ Calls(<<>>, {"short"}) = 0
  BY NoneLeft
<1>4. /\ run.opens \in Nat /\ run.shorts \in Nat /\ run.penalty \in BOOLEAN
      /\ OpenCap \in Nat /\ ShortCap \in Nat
  BY AgentConstants DEF AgentTyped, RunType
<1>5. /\ run.opens + 0 + 0 <= OpenCap /\ run.shorts + 0 <= ShortCap
      /\ run.penalty => run.shorts = 0
      /\ "long" \in run.sides \/ run.opens = run.shorts
      /\ "short" \in run.sides \/ run.shorts = 0
  BY <1>3 DEF Room
<1>6. L + S > 0 =>
        /\ run.penalty => S = 0
        /\ Range(b) \cap {"long", "short"} \subseteq run.sides
        /\ run.opens + (L + S) <= OpenCap
        /\ "short" \in run.sides => run.shorts + S <= ShortCap
  <2>1. Tool("long") = "open"
    BY DEF Tool
  <2> QED BY <1>1, <2>1 DEF isWrite, validatePolicyWriteBatch, Within
<1> HIDE DEF L, S
<1>7. run.opens + L + S <= OpenCap
  BY <1>1, <1>4, <1>5, <1>6
<1>8. "long" \in run.sides \/ L = 0
  <2>1. CASE L + S > 0
    BY <2>1, <1>2, <1>6
  <2>2. CASE ~ (L + S > 0)
    BY <2>2, <1>1
  <2> QED BY <2>1, <2>2
<1>9. "short" \in run.sides \/ S = 0
  <2>1. CASE L + S > 0
    BY <2>1, <1>2, <1>6
  <2>2. CASE ~ (L + S > 0)
    BY <2>2, <1>1
  <2> QED BY <2>1, <2>2
<1>10. run.shorts + S <= ShortCap
  BY <1>1, <1>4, <1>5, <1>6, <1>9
<1>11. run.penalty => S = 0
  BY <1>1, <1>6
<1> QED BY <1>5, <1>7, <1>8, <1>9, <1>10, <1>11 DEF Room, L, S

\* A call of the batch uses its own room.
LEMMA RoomAfter ==
  ASSUME NEW r \in RunType, NEW b \in Seq(Call), b # <<>>, Room(r, b), NEW q \in RunType,
         q.penalty = r.penalty, q.sides = r.sides,
         \/ q.opens = r.opens /\ q.shorts = r.shorts
         \/ Head(b) = "long" /\ q.opens = r.opens + 1 /\ q.shorts = r.shorts
         \/ Head(b) = "short" /\ q.opens = r.opens + 1 /\ q.shorts = r.shorts + 1
  PROVE  Room(q, Tail(b)) /\ Room(q, <<>>)
<1> DEFINE L == Calls(b, {"long"})
           S == Calls(b, {"short"})
           M == Calls(Tail(b), {"long"})
           T == Calls(Tail(b), {"short"})
<1>1. Tail(b) \in Seq(Call)
  OBVIOUS
<1>2. L \in Nat /\ S \in Nat /\ M \in Nat /\ T \in Nat
  BY <1>1, CallsFinite
<1>3. /\ L = M + (IF Head(b) \in {"long"} THEN 1 ELSE 0)
      /\ S = T + (IF Head(b) \in {"short"} THEN 1 ELSE 0)
  BY FirstCall
<1>4. /\ r.opens + L + S <= OpenCap /\ r.shorts + S <= ShortCap
      /\ r.penalty => r.shorts = 0 /\ S = 0
      /\ "long" \in r.sides \/ (r.opens = r.shorts /\ L = 0)
      /\ "short" \in r.sides \/ (r.shorts = 0 /\ S = 0)
  BY DEF Room
<1>5. /\ r.opens \in Nat /\ r.shorts \in Nat /\ q.opens \in Nat /\ q.shorts \in Nat
      /\ OpenCap \in Nat /\ ShortCap \in Nat
  BY AgentConstants DEF RunType
<1> HIDE DEF L, S, M, T
<1>6. /\ q.opens + M + T <= OpenCap /\ q.shorts + T <= ShortCap
      /\ q.penalty => q.shorts = 0 /\ T = 0
      /\ "long" \in q.sides \/ (q.opens = q.shorts /\ M = 0)
      /\ "short" \in q.sides \/ (q.shorts = 0 /\ T = 0)
  <2>1. CASE q.opens = r.opens /\ q.shorts = r.shorts
    <3>1. M <= L /\ T <= S
      BY <1>2, <1>3
    <3>2. q.opens + M + T <= OpenCap /\ q.shorts + T <= ShortCap
      <4>1. PICK x \in Nat, y \in Nat : x = r.opens /\ y = r.shorts
        BY <1>5
      <4>2. x + L + S <= OpenCap /\ y + S <= ShortCap
        BY <4>1, <1>4
      <4>3. x + M + T <= OpenCap /\ y + T <= ShortCap
        BY <4>2, <3>1, <1>2, AgentConstants
      <4> QED BY <4>1, <4>3, <2>1
    <3>3. (L = 0 => M = 0) /\ (S = 0 => T = 0)
      BY <3>1, <1>2
    <3> QED BY <2>1, <3>2, <3>3, <1>4
  <2>2. CASE Head(b) = "long" /\ q.opens = r.opens + 1 /\ q.shorts = r.shorts
    <3>1. L = M + 1 /\ S = T
      BY <2>2, <1>2, <1>3
    <3>2. q.opens + M + T <= OpenCap /\ q.shorts + T <= ShortCap
      BY <2>2, <3>1, <1>2, <1>4, <1>5
    <3>3. "long" \in r.sides \/ (q.opens = q.shorts /\ M = 0)
      BY <2>2, <3>1, <1>2, <1>4, <1>5
    <3>4. "short" \in r.sides \/ (q.shorts = 0 /\ T = 0)
      BY <2>2, <3>1, <1>2, <1>4, <1>5
    <3>5. r.penalty => q.shorts = 0 /\ T = 0
      BY <2>2, <3>1, <1>2, <1>4, <1>5
    <3> QED BY <3>2, <3>3, <3>4, <3>5
  <2>3. CASE Head(b) = "short" /\ q.opens = r.opens + 1 /\ q.shorts = r.shorts + 1
    <3>1. L = M /\ S = T + 1
      BY <2>3, <1>2, <1>3
    <3>2. q.opens + M + T <= OpenCap /\ q.shorts + T <= ShortCap
      <4>1. r.opens + L + S <= OpenCap /\ r.shorts + S <= ShortCap
        BY <1>4
      <4>2. q.opens + M + T = r.opens + L + S /\ q.shorts + T = r.shorts + S
        <5>1. PICK x \in Nat : x = r.opens
          BY <1>5
        <5>2. PICK y \in Nat : y = r.shorts
          BY <1>5
        <5>3. (x + 1) + M + T = x + L + S /\ (y + 1) + T = y + S
          BY <3>1, <1>2
        <5> QED BY <2>3, <5>1, <5>2, <5>3
      <4> QED BY <4>1, <4>2
    <3>3. "long" \in r.sides \/ (q.opens = q.shorts /\ M = 0)
      <4>1. "long" \in r.sides \/ (r.opens = r.shorts /\ L = 0)
        BY <1>4
      <4> QED BY <2>3, <3>1, <4>1
    <3>4. "short" \in r.sides \/ (q.shorts = 0 /\ T = 0)
      BY <2>3, <3>1, <1>2, <1>4, <1>5
    <3>5. r.penalty => q.shorts = 0 /\ T = 0
      BY <2>3, <3>1, <1>2, <1>4, <1>5
    <3> QED BY <3>2, <3>3, <3>4, <3>5
  <2> QED BY <2>1, <2>2, <2>3
<1>7. Room(q, Tail(b))
  BY <1>6 DEF Room, M, T
<1> QED BY <1>1, <1>7, RoomLess

\* What is said and reviewed opens nothing and moves the run to no other vault.
Talk(next) ==
  /\ Same(next) /\ next.pending = run.pending /\ (run.unsure => next.unsure)
  /\ next.opens = run.opens /\ next.shorts = run.shorts
  /\ next.penalty = run.penalty /\ next.sides = run.sides
  /\ next.wrote \in {run.wrote, Nowhere}

LEMMA Talks ==
  ASSUME AgentInv, Running, NEW next, Talk(next), Proceed(next), Batched(next),
         next.step \in Early \cup {"rebalance"} => run.step \in Early \cup {"rebalance"},
         run.step \in Early => next.step \in Early,
         next.step \in Reviewed /\ Certain(next) => Room(run, next.batch)
  PROVE  AgentInv'
<1>1. Owned(next)
  BY OwnedOn DEF Talk
<1>2. Capped(next)
  <2>1. SUFFICES ASSUME Certain(next)
                 PROVE  Room(next, <<>>) /\ (next.step \in Reviewed => Room(next, next.batch))
    BY DEF Capped
  <2>2. Room(run, <<>>)
    BY <2>1 DEF AgentInv, Capped, Certain, Talk, Same
  <2> QED BY <2>1, <2>2, RoomAs DEF Talk
<1> QED BY <1>1, <1>2, Goes DEF Talk

-----------------------------------------------------------------------------
(* The steps of a run that only talk.                                      *)

LEMMA PollHolds == AgentInv /\ PollTraining => AgentInv'
<1>1. SUFFICES ASSUME AgentInv, PollTraining PROVE AgentInv'
  OBVIOUS
<1>2. /\ Running /\ run \in RunType /\ run.step = "poll" /\ Exists(run)
      /\ run.job \in Nat
  BY <1>1, RunTyped DEF AgentInv, PollTraining, AgentStages, Early, RunType
<1>3. PICK p \in {run.pending} \cup {trainings[j].pending : j \in {run.job} \ {0}} :
        Proceed([To("train") EXCEPT !.pending = p])
  BY <1>1 DEF PollTraining
<1> DEFINE next == [To("train") EXCEPT !.pending = p]
<1>4. run.job # 0 => run.job \in DOMAIN trainings
  BY <1>1, <1>2 DEF Exists, AgentInv, AgentTyped
<1>5. p \in BOOLEAN
  <2>1. CASE p = run.pending
    BY <1>2, <2>1 DEF RunType
  <2>2. CASE p # run.pending
    <3>1. run.job # 0 /\ p = trainings[run.job].pending
      BY <1>3, <2>2
    <3> QED BY <1>1, <1>4, <3>1, ThingTyped DEF AgentInv
  <2> QED BY <2>1, <2>2
<1>6. Same(next) /\ next.step = "train" /\ next.pending = p /\ next.batch = run.batch
      /\ next.opens = run.opens /\ next.shorts = run.shorts /\ next.penalty = run.penalty
      /\ next.sides = run.sides /\ next.wrote = run.wrote /\ next.unsure = run.unsure
      /\ next.owed = run.owed
  BY <1>2, <1>5 DEF Same, To, RunType, AgentStages, Early
<1>7. Batched(next)
  BY <1>1, <1>2, <1>6 DEF AgentInv, Batched, Reviewed
<1>8. Owned(next)
  BY <1>1, <1>2, <1>6, OwnedOn DEF Early
<1>9. Capped(next)
  BY <1>1, <1>2, <1>6, RoomAs DEF AgentInv, Capped, Certain, Same, Reviewed
<1>10. next.pending \/ next.pending = run.pending \/ run.told
         \/ PendingOf(run.agent) = {} \/ run.agent \in slipped
  <2>1. SUFFICES ASSUME ~ run.told, run.agent \notin slipped, PendingOf(run.agent) # {}, p # run.pending
                 PROVE  p
    BY <1>6
  <2>2. run.agent \in Agent \ slipped /\ Runs(run.agent)
    BY <1>2, <2>1 DEF RunType, Runs
  <2>3. PendingOf(run.agent) \subseteq {run.job}
    BY <1>1, <2>1, <2>2 DEF AgentInv, Tracked, Followed, KnowsTraining
  <2>4. run.job \in DOMAIN trainings /\ trainings[run.job].pending
    BY <2>1, <2>3 DEF PendingOf
  <2>5. p = trainings[run.job].pending
    BY <1>3, <2>1
  <2> QED BY <2>4, <2>5
<1> HIDE DEF next
<1>11. Proceed(next)
  BY <1>3 DEF next
<1> QED BY <1>1, <1>2, <1>6, <1>7, <1>8, <1>9, <1>10, <1>11, Goes

LEMMA NoTrainingHolds == AgentInv /\ NoTraining => AgentInv'
<1>1. SUFFICES ASSUME AgentInv, NoTraining PROVE AgentInv'
  OBVIOUS
<1>2. Running /\ run \in RunType /\ run.step = "train"
  BY <1>1, RunTyped DEF AgentInv, NoTraining, AgentStages, Early
<1> DEFINE next == To("verify")
<1>3. Talk(next) /\ next.step = "verify" /\ next.owed = run.owed
  BY <1>2 DEF Talk, Same, To, RunType, AgentStages, Early
<1>4. Batched(next)
  BY <1>1, <1>2, <1>3 DEF AgentInv, Batched, Reviewed
<1>5. Proceed(next)
  BY <1>1 DEF NoTraining
<1> HIDE DEF next
<1> QED BY <1>1, <1>2, <1>3, <1>4, <1>5, Talks DEF Early, Reviewed

\* A vault of the agent's name is the agent's: names are those of who asked.
LEMMA VerifyHolds == AgentInv /\ verifyVaultIdentity => AgentInv'
<1>1. SUFFICES ASSUME AgentInv, verifyVaultIdentity PROVE AgentInv'
  OBVIOUS
<1>2. Running /\ run \in RunType /\ run.step = "verify" /\ Exists(run)
  BY <1>1, RunTyped DEF AgentInv, verifyVaultIdentity, AgentStages, Early
<1> DEFINE next == To("rebalance")
<1>3. Talk(next) /\ next.step = "rebalance" /\ next.owed = run.owed /\ next.unsure = run.unsure
      /\ next.wrote = run.wrote
  BY <1>2 DEF Talk, Same, To, RunType, AgentStages, Early
<1>4. Batched(next)
  BY <1>1, <1>2, <1>3 DEF AgentInv, Batched, Reviewed
<1>5. Proceed(next)
  BY <1>1 DEF verifyVaultIdentity
<1>6. Capped(next)
  BY <1>1, <1>2, <1>3, RoomAs DEF AgentInv, Capped, Certain, Talk, Same, Reviewed
<1>7. ~ run.told /\ run.vault # 0 => vaults[run.vault].by = run.agent
  <2>1. SUFFICES ASSUME ~ run.told, run.vault # 0 PROVE vaults[run.vault].by = run.agent
    OBVIOUS
  <2>2. ~ run.needs
    BY <1>1, <1>2, <2>1 DEF AgentInv, Owned, Early
  <2>3. vaults[run.vault].name = run.agent
    BY <1>1, <2>1, <2>2 DEF verifyVaultIdentity, verifyVaultNameMatch
  <2>4. run.vault \in DOMAIN vaults /\ run.agent \in Agent
    BY <1>1, <1>2, <2>1 DEF AgentInv, AgentTyped, Exists, RunType
  <2> QED BY <1>1, <2>3, <2>4, AgentConstants DEF AgentInv, AgentTyped
<1>8. Owned(next)
  <2>1. SUFFICES ASSUME ~ next.told PROVE Owned(next)
    BY DEF Owned
  <2>2. ~ run.told /\ Owned(run)
    BY <1>1, <1>2, <1>3, <2>1 DEF AgentInv, Talk, Same
  <2> HIDE DEF next
  <2>3. Here(next) /\ (next.needs <=> next.vault = 0)
    BY <1>2, <1>3, <2>2 DEF Owned, Talk, Same, Here, Early
  <2>4. next.vault # 0 => vaults[next.vault].by = next.agent
    BY <1>3, <1>7, <2>2 DEF Talk, Same
  <2> QED BY <1>3, <2>2, <2>3, <2>4 DEF Owned, Talk, Same
<1> HIDE DEF next
<1> QED BY <1>1, <1>2, <1>3, <1>4, <1>5, <1>6, <1>8, Goes DEF Talk

\* Whose vault it is has been checked, and on which network it is.
LEMMA RebalanceHolds == AgentInv /\ enforceAutoRebalance => AgentInv'
<1>1. SUFFICES ASSUME AgentInv, enforceAutoRebalance PROVE AgentInv'
  OBVIOUS
<1>2. Running /\ run \in RunType /\ run.step = "rebalance" /\ Exists(run)
  BY <1>1, RunTyped DEF AgentInv, enforceAutoRebalance, AgentStages, Early
<1>3. CASE Proceed(To("ask"))
  <2> DEFINE next == To("ask")
  <2>1. Talk(next) /\ next.step = "ask" /\ next.owed = run.owed
    BY <1>2 DEF Talk, Same, To, RunType, AgentStages, Early
  <2>2. Batched(next)
    BY <1>1, <1>2, <2>1 DEF AgentInv, Batched, Reviewed
  <2> HIDE DEF next
  <2>3. Proceed(next)
    BY <1>3 DEF next
  <2> QED BY <1>1, <1>2, <2>1, <2>2, <2>3, Talks DEF Early, Reviewed
<1>4. CASE ~ run.needs /\ Proceed([To("ask") EXCEPT !.wrote = [to |-> run.vault, pinned |-> TRUE,
                                                                listed |-> FALSE]])
  <2> DEFINE next == [To("ask") EXCEPT !.wrote = [to |-> run.vault, pinned |-> TRUE,
                                                  listed |-> FALSE]]
  <2>1. Same(next) /\ next.step = "ask" /\ next.pending = run.pending /\ next.unsure = run.unsure
        /\ next.opens = run.opens /\ next.shorts = run.shorts /\ next.penalty = run.penalty
        /\ next.sides = run.sides
        /\ next.wrote = [to |-> run.vault, pinned |-> TRUE, listed |-> FALSE]
        /\ next.owed = run.owed
    BY <1>2 DEF Same, To, RunType, AgentStages, Early
  <2>2. Batched(next)
    BY <1>1, <1>2, <2>1 DEF AgentInv, Batched, Reviewed
  <2>3. Capped(next)
    BY <1>1, <1>2, <2>1, RoomAs DEF AgentInv, Capped, Certain, Same, Reviewed
  <2> HIDE DEF next
  <2>4. Proceed(next)
    BY <1>4 DEF next
  <2>5. Owned(next)
    <3>1. SUFFICES ASSUME ~ next.told PROVE Owned(next)
      BY DEF Owned
    <3>2. ~ run.told /\ Owned(run)
      BY <1>1, <1>2, <2>1, <3>1 DEF AgentInv, Same
    <3>3. run.vault # 0 /\ run.vault \in DOMAIN vaults
      BY <1>1, <1>2, <1>4, <3>2 DEF Owned, Early, AgentInv, AgentTyped, Exists, RunType
    <3>4. vaults[run.vault].by = run.agent /\ vaults[run.vault].context = run.context
      BY <1>2, <3>2, <3>3 DEF Owned, Here, Early
    <3> QED BY <2>1, <3>3, <3>4 DEF Owned, Same, Here, Early
  <2> QED BY <1>1, <1>2, <2>1, <2>2, <2>3, <2>4, <2>5, Goes
<1> QED BY <1>1, <1>3, <1>4 DEF enforceAutoRebalance

\* The model's answer, whatever it is, joins the transcript.
LEMMA ProposeHolds == AgentInv /\ Propose => AgentInv'
<1>1. SUFFICES ASSUME AgentInv, Propose PROVE AgentInv'
  OBVIOUS
<1>2. Running /\ run \in RunType /\ run.step = "ask"
  BY <1>1, RunTyped DEF AgentInv, Propose, AgentStages
<1>3. ASSUME NEW next, Proceed(next), Talk(next), next.owed = run.owed,
             next.step \in {"save", "stop"} \/ (next.step = "review" /\ next.batch # <<>>)
      PROVE  AgentInv'
  <2>1. Batched(next)
    BY <1>1, <1>2, <1>3 DEF AgentInv, Batched, Reviewed
  <2> QED BY <1>1, <1>2, <1>3, <2>1, Talks DEF Early, Reviewed
<1>4. CASE Proceed(To("save"))
  <2>1. Talk(To("save")) /\ To("save").owed = run.owed /\ To("save").step = "save"
    BY <1>2 DEF Talk, Same, To, RunType, AgentStages
  <2> QED BY <1>3, <1>4, <2>1
<1>5. CASE \E b \in Batches : Proceed([To("review") EXCEPT !.turn = @ + 1, !.batch = b,
                                                          !.wrote = Nowhere])
  <2>1. PICK b \in Batches : Proceed([To("review") EXCEPT !.turn = @ + 1, !.batch = b,
                                                          !.wrote = Nowhere])
    BY <1>5
  <2> DEFINE next == [To("review") EXCEPT !.turn = @ + 1, !.batch = b,
                                          !.wrote = Nowhere]
  <2>2. b \in Seq(Call) /\ b # <<>>
    BY BatchesAreCalls
  <2>3. Talk(next) /\ next.owed = run.owed /\ next.step = "review" /\ next.batch = b
    <3>1. run.turn + 1 \in Nat
      BY <1>2 DEF RunType
    <3>2. next \in RunType
      BY <1>2, <2>2, <3>1 DEF To, RunType, AgentStages, Nowhere
    <3>3. Same(next)
      BY <1>2, <2>2, <3>2 DEF Same, To, RunType
    <3> QED BY <1>2, <2>2, <3>3 DEF Talk, To, RunType, Nowhere
  <2> QED BY <1>3, <2>1, <2>2, <2>3
<1>6. CASE Proceed([To("stop") EXCEPT !.turn = @ + 1])
  <2> DEFINE next == [To("stop") EXCEPT !.turn = @ + 1]
  <2>1. Talk(next) /\ next.owed = run.owed /\ next.step = "stop"
    <3>1. run.turn + 1 \in Nat
      BY <1>2 DEF RunType
    <3>2. next \in RunType
      BY <1>2, <3>1 DEF To, RunType, AgentStages
    <3>3. Same(next)
      BY <1>2, <3>2 DEF Same, To, RunType
    <3> QED BY <1>2, <3>3 DEF Talk, To, RunType
  <2> QED BY <1>3, <1>6, <2>1
<1> QED BY <1>1, <1>4, <1>5, <1>6 DEF Propose

\* Back to the model, with all answered or nothing asked.
LEMMA AskedAgain ==
  ASSUME AgentInv, Running, run.step \notin Early, NEW next, Proceed(next), Talk(next),
         next.step \in {"ask", "save"}, next.owed = 0
  PROVE  AgentInv'
<1>1. Batched(next)
  BY DEF Batched, Reviewed
<1>2. run.step \in Early \cup {"rebalance"} \/ next.step \notin Early \cup {"rebalance"}
  BY DEF Early
<1>3. next.step \notin Reviewed
  BY DEF Reviewed
<1> QED BY <1>1, <1>2, <1>3, Talks

LEMMA ReviewHolds == AgentInv /\ ReviewBatch => AgentInv'
<1>1. SUFFICES ASSUME AgentInv, ReviewBatch PROVE AgentInv'
  OBVIOUS
<1>2. Running /\ run \in RunType /\ run.step = "review"
  BY <1>1, RunTyped DEF AgentInv, ReviewBatch, AgentStages
<1>3. run.batch \in Seq(Call) /\ run.batch # <<>> /\ run.owed = 0
  BY <1>1, <1>2 DEF AgentInv, Batched, RunType, Reviewed
<1>4. CASE Proceed(Rejected)
  <2> DEFINE next == Rejected
  <2>1. Talk(next) /\ next.step = "ask" /\ next.owed = 0
    <3>1. run.rounds + 1 \in Nat /\ <<>> \in Seq(Call)
      BY <1>2 DEF RunType
    <3>2. next \in RunType
      BY <1>2, <3>1 DEF Rejected, pushRejectedToolResponses, RunType, AgentStages
    <3>3. Same(next)
      BY <1>2, <3>2 DEF Same, Rejected, pushRejectedToolResponses, RunType
    <3> QED BY <1>2, <3>3 DEF Talk, Rejected, pushRejectedToolResponses, RunType
  <2> QED BY <1>1, <1>2, <1>4, <2>1, AskedAgain DEF Early
<1>5. CASE /\ validatePolicyWriteBatch(run.batch)
           /\ \E s \in {"confirm", "push"} : Proceed(To(s))
  <2>1. PICK s \in {"confirm", "push"} : Proceed(To(s))
    BY <1>5
  <2> DEFINE next == To(s)
  <2>2. Talk(next) /\ next.step = s /\ next.owed = run.owed /\ next.batch = run.batch
        /\ next.unsure = run.unsure
    BY <1>2, <2>1 DEF Talk, Same, To, RunType, AgentStages, Reviewed
  <2>3. Batched(next)
    BY <1>3, <2>2 DEF Batched
  <2>4. Certain(next) => Room(run, next.batch)
    BY <1>1, <1>2, <1>3, <1>5, <2>2, RoomReviewed
       DEF AgentInv, Capped, Certain, Talk, Same
  <2> HIDE DEF next
  <2>5. Proceed(next)
    BY <2>1 DEF next
  <2> QED BY <1>1, <1>2, <2>2, <2>3, <2>4, <2>5, Talks DEF Early
<1> QED BY <1>1, <1>4, <1>5 DEF ReviewBatch

\* A batch that the model revises is shown again; one that would not have
\* passed the review makes the run unsure.
LEMMA ConfirmHolds == AgentInv /\ confirmWriteBatchInteractively => AgentInv'
<1>1. SUFFICES ASSUME AgentInv, confirmWriteBatchInteractively PROVE AgentInv'
  OBVIOUS
<1>2. Running /\ run \in RunType /\ run.step = "confirm"
  BY <1>1, RunTyped DEF AgentInv, confirmWriteBatchInteractively, AgentStages, Reviewed
<1>3. run.batch \in Seq(Call) /\ run.batch # <<>> /\ run.owed = 0
  BY <1>1, <1>2 DEF AgentInv, Batched, RunType, Reviewed
<1>4. ASSUME NEW next, Proceed(next), Talk(next), next.owed = 0, next.step \in {"confirm", "push"},
             next.batch # <<>>, Certain(next) => Room(run, next.batch)
      PROVE  AgentInv'
  <2>1. Batched(next)
    BY <1>4 DEF Batched
  <2> QED BY <1>1, <1>2, <1>4, <2>1, Talks DEF Early
<1>5. CASE Proceed(To("push"))
  <2> DEFINE next == To("push")
  <2>1. Talk(next) /\ next.step = "push" /\ next.owed = run.owed /\ next.batch = run.batch
        /\ next.unsure = run.unsure
    BY <1>2 DEF Talk, Same, To, RunType, AgentStages, Reviewed
  <2>2. Certain(next) => Room(run, next.batch)
    BY <1>1, <1>2, <2>1 DEF AgentInv, Capped, Certain, Talk, Same, Reviewed
  <2> QED BY <1>3, <1>4, <1>5, <2>1, <2>2
<1>6. CASE \E b \in Batches :
             Proceed([To(IF hasWriteCalls(b) THEN "confirm" ELSE "push") EXCEPT
                       !.batch = b, !.unsure = @ \/ ~ validatePolicyWriteBatch(b)])
  <2>1. PICK b \in Batches :
               Proceed([To(IF hasWriteCalls(b) THEN "confirm" ELSE "push") EXCEPT
                         !.batch = b, !.unsure = @ \/ ~ validatePolicyWriteBatch(b)])
    BY <1>6
  <2>2. PICK s \in {"confirm", "push"} : s = IF hasWriteCalls(b) THEN "confirm" ELSE "push"
    OBVIOUS
  <2>3. PICK u \in BOOLEAN : u = (run.unsure \/ ~ validatePolicyWriteBatch(b))
    OBVIOUS
  <2> DEFINE next == [To(s) EXCEPT !.batch = b, !.unsure = u]
  <2>4. b \in Seq(Call) /\ b # <<>>
    BY BatchesAreCalls
  <2>5. To(s).unsure = run.unsure
    BY <1>2 DEF To, RunType
  <2>6. Proceed(next)
    BY <2>1, <2>2, <2>3, <2>5
  <2>7. Talk(next) /\ next.step = s /\ next.owed = run.owed /\ next.batch = b /\ next.unsure = u
    <3>1. u \in BOOLEAN /\ s \in AgentStages
      BY <2>2, <2>3 DEF AgentStages, Reviewed
    <3>2. next \in RunType
      BY <1>2, <2>4, <3>1 DEF To, RunType
    <3>3. Same(next)
      BY <1>2, <2>2, <2>3, <2>4, <3>2 DEF Same, To, RunType
    <3> QED BY <1>2, <2>2, <2>3, <2>4, <3>3 DEF Talk, To, RunType, Reviewed
  <2>8. Certain(next) => Room(run, next.batch)
    <3>1. SUFFICES ASSUME ~ u, "open" \in run.writeTools PROVE Room(run, b)
      BY <2>7 DEF Certain, Talk, Same
    <3>2. ~ run.unsure /\ validatePolicyWriteBatch(b)
      BY <2>3, <3>1
    <3> QED BY <1>1, <1>2, <2>4, <3>1, <3>2, RoomReviewed DEF AgentInv, Capped, Certain
  <2> HIDE DEF next
  <2> QED BY <1>3, <1>4, <2>2, <2>4, <2>6, <2>7, <2>8
<1>7. CASE Proceed([To("ask") EXCEPT !.batch = <<>>])
  <2> DEFINE next == [To("ask") EXCEPT !.batch = <<>>]
  <2>1. Talk(next) /\ next.step = "ask" /\ next.owed = run.owed
    <3>1. <<>> \in Seq(Call)
      BY <1>2 DEF RunType
    <3>2. next \in RunType
      BY <1>2, <3>1 DEF To, RunType, AgentStages
    <3>3. Same(next)
      BY <1>2, <3>2 DEF Same, To, RunType
    <3> QED BY <1>2, <3>3 DEF Talk, To, RunType
  <2> QED BY <1>1, <1>2, <1>3, <1>7, <2>1, AskedAgain DEF Early
<1>8. CASE Proceed([To("ask") EXCEPT !.batch = <<>>, !.rounds = @ + 1])
  <2> DEFINE next == [To("ask") EXCEPT !.batch = <<>>, !.rounds = @ + 1]
  <2>1. Talk(next) /\ next.step = "ask" /\ next.owed = run.owed
    <3>1. run.rounds + 1 \in Nat /\ <<>> \in Seq(Call)
      BY <1>2 DEF RunType
    <3>2. next \in RunType
      BY <1>2, <3>1 DEF To, RunType, AgentStages
    <3>3. Same(next)
      BY <1>2, <3>2 DEF Same, To, RunType
    <3> QED BY <1>2, <3>3 DEF Talk, To, RunType
  <2> QED BY <1>1, <1>2, <1>3, <1>8, <2>1, AskedAgain DEF Early
<1>9. CASE Proceed([To("save") EXCEPT !.batch = <<>>])
  <2> DEFINE next == [To("save") EXCEPT !.batch = <<>>]
  <2>1. Talk(next) /\ next.step = "save" /\ next.owed = run.owed
    <3>1. <<>> \in Seq(Call)
      BY <1>2 DEF RunType
    <3>2. next \in RunType
      BY <1>2, <3>1 DEF To, RunType, AgentStages
    <3>3. Same(next)
      BY <1>2, <3>2 DEF Same, To, RunType
    <3> QED BY <1>2, <3>3 DEF Talk, To, RunType
  <2> QED BY <1>1, <1>2, <1>3, <1>9, <2>1, AskedAgain DEF Early
<1> QED BY <1>1, <1>5, <1>6, <1>7, <1>8, <1>9 DEF confirmWriteBatchInteractively

LEMMA PushHolds == AgentInv /\ Push => AgentInv'
<1>1. SUFFICES ASSUME AgentInv, Push PROVE AgentInv'
  OBVIOUS
<1>2. Running /\ run \in RunType /\ run.step = "push"
  BY <1>1, RunTyped DEF AgentInv, Push, AgentStages, Reviewed
<1>3. run.batch \in Seq(Call) /\ run.batch # <<>> /\ run.owed = 0
  BY <1>1, <1>2 DEF AgentInv, Batched, RunType, Reviewed
<1>4. CASE Proceed([To("execute") EXCEPT !.owed = Len(run.batch)])
  <2> DEFINE next == [To("execute") EXCEPT !.owed = Len(run.batch)]
  <2>1. Len(run.batch) \in Nat
    BY <1>3
  <2>2. Talk(next) /\ next.step = "execute" /\ next.owed = Len(run.batch) /\ next.batch = run.batch
        /\ next.unsure = run.unsure
    BY <1>2, <2>1 DEF Talk, Same, To, RunType, AgentStages, Reviewed
  <2>3. Batched(next)
    BY <1>3, <2>2 DEF Batched
  <2>4. Certain(next) => Room(run, next.batch)
    BY <1>1, <1>2, <2>2 DEF AgentInv, Capped, Certain, Talk, Same, Reviewed
  <2> HIDE DEF next
  <2>5. Proceed(next)
    BY <1>4 DEF next
  <2> QED BY <1>1, <1>2, <2>2, <2>3, <2>4, <2>5, Talks DEF Early
<1>5. CASE Proceed(pushRejectedToolResponses(run, run.batch))
  <2> DEFINE next == pushRejectedToolResponses(run, run.batch)
  <2>1. Talk(next) /\ next.step = "ask" /\ next.owed = 0
    <3>1. <<>> \in Seq(Call)
      BY <1>2 DEF RunType
    <3>2. next \in RunType
      BY <1>2, <3>1 DEF pushRejectedToolResponses, RunType, AgentStages
    <3>3. Same(next)
      BY <1>2, <3>2 DEF Same, pushRejectedToolResponses, RunType
    <3> QED BY <1>2, <3>3 DEF Talk, pushRejectedToolResponses, RunType
  <2> QED BY <1>1, <1>2, <1>5, <2>1, AskedAgain DEF Early
<1> QED BY <1>1, <1>4, <1>5 DEF Push

LEMMA StopHolds == AgentInv /\ Stop => AgentInv'
<1>1. SUFFICES ASSUME AgentInv, Stop PROVE AgentInv'
  OBVIOUS
<1>2. Running /\ run \in RunType /\ run.step = "stop" /\ run.owed = 0
  BY <1>1, RunTyped DEF AgentInv, Stop, AgentStages, Batched
<1>3. CASE Proceed([To("ask") EXCEPT !.rounds = @ + 1])
  <2> DEFINE next == [To("ask") EXCEPT !.rounds = @ + 1]
  <2>1. Talk(next) /\ next.step = "ask" /\ next.owed = run.owed
    <3>1. run.rounds + 1 \in Nat
      BY <1>2 DEF RunType
    <3>2. next \in RunType
      BY <1>2, <3>1 DEF To, RunType, AgentStages
    <3>3. Same(next)
      BY <1>2, <3>2 DEF Same, To, RunType
    <3> QED BY <1>2, <3>3 DEF Talk, To, RunType
  <2> QED BY <1>1, <1>2, <1>3, <2>1, AskedAgain DEF Early
<1>4. CASE Proceed(To("save"))
  <2>1. Talk(To("save")) /\ To("save").step = "save" /\ To("save").owed = run.owed
    BY <1>2 DEF Talk, Same, To, RunType, AgentStages
  <2> QED BY <1>1, <1>2, <1>4, <2>1, AskedAgain DEF Early
<1> QED BY <1>1, <1>3, <1>4 DEF Stop

-----------------------------------------------------------------------------
(* The calls of a batch.                                                   *)

LEMMA Executing ==
  ASSUME AgentInv, In("execute")
  PROVE  /\ Running /\ run \in RunType /\ run.step = "execute" /\ Exists(run)
         /\ run.batch \in Seq(Call) /\ run.batch # <<>> /\ Tail(run.batch) \in Seq(Call)
         /\ run.owed = Len(run.batch) /\ run.owed - 1 \in Nat
<1>1. Running /\ run \in RunType /\ run.step = "execute" /\ Exists(run)
  BY RunTyped DEF AgentInv, AgentStages, Reviewed
<1>2. run.batch \in Seq(Call) /\ run.batch # <<>> /\ run.owed = Len(run.batch)
  BY <1>1 DEF AgentInv, Batched, RunType, Reviewed
<1>3. \A b \in Seq(Call) : b # <<>> => Tail(b) \in Seq(Call) /\ Len(b) - 1 \in Nat
  OBVIOUS
<1> QED BY <1>1, <1>2, <1>3

\* What answering a call does, and what it leaves.
LEMMA AnsweredIs ==
  ASSUME AgentInv, In("execute")
  PROVE  /\ Answered \in RunType /\ Same(Answered) /\ Talk(Answered)
         /\ Answered.batch = Tail(run.batch) /\ Answered.owed = run.owed - 1
         /\ Answered.step = (IF Len(run.batch) = 1 THEN "ask" ELSE "execute")
         /\ Answered.unsure = run.unsure
<1>1. PICK s \in {"ask", "execute"} : s = IF Len(run.batch) = 1 THEN "ask" ELSE "execute"
  OBVIOUS
<1>2. PICK b \in Seq(Call) : b = Tail(run.batch)
  BY Executing
<1>3. PICK o \in Nat : o = run.owed - 1
  BY Executing
<1>4. Answered = [run EXCEPT !.batch = b, !.owed = o, !.step = s]
  BY <1>1, <1>2, <1>3 DEF Answered
<1>5. run \in RunType /\ s \in AgentStages
  BY Executing DEF AgentStages, Reviewed
<1>6. Answered \in RunType
  BY <1>4, <1>5 DEF RunType
<1>7. Same(Answered)
  BY <1>4, <1>5, <1>6 DEF Same, RunType
<1>8. Talk(Answered)
  BY <1>4, <1>5, <1>7 DEF Talk, RunType
<1>9. Answered.batch = b /\ Answered.owed = o /\ Answered.step = s /\ Answered.unsure = run.unsure
  BY <1>4, <1>5 DEF RunType
<1> QED BY <1>1, <1>2, <1>3, <1>6, <1>7, <1>8, <1>9

\* The calls that are left are owed an answer, and there is room for them.
LEMMA AnsweredWell ==
  ASSUME AgentInv, In("execute"), NEW next \in RunType,
         next.batch = Answered.batch, next.owed = Answered.owed, next.step = Answered.step,
         next.penalty = run.penalty, next.sides = run.sides, run.unsure => next.unsure,
         next.writeTools = run.writeTools,
         \/ next.unsure
         \/ next.opens = run.opens /\ next.shorts = run.shorts
         \/ Head(run.batch) = "long" /\ next.opens = run.opens + 1 /\ next.shorts = run.shorts
         \/ Head(run.batch) = "short" /\ next.opens = run.opens + 1 /\ next.shorts = run.shorts + 1
  PROVE  Batched(next) /\ Capped(next)
<1>1. run.batch \in Seq(Call) /\ run.batch # <<>> /\ run \in RunType /\ Running /\ run.step = "execute"
  BY Executing
<1>2. Batched(next)
  <2>1. Tail(run.batch) # <<>> <=> Len(run.batch) # 1
    BY <1>1, Left
  <2>2. Len(Tail(run.batch)) = Len(run.batch) - 1
    BY <1>1, Left
  <2>3. CASE Len(run.batch) = 1
    BY <2>3, AnsweredIs, Executing DEF Batched, Reviewed
  <2>4. CASE Len(run.batch) # 1
    BY <2>1, <2>2, <2>4, AnsweredIs, Executing DEF Batched, Reviewed
  <2> QED BY <2>3, <2>4
<1>3. Capped(next)
  <2>1. SUFFICES ASSUME Certain(next) PROVE Room(next, Tail(run.batch)) /\ Room(next, <<>>)
    BY AnsweredIs DEF Capped
  <2>2. Room(run, run.batch)
    BY <1>1, <2>1 DEF AgentInv, Capped, Certain, Reviewed
  <2> QED BY <1>1, <2>1, <2>2, RoomAfter DEF Certain
<1> QED BY <1>2, <1>3

LEMMA AnswerHolds ==
  ASSUME AgentInv, In("execute"), Proceed(Answered)
  PROVE  AgentInv'
<1>1. Batched(Answered) /\ Capped(Answered)
  BY AnsweredIs, AnsweredWell DEF Talk, Same
<1>2. Owned(Answered)
  BY Executing, AnsweredIs, OwnedOn DEF Talk, Early
<1> QED BY <1>1, <1>2, Executing, AnsweredIs, Goes DEF Talk

\* A write whose tool is pinned goes to the run's vault, any other to whichever
\* the model names; one that is listed needs a hub and a run that executes.
LEMMA WroteHolds ==
  ASSUME AgentInv, In("execute"), NEW base, Wrote(base), Same(base), base.pending = run.pending,
         base.batch = Answered.batch, base.owed = Answered.owed, base.step = Answered.step,
         base.penalty = run.penalty, base.sides = run.sides, run.unsure => base.unsure,
         \/ base.unsure
         \/ base.opens = run.opens /\ base.shorts = run.shorts
         \/ Head(run.batch) = "long" /\ base.opens = run.opens + 1 /\ base.shorts = run.shorts
         \/ Head(run.batch) = "short" /\ base.opens = run.opens + 1 /\ base.shorts = run.shorts + 1
  PROVE  AgentInv'
<1>1. Running /\ run \in RunType /\ run.step = "execute" /\ Exists(run) /\ base \in RunType
  BY Executing DEF Same
<1> DEFINE call == Head(run.batch)
<1>2. PICK v \in 0..Len(vaults) :
        Proceed([base EXCEPT !.wrote = [to |-> applyVaultArgPin(call, v),
                                        pinned |-> Pinned(call), listed |-> isWrite(call)]])
  BY DEF Wrote
<1>3. vaults \in Seq([by : Agent, name : Agent \cup {"odd"}, context : Context]) /\ Len(vaults) \in Nat
  BY DEF AgentInv, AgentTyped
<1>4. PICK to \in Nat : to = applyVaultArgPin(call, v)
  BY <1>1, <1>3 DEF applyVaultArgPin, RunType
<1>5. PICK p \in BOOLEAN : p = Pinned(call)
  BY DEF Pinned
<1>6. PICK l \in BOOLEAN : l = isWrite(call)
  <2>1. isWrite(call) \in BOOLEAN
    BY DEF isWrite
  <2> QED BY <2>1
<1> DEFINE next == [base EXCEPT !.wrote = [to |-> to, pinned |-> p, listed |-> l]]
<1>7. Proceed(next)
  BY <1>2, <1>4, <1>5, <1>6
<1>8. next \in RunType
  BY <1>1 DEF RunType
<1>9. /\ next.agent = base.agent /\ next.context = base.context
      /\ next.mode = base.mode /\ next.writeTools = base.writeTools /\ next.told = base.told
      /\ next.vault = base.vault /\ next.needs = base.needs /\ next.job = base.job
      /\ next.new = base.new /\ next.pending = base.pending /\ next.step = base.step
      /\ next.batch = base.batch /\ next.owed = base.owed /\ next.unsure = base.unsure
      /\ next.opens = base.opens /\ next.shorts = base.shorts
      /\ next.penalty = base.penalty /\ next.sides = base.sides
      /\ next.wrote = [to |-> to, pinned |-> p, listed |-> l]
  BY <1>1 DEF RunType
<1> HIDE DEF next
<1>10. Same(next)
  BY <1>8, <1>9 DEF Same
<1>11. Batched(next) /\ Capped(next)
  BY <1>8, <1>9, <1>10, AnsweredWell DEF Same
<1>12. next.step \notin Early \cup {"rebalance"}
  BY <1>9, AnsweredIs DEF Early
<1>13. Owned(next)
  <2>1. SUFFICES ASSUME ~ next.told PROVE Owned(next)
    BY DEF Owned
  <2>2. ~ run.told /\ Owned(run)
    BY <1>1, <1>10, <2>1 DEF AgentInv, Same
  <2>3. Here(next) /\ (next.vault # 0 => vaults[next.vault].by = next.agent)
    BY <1>1, <1>10, <2>2 DEF Owned, Same, Here, Early
  <2>4. l => next.context \in Hub /\ next.mode \in {"live", "ask"}
    <3>1. ~ Skipped(call)
      BY DEF Wrote
    <3> QED BY <1>1, <1>6, <1>10, <3>1 DEF Skipped, Same, RunType
  <2>5. p => /\ to \in DOMAIN vaults
             /\ vaults[to].by = next.agent
             /\ vaults[to].context = next.context
    <3>1. SUFFICES ASSUME p PROVE to = run.vault /\ run.vault # 0 /\ run.vault \in DOMAIN vaults
      BY <1>10, <2>3 DEF Here, Same
    <3>2. run.vault # 0 /\ to = run.vault
      BY <1>4, <1>5, <3>1 DEF applyVaultArgPin, Pinned
    <3>3. run.vault \in Nat /\ run.vault <= Len(vaults) /\ DOMAIN vaults = 1..Len(vaults)
      BY <1>1, <1>3 DEF RunType, Exists
    <3> QED BY <1>3, <3>2, <3>3
  <2> QED BY <1>9, <1>12, <2>3, <2>4, <2>5 DEF Owned
<1> QED BY <1>1, <1>7, <1>9, <1>10, <1>11, <1>13, Goes

LEMMA AllocateHolds ==
  ASSUME AgentInv, In("execute"), Allocate \/ Wrote(Answered)
  PROVE  AgentInv'
<1>1. run \in RunType
  BY Executing
<1> DEFINE base == [Answered EXCEPT !.allocated = TRUE]
<1>2. /\ base \in RunType /\ base.agent = Answered.agent /\ base.context = Answered.context
      /\ base.mode = Answered.mode /\ base.writeTools = Answered.writeTools
      /\ base.told = Answered.told /\ base.vault = Answered.vault /\ base.needs = Answered.needs
      /\ base.job = Answered.job /\ base.new = Answered.new /\ base.pending = Answered.pending
      /\ base.batch = Answered.batch /\ base.owed = Answered.owed /\ base.step = Answered.step
      /\ base.penalty = Answered.penalty /\ base.sides = Answered.sides
      /\ base.unsure = Answered.unsure /\ base.opens = Answered.opens /\ base.shorts = Answered.shorts
  BY AnsweredIs DEF RunType
<1> HIDE DEF base
<1>3. CASE Wrote(base)
  <2>1. Same(base)
    BY <1>2, AnsweredIs DEF Same
  <2> QED BY <1>2, <1>3, <2>1, AnsweredIs, WroteHolds DEF Talk
<1>4. CASE Wrote(Answered)
  BY <1>4, AnsweredIs, WroteHolds DEF Talk
<1> QED BY <1>3, <1>4 DEF Allocate, base

\* An open counts, or makes the run unsure of how many there were.
LEMMA OpenHolds ==
  ASSUME AgentInv, In("execute"), NEW side \in {"long", "short"}, Head(run.batch) = side, Open(side)
  PROVE  AgentInv'
<1>1. run \in RunType
  BY Executing
<1>2. /\ Answered.opens = run.opens /\ Answered.shorts = run.shorts
      /\ run.opens \in Nat /\ run.shorts \in Nat
  BY <1>1, AnsweredIs DEF Talk, RunType
<1>3. CASE Wrote([Answered EXCEPT !.opens = @ + 1, !.shorts = IF side = "short" THEN @ + 1 ELSE @])
  <2>1. PICK o \in Nat : o = run.opens + 1
    BY <1>2
  <2>2. PICK n \in Nat : n = IF side = "short" THEN run.shorts + 1 ELSE run.shorts
    BY <1>2
  <2> DEFINE base == [Answered EXCEPT !.opens = o, !.shorts = n]
  <2>3. Wrote(base)
    BY <1>2, <1>3, <2>1, <2>2
  <2>4. /\ base \in RunType /\ base.agent = Answered.agent /\ base.context = Answered.context
        /\ base.mode = Answered.mode /\ base.writeTools = Answered.writeTools
        /\ base.told = Answered.told /\ base.vault = Answered.vault /\ base.needs = Answered.needs
        /\ base.job = Answered.job /\ base.new = Answered.new /\ base.pending = Answered.pending
        /\ base.batch = Answered.batch /\ base.owed = Answered.owed /\ base.step = Answered.step
        /\ base.penalty = Answered.penalty /\ base.sides = Answered.sides
        /\ base.unsure = Answered.unsure /\ base.opens = o /\ base.shorts = n
    BY AnsweredIs DEF RunType
  <2> HIDE DEF base
  <2>5. Same(base)
    BY <2>4, AnsweredIs DEF Same
  <2>6. \/ Head(run.batch) = "long" /\ base.opens = run.opens + 1 /\ base.shorts = run.shorts
        \/ Head(run.batch) = "short" /\ base.opens = run.opens + 1 /\ base.shorts = run.shorts + 1
    BY <2>1, <2>2, <2>4
  <2> QED BY <2>3, <2>4, <2>5, <2>6, AnsweredIs, WroteHolds DEF Talk
<1>4. CASE Wrote([Answered EXCEPT !.unsure = TRUE])
  <2> DEFINE base == [Answered EXCEPT !.unsure = TRUE]
  <2>1. /\ base \in RunType /\ base.agent = Answered.agent /\ base.context = Answered.context
        /\ base.mode = Answered.mode /\ base.writeTools = Answered.writeTools
        /\ base.told = Answered.told /\ base.vault = Answered.vault /\ base.needs = Answered.needs
        /\ base.job = Answered.job /\ base.new = Answered.new /\ base.pending = Answered.pending
        /\ base.batch = Answered.batch /\ base.owed = Answered.owed /\ base.step = Answered.step
        /\ base.penalty = Answered.penalty /\ base.sides = Answered.sides
        /\ base.unsure /\ base.opens = Answered.opens /\ base.shorts = Answered.shorts
    BY AnsweredIs DEF RunType
  <2>2. Wrote(base)
    BY <1>4
  <2> HIDE DEF base
  <2>3. Same(base)
    BY <2>1, AnsweredIs DEF Same
  <2> QED BY <1>2, <2>1, <2>2, <2>3, AnsweredIs, WroteHolds DEF Talk
<1> QED BY <1>3, <1>4 DEF Open

\* A step disturbs what is known of the run's own agent only.
LEMMA FollowedOn ==
  ASSUME AgentInv, Running, NEW a \in Agent, a = run.agent, slipped \subseteq slipped',
         Running' => run'.agent = a /\ (run'.told => run'.vault # 0),
         \A b \in Agent \ {a} :
           VaultsOf(b)' = VaultsOf(b) /\ PendingOf(b)' = PendingOf(b) /\ memory'[b] = memory[b],
         a \notin slipped' => Followed(a)'
  PROVE  Tracked'
<1>1. ASSUME NEW b \in Agent \ {a}, b \notin slipped' PROVE Followed(b)'
  <2>1. Followed(b) /\ ~ Runs(b) /\ ~ Runs(b)'
    BY <1>1 DEF AgentInv, Tracked, Runs
  <2>2. KnowsVault(memory[b], b) /\ KnowsTraining(memory[b], b)
    BY <2>1 DEF Followed
  <2>3. KnowsVault(memory[b], b)' /\ KnowsTraining(memory[b], b)'
    BY <1>1, <2>2 DEF KnowsVault, KnowsTraining
  <2> QED BY <2>1, <2>3 DEF Followed
<1>2. ASSUME NEW b \in Agent \ slipped' PROVE Followed(b)'
  <2>1. CASE b = a
    BY <1>2, <2>1
  <2>2. CASE b # a
    BY <1>1, <1>2, <2>2
  <2> QED BY <2>1, <2>2
<1> QED BY <1>2 DEF Tracked

\* The vault found bears the agent's name, and is the one that was asked for.
LEMMA FindHolds ==
  ASSUME AgentInv, In("execute"), FindVault
  PROVE  AgentInv'
<1>1. Running /\ run \in RunType /\ run.step = "execute" /\ Exists(run) /\ run.vault = 0
  BY Executing DEF FindVault
<1>2. PICK v \in NamedAs(run.agent) : Proceed([Answered EXCEPT !.vault = v])
  BY DEF FindVault, extractNewestVaultAddress
<1>3. vaults \in Seq([by : Agent, name : Agent \cup {"odd"}, context : Context]) /\ Len(vaults) \in Nat
  BY DEF AgentInv, AgentTyped
<1>4. v \in DOMAIN vaults /\ v \in Nat /\ v # 0 /\ v <= Len(vaults)
  BY <1>3 DEF NamedAs
<1>5. vaults[v].by = run.agent /\ vaults[v].context = run.context
  <2>1. vaults[v].context = run.context /\ vaults[v].name = run.agent
    BY <1>2 DEF NamedAs
  <2>2. vaults[v].name \in {vaults[v].by, "odd"}
    BY <1>4 DEF AgentInv, AgentTyped
  <2>3. run.agent \in Agent
    BY <1>1 DEF RunType
  <2>4. run.agent # "odd"
    BY <2>3, AgentConstants
  <2> QED BY <2>1, <2>2, <2>4
<1> DEFINE next == [Answered EXCEPT !.vault = v]
<1>6. /\ next \in RunType /\ next.agent = run.agent /\ next.context = run.context
      /\ next.mode = run.mode /\ next.writeTools = run.writeTools
      /\ next.told = run.told /\ next.vault = v /\ next.job = run.job /\ next.new = run.new
      /\ next.batch = Answered.batch /\ next.owed = Answered.owed /\ next.step = Answered.step
      /\ next.penalty = run.penalty /\ next.sides = run.sides /\ next.unsure = run.unsure
      /\ next.opens = run.opens /\ next.shorts = run.shorts /\ next.pending = run.pending
      /\ next.wrote = Answered.wrote
  <2>1. /\ next \in RunType /\ next.agent = Answered.agent /\ next.context = Answered.context
        /\ next.mode = Answered.mode /\ next.writeTools = Answered.writeTools
        /\ next.told = Answered.told /\ next.vault = v /\ next.job = Answered.job
        /\ next.new = Answered.new
        /\ next.batch = Answered.batch /\ next.owed = Answered.owed /\ next.step = Answered.step
        /\ next.penalty = Answered.penalty /\ next.sides = Answered.sides
        /\ next.unsure = Answered.unsure
        /\ next.opens = Answered.opens /\ next.shorts = Answered.shorts
        /\ next.pending = Answered.pending /\ next.wrote = Answered.wrote
    BY <1>4, AnsweredIs DEF RunType
  <2> HIDE DEF next
  <2> QED BY <2>1, AnsweredIs DEF Same, Talk
<1> HIDE DEF next
<1>7. Batched(next) /\ Capped(next)
  BY <1>6, AnsweredWell
<1>8. /\ run' = next /\ vaults' = vaults /\ trainings' = trainings /\ memory' = memory
      /\ slipped' = slipped
  BY <1>2 DEF Proceed, next
<1>9. Running'
  BY <1>6, <1>8 DEF Running, NoRun, RunType, AgentStages, Early, Reviewed
<1>10. AgentTyped'
  BY <1>1, <1>4, <1>6, <1>8 DEF AgentInv, AgentTyped, Exists
<1>11. (\A a \in Agent : Here(memory[a]))'
  BY <1>8 DEF AgentInv, Here
<1>12. (Batched(run) /\ Capped(run))'
  BY <1>7, <1>8 DEF Batched, Capped, Certain, Room
<1>13. Owned(run)'
  <2>1. SUFFICES ASSUME ~ next.told PROVE Owned(next)
    BY <1>8 DEF Owned, Here
  <2>2. next.step \notin Early \cup {"rebalance"}
    BY <1>6, AnsweredIs DEF Early
  <2>3. ~ run.told /\ Owned(run)
    BY <1>1, <1>6, <2>1 DEF AgentInv
  <2>4. next.wrote \in {run.wrote, Nowhere}
    BY <1>6, AnsweredIs DEF Talk
  <2>5. Here(next) /\ (next.vault # 0 => vaults[next.vault].by = next.agent)
    BY <1>5, <1>6 DEF Here
  <2>6. CASE next.wrote = run.wrote
    BY <1>6, <2>2, <2>3, <2>5, <2>6 DEF Owned
  <2>7. CASE next.wrote = Nowhere
    BY <2>2, <2>5, <2>7 DEF Owned, Nowhere
  <2> QED BY <2>4, <2>6, <2>7
<1>14. Tracked'
  <2>1. \A a : VaultsOf(a)' = VaultsOf(a) /\ PendingOf(a)' = PendingOf(a)
    BY <1>8 DEF VaultsOf, PendingOf
  <2>2. ~ run.told
    BY <1>1 DEF AgentInv, Tracked
  <2>3. PICK a \in Agent : a = run.agent
    BY <1>1 DEF RunType
  <2>4. ASSUME a \notin slipped' PROVE Followed(a)'
    <3>1. Followed(a) /\ Runs(a)
      BY <1>1, <1>8, <2>3, <2>4 DEF AgentInv, Tracked, Runs
    <3>2. v \in VaultsOf(a)
      BY <1>4, <1>5, <2>3 DEF VaultsOf
    <3>3. "vault" \in run.new
      BY <1>1, <1>4, <2>2, <3>1, <3>2 DEF Followed, KnowsVault
    <3>4. VaultsOf(a) \subseteq {v}
      BY <2>2, <3>1, <3>2 DEF Followed
    <3>5. KnowsVault(run, a)'
      BY <1>6, <1>8, <2>1, <3>4 DEF KnowsVault
    <3>6. KnowsTraining(run, a)'
      BY <1>6, <1>8, <2>1, <2>2, <3>1 DEF KnowsTraining, Followed
    <3>7. "training" \notin run'.new => KnowsTraining(memory[a], a)'
      BY <1>6, <1>8, <2>1, <3>1 DEF KnowsTraining, Followed
    <3>8. Runs(a)' /\ ~ run'.told /\ "vault" \in run'.new
      BY <1>6, <1>8, <1>9, <2>2, <2>3, <3>3 DEF Runs
    <3>9. \A w, x \in VaultsOf(a)' : w = x
      BY <2>1, <3>4
    <3> QED BY <3>5, <3>6, <3>7, <3>8, <3>9 DEF Followed
  <2> QED BY <1>1, <1>4, <1>6, <1>8, <1>9, <2>1, <2>3, <2>4, FollowedOn
<1> QED BY <1>9, <1>10, <1>11, <1>12, <1>13, <1>14 DEF AgentInv

LEMMA Appended ==
  ASSUME NEW S, NEW q \in Seq(S), NEW e \in S
  PROVE  /\ Append(q, e) \in Seq(S) /\ Len(Append(q, e)) = Len(q) + 1 /\ Len(q) \in Nat
         /\ DOMAIN q = 1..Len(q) /\ DOMAIN Append(q, e) = 1..(Len(q) + 1)
         /\ DOMAIN Append(q, e) = DOMAIN q \cup {Len(q) + 1} /\ Len(q) + 1 \notin DOMAIN q
         /\ \A n \in DOMAIN q : Append(q, e)[n] = q[n]
         /\ Append(q, e)[Len(q) + 1] = e
OBVIOUS

\* A vault more: the others are as they were.
LEMMA VaultAdded ==
  ASSUME AgentInv, NEW e \in [by : Agent, name : Agent \cup {"odd"}, context : Context],
         e.name \in {e.by, "odd"}, vaults' = Append(vaults, e), Len(vaults) < MaxVaults
  PROVE  /\ vaults' \in Seq([by : Agent, name : Agent \cup {"odd"}, context : Context])
         /\ \A v \in DOMAIN vaults' : vaults'[v].name \in {vaults'[v].by, "odd"}
         /\ Len(vaults) \in Nat /\ Len(vaults') = Len(vaults) + 1 /\ Len(vaults') <= MaxVaults
         /\ DOMAIN vaults = 1..Len(vaults)
         /\ DOMAIN vaults' = DOMAIN vaults \cup {Len(vaults')} /\ Len(vaults') \notin DOMAIN vaults
         /\ \A v \in DOMAIN vaults : vaults'[v] = vaults[v]
         /\ vaults'[Len(vaults')] = e
<1> DEFINE S == [by : Agent, name : Agent \cup {"odd"}, context : Context]
<1>1. vaults \in Seq(S) /\ \A v \in DOMAIN vaults : vaults[v].name \in {vaults[v].by, "odd"}
  BY DEF AgentInv, AgentTyped
<1> HIDE DEF S
<1>2. e \in S
  BY DEF S
<1>3. /\ vaults' \in Seq(S) /\ Len(vaults') = Len(vaults) + 1 /\ Len(vaults) \in Nat
      /\ DOMAIN vaults = 1..Len(vaults)
      /\ DOMAIN vaults' = DOMAIN vaults \cup {Len(vaults) + 1} /\ Len(vaults) + 1 \notin DOMAIN vaults
      /\ \A v \in DOMAIN vaults : vaults'[v] = vaults[v]
      /\ vaults'[Len(vaults) + 1] = e
  BY <1>1, <1>2, Appended
<1>4. \A v \in DOMAIN vaults' : vaults'[v].name \in {vaults'[v].by, "odd"}
  BY <1>1, <1>3
<1>5. Len(vaults') <= MaxVaults
  BY <1>3, AgentConstants
<1> QED BY <1>3, <1>4, <1>5 DEF S

LEMMA TrainingAdded ==
  ASSUME AgentInv, NEW a \in Agent, NEW p \in BOOLEAN, Len(trainings) < MaxTrainings,
         trainings' = Append(trainings, [by |-> a, pending |-> p])
  PROVE  /\ trainings' \in Seq([by : Agent, pending : BOOLEAN])
         /\ Len(trainings) \in Nat /\ Len(trainings') = Len(trainings) + 1
         /\ Len(trainings') <= MaxTrainings
         /\ \A b \in Agent : b # a => PendingOf(b)' = PendingOf(b)
         /\ ~ p => PendingOf(a)' = PendingOf(a)
         /\ p => PendingOf(a)' = PendingOf(a) \cup {Len(trainings')}
<1> DEFINE S == [by : Agent, pending : BOOLEAN]
           e == [by |-> a, pending |-> p]
<1>1. trainings \in Seq(S) /\ e \in S
  BY DEF AgentInv, AgentTyped
<1> HIDE DEF S
<1>2. /\ trainings' \in Seq(S) /\ Len(trainings') = Len(trainings) + 1 /\ Len(trainings) \in Nat
      /\ DOMAIN trainings' = DOMAIN trainings \cup {Len(trainings) + 1}
      /\ Len(trainings) + 1 \notin DOMAIN trainings
      /\ \A v \in DOMAIN trainings : trainings'[v] = trainings[v]
      /\ trainings'[Len(trainings) + 1] = e
  BY <1>1, Appended
<1>3. Len(trainings') <= MaxTrainings
  BY <1>2, AgentConstants
<1>4. ASSUME NEW b \in Agent, b # a PROVE PendingOf(b)' = PendingOf(b)
  BY <1>2, <1>4 DEF PendingOf
<1>5. ~ p => PendingOf(a)' = PendingOf(a)
  BY <1>2 DEF PendingOf
<1>6. p => PendingOf(a)' = PendingOf(a) \cup {Len(trainings')}
  BY <1>2 DEF PendingOf
<1> QED BY <1>2, <1>3, <1>4, <1>5, <1>6 DEF S

\* A run that asks for a vault knows of none, or has lost track.
LEMMA CreateHolds ==
  ASSUME AgentInv, In("execute"), Create
  PROVE  AgentInv'
<1>1. Running /\ run \in RunType /\ run.step = "execute" /\ Exists(run)
  BY Executing
<1>2. PICK answer \in {"address", "none", "failed", "lost"}, name \in {run.agent, "odd"},
           exists \in BOOLEAN :
        /\ answer = "address" => exists
        /\ exists => Len(vaults) < MaxVaults
        /\ vaults' = IF exists THEN Append(vaults, [by |-> run.agent, name |-> name,
                                                    context |-> run.context])
                     ELSE vaults
        /\ run' = [Answered EXCEPT
                    !.vault = IF answer = "address" THEN Len(vaults') ELSE @,
                    !.made = @ \/ answer # "lost",
                    !.failed = @ \/ answer = "failed",
                    !.new = IF exists THEN @ \cup {"vault"} ELSE @]
        /\ Slip(exists /\ (answer \in {"failed", "lost"} \/ run.vault # 0 \/ "vault" \in run.new))
  BY DEF Create
<1>3. trainings' = trainings /\ memory' = memory
  BY DEF Create
<1>4. PICK a \in Agent : a = run.agent
  BY <1>1 DEF RunType
<1>5. run.context \in Context
  BY <1>1 DEF RunType
<1>6. vaults \in Seq([by : Agent, name : Agent \cup {"odd"}, context : Context]) /\ Len(vaults) \in Nat
      /\ DOMAIN vaults = 1..Len(vaults)
  BY DEF AgentInv, AgentTyped
<1>7. /\ vaults' \in Seq([by : Agent, name : Agent \cup {"odd"}, context : Context])
      /\ \A v \in DOMAIN vaults' : vaults'[v].name \in {vaults'[v].by, "odd"}
      /\ Len(vaults') \in Nat /\ Len(vaults) <= Len(vaults') /\ Len(vaults') <= MaxVaults
      /\ DOMAIN vaults \subseteq DOMAIN vaults'
      /\ \A v \in DOMAIN vaults : vaults'[v] = vaults[v]
      /\ exists => /\ Len(vaults') \in DOMAIN vaults' /\ Len(vaults') # 0
                   /\ DOMAIN vaults' = DOMAIN vaults \cup {Len(vaults')}
                   /\ vaults'[Len(vaults')].by = a /\ vaults'[Len(vaults')].context = run.context
      /\ ~ exists => vaults' = vaults
  <2>1. CASE exists
    <3> DEFINE e == [by |-> run.agent, name |-> name, context |-> run.context]
    <3>1. e \in [by : Agent, name : Agent \cup {"odd"}, context : Context] /\ e.name \in {e.by, "odd"}
          /\ e.by = a /\ e.context = run.context
      BY <1>4, <1>5
    <3> HIDE DEF e
    <3>2. vaults' = Append(vaults, e) /\ Len(vaults) < MaxVaults
      BY <1>2, <2>1 DEF e
    <3>3. /\ vaults' \in Seq([by : Agent, name : Agent \cup {"odd"}, context : Context])
          /\ \A v \in DOMAIN vaults' : vaults'[v].name \in {vaults'[v].by, "odd"}
          /\ Len(vaults) \in Nat /\ Len(vaults') = Len(vaults) + 1 /\ Len(vaults') <= MaxVaults
          /\ DOMAIN vaults' = DOMAIN vaults \cup {Len(vaults')}
          /\ \A v \in DOMAIN vaults : vaults'[v] = vaults[v]
          /\ vaults'[Len(vaults')] = e
      BY <3>1, <3>2, VaultAdded
    <3>4. Len(vaults') \in Nat /\ Len(vaults) <= Len(vaults') /\ Len(vaults') # 0
      BY <3>3
    <3>5. Len(vaults') \in DOMAIN vaults' /\ DOMAIN vaults \subseteq DOMAIN vaults'
      BY <3>3
    <3> QED BY <2>1, <3>1, <3>3, <3>4, <3>5
  <2>2. CASE ~ exists
    BY <1>2, <1>6, <2>2 DEF AgentInv, AgentTyped
  <2> QED BY <2>1, <2>2
<1>8. PICK v \in Nat : v = IF answer = "address" THEN Len(vaults') ELSE run.vault
  BY <1>1, <1>7 DEF RunType
<1>9. PICK n \in SUBSET {"vault", "training"} : n = IF exists THEN run.new \cup {"vault"} ELSE run.new
  BY <1>1 DEF RunType
<1>10. PICK m \in BOOLEAN : m = (run.made \/ answer # "lost")
  OBVIOUS
<1>11. PICK f \in BOOLEAN : f = (run.failed \/ answer = "failed")
  OBVIOUS
<1>12. /\ Answered.vault = run.vault /\ Answered.new = run.new
       /\ Answered.made = run.made /\ Answered.failed = run.failed
  BY <1>1, AnsweredIs DEF Same, Answered, RunType
<1> DEFINE next == [Answered EXCEPT !.vault = v, !.made = m, !.failed = f, !.new = n]
<1>13. run' = next
  BY <1>2, <1>8, <1>9, <1>10, <1>11, <1>12
<1>14. /\ next \in RunType /\ next.agent = run.agent /\ next.context = run.context
       /\ next.mode = run.mode /\ next.writeTools = run.writeTools
       /\ next.told = run.told /\ next.vault = v /\ next.job = run.job /\ next.new = n
       /\ next.batch = Answered.batch /\ next.owed = Answered.owed /\ next.step = Answered.step
       /\ next.penalty = run.penalty /\ next.sides = run.sides /\ next.unsure = run.unsure
       /\ next.opens = run.opens /\ next.shorts = run.shorts /\ next.pending = run.pending
       /\ next.wrote = Answered.wrote
  <2>1. next \in RunType
    <3>1. v \in Nat /\ n \in SUBSET {"vault", "training"} /\ m \in BOOLEAN /\ f \in BOOLEAN
      BY <1>8, <1>9, <1>10, <1>11
    <3> QED BY <3>1, AnsweredIs DEF RunType
  <2>2. /\ next.agent = Answered.agent /\ next.context = Answered.context
        /\ next.mode = Answered.mode /\ next.writeTools = Answered.writeTools
        /\ next.told = Answered.told /\ next.vault = v /\ next.job = Answered.job
        /\ next.new = n
        /\ next.batch = Answered.batch /\ next.owed = Answered.owed /\ next.step = Answered.step
        /\ next.penalty = Answered.penalty /\ next.sides = Answered.sides
        /\ next.unsure = Answered.unsure
        /\ next.opens = Answered.opens /\ next.shorts = Answered.shorts
        /\ next.pending = Answered.pending /\ next.wrote = Answered.wrote
    BY AnsweredIs DEF RunType
  <2> HIDE DEF next
  <2> QED BY <2>1, <2>2, AnsweredIs DEF Same, Talk
<1> HIDE DEF next
<1>15. Batched(next) /\ Capped(next)
  BY <1>14, AnsweredWell
<1>16. Running'
  BY <1>13, <1>14 DEF Running, NoRun, RunType, AgentStages, Early, Reviewed
<1>17. slipped \subseteq slipped' /\ slipped' \subseteq slipped \cup {a}
       /\ (a \notin slipped' => ~ (exists /\ (answer \in {"failed", "lost"} \/ run.vault # 0
                                                \/ "vault" \in run.new)))
  BY <1>2, <1>4 DEF Slip
<1>18. AgentTyped'
  <2>1. v <= Len(vaults') /\ run.job <= Len(trainings)
    BY <1>1, <1>6, <1>7, <1>8 DEF Exists, RunType
  <2>2. (Running => run \in RunType /\ Exists(run))'
    BY <1>3, <1>13, <1>14, <2>1 DEF Exists
  <2>3. (memory \in [Agent -> MemoryType] /\ \A b \in Agent : Exists(memory[b]))'
    <3>1. \A b \in Agent : memory[b].vault \in Nat /\ Exists(memory[b])
      BY DEF AgentInv, AgentTyped, MemoryType
    <3> QED BY <1>3, <1>6, <1>7, <3>1 DEF AgentInv, AgentTyped, Exists
  <2>4. slipped' \subseteq Agent
    BY <1>17 DEF AgentInv, AgentTyped
  <2> QED BY <1>3, <1>7, <2>2, <2>3, <2>4 DEF AgentInv, AgentTyped
<1>19. (\A b \in Agent : Here(memory[b]))'
  <2>1. \A b \in Agent : memory[b].vault \in Nat /\ memory[b].vault <= Len(vaults) /\ Here(memory[b])
    BY DEF AgentInv, AgentTyped, MemoryType, Exists
  <2> QED BY <1>3, <1>6, <1>7, <2>1 DEF Here
<1>20. (Batched(run) /\ Capped(run))'
  BY <1>13, <1>15 DEF Batched, Capped, Certain, Room
<1>21. Owned(run)'
  <2>1. next.step \notin Early \cup {"rebalance"}
    BY <1>14, AnsweredIs DEF Early
  <2>2. next.wrote \in {run.wrote, Nowhere}
    BY <1>14, AnsweredIs DEF Talk
  <2>3. SUFFICES ASSUME ~ run.told
                 PROVE  /\ v # 0 => vaults'[v].by = a /\ vaults'[v].context = run.context
                        /\ next.wrote.pinned => /\ next.wrote.to \in DOMAIN vaults'
                                                /\ vaults'[next.wrote.to].by = a
                                                /\ vaults'[next.wrote.to].context = run.context
                        /\ next.wrote.listed => run.context \in Hub /\ run.mode \in {"live", "ask"}
    BY <1>4, <1>13, <1>14, <2>1 DEF Owned, Here
  <2>4. Owned(run) /\ run.vault \in Nat /\ run.vault <= Len(vaults)
    BY <1>1 DEF AgentInv, RunType, Exists
  <2>5. v # 0 => vaults'[v].by = a /\ vaults'[v].context = run.context
    <3>1. CASE answer = "address"
      BY <1>2, <1>7, <1>8, <3>1
    <3>2. CASE answer # "address"
      <4>1. v = run.vault
        BY <1>8, <3>2
      <4>2. v # 0 => v \in DOMAIN vaults
        BY <1>6, <2>4, <4>1
      <4> QED BY <1>1, <1>4, <1>7, <2>3, <2>4, <4>1, <4>2 DEF Owned, Here, Early
    <3> QED BY <3>1, <3>2
  <2>6. next.wrote.pinned => /\ next.wrote.to \in DOMAIN vaults'
                             /\ vaults'[next.wrote.to].by = a
                             /\ vaults'[next.wrote.to].context = run.context
    <3>1. CASE next.wrote = run.wrote
      BY <1>4, <1>7, <2>3, <2>4, <3>1 DEF Owned
    <3>2. CASE next.wrote = Nowhere
      BY <3>2 DEF Nowhere
    <3> QED BY <2>2, <3>1, <3>2
  <2>7. next.wrote.listed => run.context \in Hub /\ run.mode \in {"live", "ask"}
    BY <2>2, <2>3, <2>4 DEF Owned, Nowhere
  <2> QED BY <2>5, <2>6, <2>7
<1>22. Tracked'
  <2>1. \A b : PendingOf(b)' = PendingOf(b)
    BY <1>3 DEF PendingOf
  <2>2. \A b \in Agent : b # a => VaultsOf(b)' = VaultsOf(b)
    BY <1>7 DEF VaultsOf
  <2>3. run.told => run.vault # 0
    BY <1>1 DEF AgentInv, Tracked
  <2>4. run.told => v # 0
    BY <1>2, <1>7, <1>8, <2>3
  <2>5. ASSUME a \notin slipped' PROVE Followed(a)'
    <3>1. Followed(a) /\ Runs(a)
      BY <1>1, <1>4, <1>17, <2>5 DEF AgentInv, Tracked, Runs
    <3>2. Runs(a)' /\ run'.told = run.told /\ run'.new = n /\ run'.vault = v
          /\ run'.job = run.job /\ run'.pending = run.pending
      BY <1>4, <1>13, <1>14, <1>16 DEF Runs
    <3>3. "training" \in n <=> "training" \in run.new
      BY <1>9
    <3>4. KnowsTraining(memory[a], a)' = KnowsTraining(memory[a], a)
      BY <1>3, <2>1 DEF KnowsTraining
    <3>5. KnowsTraining(run, a) => KnowsTraining(run, a)'
      BY <2>1, <3>2 DEF KnowsTraining
    <3>6. CASE ~ exists
      <4>1. VaultsOf(a)' = VaultsOf(a) /\ v = run.vault /\ n = run.new
        BY <1>2, <1>7, <1>8, <1>9, <3>6 DEF VaultsOf
      <4> QED BY <1>3, <3>1, <3>2, <3>4, <3>5, <4>1 DEF Followed, KnowsVault
    <3>7. CASE exists
      <4>1. answer \in {"address", "none"} /\ run.vault = 0 /\ "vault" \notin run.new /\ ~ run.told
        BY <1>17, <2>3, <2>5, <3>7
      <4>2. VaultsOf(a) = {}
        <5>1. VaultsOf(a) \subseteq {0}
          BY <3>1, <4>1 DEF Followed, KnowsVault
        <5> QED BY <1>6, <5>1 DEF VaultsOf
      <4>3. VaultsOf(a)' = {Len(vaults')}
        BY <1>7, <3>7, <4>2 DEF VaultsOf
      <4>4. "vault" \in n /\ (v # 0 => v = Len(vaults'))
        BY <1>8, <1>9, <3>7, <4>1
      <4>5. v # 0 => KnowsVault(run, a)'
        BY <3>2, <4>3, <4>4 DEF KnowsVault
      <4> QED BY <3>1, <3>2, <3>3, <3>4, <3>5, <4>1, <4>3, <4>4, <4>5 DEF Followed
    <3> QED BY <3>6, <3>7
  <2> QED BY <1>1, <1>3, <1>4, <1>13, <1>14, <1>16, <1>17, <2>1, <2>2, <2>4, <2>5, FollowedOn
<1> QED BY <1>16, <1>18, <1>19, <1>20, <1>21, <1>22 DEF AgentInv

\* A training that the model starts itself is lost to the runner.
LEMMA TrainHolds ==
  ASSUME AgentInv, In("execute"), Train
  PROVE  AgentInv'
<1>1. Running /\ run \in RunType /\ run.step = "execute" /\ Exists(run)
  BY Executing
<1>2. PICK a \in Agent : a = run.agent
  BY <1>1 DEF RunType
<1>3. /\ Len(trainings) < MaxTrainings
      /\ trainings' = Append(trainings, [by |-> a, pending |-> TRUE])
      /\ run' = Answered /\ slipped' = slipped \cup {a} /\ vaults' = vaults /\ memory' = memory
  BY <1>2 DEF Train, Slip
<1>4. /\ trainings' \in Seq([by : Agent, pending : BOOLEAN])
      /\ Len(trainings) \in Nat /\ Len(trainings') = Len(trainings) + 1
      /\ Len(trainings') <= MaxTrainings
      /\ \A b \in Agent : b # a => PendingOf(b)' = PendingOf(b)
  BY <1>3, TrainingAdded
<1>5. Running' /\ run' \in RunType
  BY <1>3, AnsweredIs DEF Running, NoRun, RunType, AgentStages, Early, Reviewed
<1>6. AgentTyped'
  <2>1. Exists(run)'
    <3>1. run.job \in Nat /\ run.job <= Len(trainings) /\ run.vault <= Len(vaults)
      BY <1>1 DEF Exists, RunType
    <3>2. run.job <= Len(trainings')
      BY <1>4, <3>1
    <3> QED BY <1>3, <3>1, <3>2, AnsweredIs DEF Exists, Same
  <2>2. ASSUME NEW b \in Agent PROVE Exists(memory[b])'
    <3>1. memory[b].job \in Nat /\ memory[b].job <= Len(trainings) /\ memory[b].vault <= Len(vaults)
      BY DEF AgentInv, AgentTyped, MemoryType, Exists
    <3> QED BY <1>3, <1>4, <3>1 DEF Exists
  <2> QED BY <1>3, <1>4, <1>5, <2>1, <2>2 DEF AgentInv, AgentTyped
<1>7. (\A b \in Agent : Here(memory[b]))'
  BY <1>3 DEF AgentInv, Here
<1>8. Batched(Answered) /\ Capped(Answered) /\ Owned(Answered)
  BY <1>1, AnsweredIs, AnsweredWell, OwnedOn DEF Talk, Same, Early
<1>9. (Batched(run) /\ Capped(run) /\ Owned(run))'
  BY <1>3, <1>8 DEF Batched, Capped, Certain, Room, Owned, Here
<1>10. Tracked'
  <2>1. \A b : VaultsOf(b)' = VaultsOf(b)
    BY <1>3 DEF VaultsOf
  <2>2. run'.agent = a /\ (run'.told => run'.vault # 0)
    BY <1>1, <1>2, <1>3, AnsweredIs DEF Same, AgentInv, Tracked
  <2> QED BY <1>1, <1>2, <1>3, <1>4, <2>1, <2>2, FollowedOn
<1> QED BY <1>5, <1>6, <1>7, <1>9, <1>10 DEF AgentInv

\* A training that ended takes the place of the one that is remembered.
LEMMA WatchHolds ==
  ASSUME AgentInv, In("execute"), Watch
  PROVE  AgentInv'
<1>1. Running /\ run \in RunType /\ run.step = "execute" /\ Exists(run)
  BY Executing
<1>2. PICK a \in Agent : a = run.agent
  BY <1>1 DEF RunType
<1>3. PICK j \in DOMAIN trainings :
        /\ ~ trainings[j].pending
        /\ run' = [Answered EXCEPT !.job = j, !.pending = FALSE]
        /\ Slip(run.pending /\ run.job # j)
        /\ UNCHANGED <<vaults, trainings, memory>>
  BY DEF Watch
<1> DEFINE next == [Answered EXCEPT !.job = j, !.pending = FALSE]
<1>4. j \in Nat /\ j <= Len(trainings)
  BY DEF AgentInv, AgentTyped
<1>5. /\ next \in RunType /\ next.agent = run.agent /\ next.context = run.context
      /\ next.mode = run.mode /\ next.writeTools = run.writeTools
      /\ next.told = run.told /\ next.vault = run.vault /\ next.job = j /\ next.new = run.new
      /\ next.batch = Answered.batch /\ next.owed = Answered.owed /\ next.step = Answered.step
      /\ next.penalty = run.penalty /\ next.sides = run.sides /\ next.unsure = run.unsure
      /\ next.opens = run.opens /\ next.shorts = run.shorts /\ ~ next.pending
      /\ next.wrote = Answered.wrote /\ next.needs = Answered.needs
  <2>1. /\ next \in RunType /\ next.agent = Answered.agent /\ next.context = Answered.context
        /\ next.mode = Answered.mode /\ next.writeTools = Answered.writeTools
        /\ next.told = Answered.told /\ next.vault = Answered.vault /\ next.job = j
        /\ next.new = Answered.new
        /\ next.batch = Answered.batch /\ next.owed = Answered.owed /\ next.step = Answered.step
        /\ next.penalty = Answered.penalty /\ next.sides = Answered.sides
        /\ next.unsure = Answered.unsure
        /\ next.opens = Answered.opens /\ next.shorts = Answered.shorts
        /\ ~ next.pending /\ next.wrote = Answered.wrote /\ next.needs = Answered.needs
    BY <1>4, AnsweredIs DEF RunType
  <2> HIDE DEF next
  <2> QED BY <2>1, AnsweredIs DEF Same, Talk
<1>6. /\ run' = next /\ vaults' = vaults /\ trainings' = trainings /\ memory' = memory
      /\ slipped \subseteq slipped' /\ slipped' \subseteq slipped \cup {a}
      /\ (a \notin slipped' => ~ (run.pending /\ run.job # j))
  BY <1>2, <1>3 DEF Slip
<1> HIDE DEF next
<1>7. Running'
  BY <1>5, <1>6 DEF Running, NoRun, RunType, AgentStages, Early, Reviewed
<1>8. AgentTyped'
  BY <1>1, <1>4, <1>5, <1>6 DEF AgentInv, AgentTyped, Exists
<1>9. (\A b \in Agent : Here(memory[b]))'
  BY <1>6 DEF AgentInv, Here
<1>10. Batched(next) /\ Capped(next)
  BY <1>5, AnsweredWell
<1>11. Owned(next)
  <2>1. Owned(Answered)
    BY <1>1, AnsweredIs, OwnedOn DEF Talk, Early
  <2> QED BY <1>5, <2>1, AnsweredIs DEF Owned, Here, Same
<1>12. (Batched(run) /\ Capped(run) /\ Owned(run))'
  BY <1>6, <1>10, <1>11 DEF Batched, Capped, Certain, Room, Owned, Here
<1>13. Tracked'
  <2>1. \A b : VaultsOf(b)' = VaultsOf(b) /\ PendingOf(b)' = PendingOf(b)
    BY <1>6 DEF VaultsOf, PendingOf
  <2>2. run'.agent = a /\ (run'.told => run'.vault # 0)
    BY <1>1, <1>2, <1>5, <1>6 DEF AgentInv, Tracked
  <2>3. ASSUME a \notin slipped' PROVE Followed(a)'
    <3>1. Followed(a) /\ Runs(a)
      BY <1>1, <1>2, <1>6, <2>3 DEF AgentInv, Tracked, Runs
    <3>2. Runs(a)' /\ run'.told = run.told /\ run'.new = run.new /\ run'.vault = run.vault
      BY <1>2, <1>5, <1>6, <1>7 DEF Runs
    <3>3. ~ run.told => KnowsTraining(run, a)'
      <4>1. SUFFICES ASSUME ~ run.told PROVE PendingOf(a) = {}
        BY <2>1 DEF KnowsTraining
      <4>2. KnowsTraining(run, a)
        BY <3>1, <4>1 DEF Followed
      <4>3. CASE ~ run.pending
        BY <4>2, <4>3 DEF KnowsTraining
      <4>4. CASE run.job = j
        <5>1. j \notin PendingOf(a)
          BY <1>3 DEF PendingOf
        <5> QED BY <4>2, <4>4, <5>1 DEF KnowsTraining
      <4> QED BY <1>6, <2>3, <4>3, <4>4
    <3>4. /\ KnowsTraining(memory[a], a)' = KnowsTraining(memory[a], a)
          /\ KnowsVault(memory[a], a)' = KnowsVault(memory[a], a)
          /\ KnowsVault(run, a)' = KnowsVault(run, a)
      BY <1>6, <2>1, <3>2 DEF KnowsTraining, KnowsVault
    <3> QED BY <2>1, <3>1, <3>2, <3>3, <3>4 DEF Followed
  <2> QED BY <1>1, <1>2, <1>6, <2>1, <2>2, <2>3, FollowedOn
<1> QED BY <1>7, <1>8, <1>9, <1>12, <1>13 DEF AgentInv

LEMMA ExecuteHolds == AgentInv /\ executeToolCall => AgentInv'
<1>1. SUFFICES ASSUME AgentInv, executeToolCall PROVE AgentInv'
  OBVIOUS
<1>2. In("execute")
  BY <1>1 DEF executeToolCall
<1>3. CASE Proceed(Answered)
  BY <1>1, <1>2, <1>3, AnswerHolds
<1>4. CASE FindVault
  BY <1>1, <1>2, <1>4, FindHolds
<1>5. CASE Create
  BY <1>1, <1>2, <1>5, CreateHolds
<1>6. CASE Allocate \/ Wrote(Answered)
  BY <1>1, <1>2, <1>6, AllocateHolds
<1>7. CASE \E side \in {"long", "short"} : Head(run.batch) = side /\ Open(side)
  BY <1>1, <1>2, <1>7, OpenHolds
<1>8. CASE Train
  BY <1>1, <1>2, <1>8, TrainHolds
<1>9. CASE Watch
  BY <1>1, <1>2, <1>9, WatchHolds
<1> QED BY <1>1, <1>3, <1>4, <1>5, <1>6, <1>7, <1>8, <1>9 DEF executeToolCall

-----------------------------------------------------------------------------
(* A training started by the runner; the end of a run.                     *)

\* It is started where none is known to go on; an answer that is lost, or a
\* run that saves nothing, loses it.
LEMMA StartTrainingHolds == AgentInv /\ StartTraining => AgentInv'
<1>1. SUFFICES ASSUME AgentInv, StartTraining PROVE AgentInv'
  OBVIOUS
<1>2. Running /\ run \in RunType /\ run.step = "train" /\ Exists(run) /\ ~ run.pending
  BY <1>1, RunTyped DEF AgentInv, StartTraining, evaluateMlRefreshNeed, AgentStages, Early
<1>3. PICK a \in Agent : a = run.agent
  BY <1>2 DEF RunType
<1>4. PICK p \in BOOLEAN, heard \in BOOLEAN :
       /\ trainings' = Append(trainings, [by |-> run.agent, pending |-> p])
       /\ run' = IF heard THEN [To("verify") EXCEPT !.job = Len(trainings'), !.pending = p,
                                                    !.new = @ \cup {"training"}]
                 ELSE To("verify")
       /\ Slip(p /\ (~ heard \/ run.told))
  BY <1>1 DEF StartTraining
<1>5. Len(trainings) < MaxTrainings /\ vaults' = vaults /\ memory' = memory
  BY <1>1 DEF StartTraining
<1>6. /\ trainings' \in Seq([by : Agent, pending : BOOLEAN])
      /\ Len(trainings) \in Nat /\ Len(trainings') = Len(trainings) + 1
      /\ Len(trainings') <= MaxTrainings
      /\ \A b \in Agent : b # a => PendingOf(b)' = PendingOf(b)
      /\ ~ p => PendingOf(a)' = PendingOf(a)
      /\ p => PendingOf(a)' = PendingOf(a) \cup {Len(trainings')}
  BY <1>1, <1>3, <1>4, <1>5, TrainingAdded
<1>7. PICK l \in Nat : l = Len(trainings')
  BY <1>6
<1>8. slipped \subseteq slipped' /\ slipped' \subseteq slipped \cup {a}
      /\ (a \notin slipped' => ~ (p /\ (~ heard \/ run.told)))
  BY <1>3, <1>4 DEF Slip
<1>9. /\ run' \in RunType /\ run'.agent = a /\ run'.context = run.context
      /\ run'.mode = run.mode /\ run'.writeTools = run.writeTools /\ run'.told = run.told
      /\ run'.vault = run.vault /\ run'.needs = run.needs /\ run'.step = "verify"
      /\ run'.owed = run.owed /\ run'.unsure = run.unsure /\ run'.opens = run.opens
      /\ run'.shorts = run.shorts /\ run'.penalty = run.penalty /\ run'.sides = run.sides
      /\ run'.wrote = run.wrote
      /\ IF heard THEN run'.job = l /\ run'.pending = p /\ run'.new = run.new \cup {"training"}
         ELSE run'.job = run.job /\ run'.pending = run.pending /\ run'.new = run.new
  <2>1. CASE heard
    <3>1. PICK n \in SUBSET {"vault", "training"} : n = run.new \cup {"training"}
      BY <1>2 DEF RunType
    <3>2. To("verify").new = run.new
      BY <1>2 DEF To, RunType
    <3> DEFINE next == [To("verify") EXCEPT !.job = l, !.pending = p, !.new = n]
    <3>3. run' = next
      BY <1>4, <1>7, <2>1, <3>1, <3>2
    <3>4. next \in RunType
      BY <1>2 DEF To, RunType, AgentStages, Early
    <3>5. /\ next.agent = run.agent /\ next.context = run.context
          /\ next.mode = run.mode /\ next.writeTools = run.writeTools /\ next.told = run.told
          /\ next.vault = run.vault /\ next.needs = run.needs /\ next.step = "verify"
          /\ next.owed = run.owed /\ next.unsure = run.unsure /\ next.opens = run.opens
          /\ next.shorts = run.shorts /\ next.penalty = run.penalty /\ next.sides = run.sides
          /\ next.wrote = run.wrote /\ next.job = l /\ next.pending = p /\ next.new = n
      BY <1>2 DEF To, RunType
    <3> HIDE DEF next
    <3> QED BY <1>3, <2>1, <3>1, <3>3, <3>4, <3>5
  <2>2. CASE ~ heard
    <3>1. Same(To("verify")) /\ Talk(To("verify")) /\ To("verify").step = "verify"
          /\ To("verify").owed = run.owed /\ To("verify").unsure = run.unsure
          /\ To("verify").wrote = run.wrote
      BY <1>2 DEF Talk, Same, To, RunType, AgentStages, Early
    <3>2. run' = To("verify")
      BY <1>4, <2>2
    <3> QED BY <1>3, <2>2, <3>1, <3>2 DEF Same, Talk
  <2> QED BY <2>1, <2>2
<1>10. Running'
  BY <1>9 DEF Running, NoRun
<1>11. AgentTyped'
  <2>1. Exists(run)'
    <3>1. run.job \in Nat /\ run.job <= Len(trainings) /\ run.vault <= Len(vaults)
      BY <1>2 DEF Exists, RunType
    <3>2. run'.job <= Len(trainings')
      BY <1>6, <1>7, <1>9, <3>1
    <3> QED BY <1>5, <1>9, <3>1, <3>2 DEF Exists
  <2>2. ASSUME NEW b \in Agent PROVE Exists(memory[b])'
    <3>1. memory[b].job \in Nat /\ memory[b].job <= Len(trainings) /\ memory[b].vault <= Len(vaults)
      BY <1>1 DEF AgentInv, AgentTyped, MemoryType, Exists
    <3> QED BY <1>5, <1>6, <3>1 DEF Exists
  <2> QED BY <1>1, <1>5, <1>6, <1>8, <1>9, <2>1, <2>2 DEF AgentInv, AgentTyped
<1>12. (\A b \in Agent : Here(memory[b]))'
  BY <1>1, <1>5 DEF AgentInv, Here
<1>13. Batched(run)'
  BY <1>1, <1>2, <1>9 DEF AgentInv, Batched, Reviewed
<1>14. Capped(run)'
  <2>1. SUFFICES ASSUME Certain(run) PROVE Room(run', <<>>)
    BY <1>9 DEF Capped, Certain, Room, Reviewed
  <2> QED BY <1>1, <1>2, <1>9, <2>1, RoomAs DEF AgentInv, Capped
<1>15. Owned(run)'
  BY <1>1, <1>2, <1>3, <1>5, <1>9 DEF AgentInv, Owned, Here, Early
<1>16. Tracked'
  <2>1. \A b : VaultsOf(b)' = VaultsOf(b)
    BY <1>5 DEF VaultsOf
  <2>2. run'.told => run'.vault # 0
    BY <1>1, <1>2, <1>9 DEF AgentInv, Tracked
  <2>3. ASSUME a \notin slipped' PROVE Followed(a)'
    <3>1. Followed(a) /\ Runs(a)
      BY <1>1, <1>2, <1>3, <1>8, <2>3 DEF AgentInv, Tracked, Runs
    <3>2. Runs(a)' /\ run'.told = run.told /\ run'.vault = run.vault
          /\ ("vault" \in run'.new <=> "vault" \in run.new)
      BY <1>9, <1>10 DEF Runs
    <3>3. /\ KnowsVault(memory[a], a)' = KnowsVault(memory[a], a)
          /\ KnowsVault(run, a)' = KnowsVault(run, a)
      BY <1>5, <2>1, <3>2 DEF KnowsVault
    <3>4. ~ run.told => PendingOf(a) = {}
      BY <1>2, <3>1 DEF Followed, KnowsTraining
    <3>5. ~ run.told => KnowsTraining(run, a)'
      <4>1. CASE p
        BY <1>6, <1>7, <1>8, <1>9, <2>3, <3>4, <4>1 DEF KnowsTraining
      <4>2. CASE ~ p
        BY <1>6, <3>4, <4>2 DEF KnowsTraining
      <4> QED BY <4>1, <4>2
    <3>6. run'.told \/ "training" \notin run'.new => KnowsTraining(memory[a], a)'
      <4>1. SUFFICES ASSUME run.told \/ ~ heard, run'.told \/ "training" \notin run'.new
                     PROVE  KnowsTraining(memory[a], a)'
        BY <1>9
      <4>2. ~ p /\ (run.told \/ "training" \notin run.new)
        BY <1>8, <1>9, <2>3, <4>1
      <4>3. KnowsTraining(memory[a], a)
        BY <3>1, <4>2 DEF Followed
      <4> QED BY <1>5, <1>6, <4>2, <4>3 DEF KnowsTraining
    <3> QED BY <2>1, <3>1, <3>2, <3>3, <3>5, <3>6 DEF Followed
  <2> QED BY <1>1, <1>2, <1>3, <1>5, <1>6, <1>8, <1>9, <2>1, <2>2, <2>3, FollowedOn
<1> QED BY <1>10, <1>11, <1>12, <1>13, <1>14, <1>15, <1>16 DEF AgentInv

\* What is saved is what the run knows; a run that cannot save what it made
\* has lost it.
LEMMA SaveHolds == AgentInv /\ writeState => AgentInv'
<1>1. SUFFICES ASSUME AgentInv, writeState PROVE AgentInv'
  OBVIOUS
<1>2. Running /\ run \in RunType /\ run.step = "save" /\ Exists(run)
  BY <1>1, RunTyped DEF AgentInv, writeState, AgentStages
<1>3. PICK a \in Agent : a = run.agent
  BY <1>2 DEF RunType
<1>4. PICK saved \in BOOLEAN :
       /\ memory' = IF run.told \/ ~ saved THEN memory ELSE [memory EXCEPT ![run.agent] = Learned]
       /\ Slip((~ run.told /\ ~ saved /\ run.new # {}) \/ (run.vault = 0 /\ "vault" \in run.new))
  BY <1>1 DEF writeState
<1>5. run' = NoRun /\ vaults' = vaults /\ trainings' = trainings /\ ~ Running'
  BY <1>1 DEF writeState, Running
<1>6. slipped \subseteq slipped' /\ slipped' \subseteq slipped \cup {a}
      /\ (a \notin slipped' => ~ ((~ run.told /\ ~ saved /\ run.new # {})
                                    \/ (run.vault = 0 /\ "vault" \in run.new)))
  BY <1>3, <1>4 DEF Slip
<1>7. /\ Learned \in MemoryType /\ Learned.vault = run.vault /\ Learned.job = run.job
      /\ Learned.pending = run.pending /\ Learned.context = run.context
  BY <1>2 DEF Learned, MemoryType, RunType
<1>8. /\ memory' \in [Agent -> MemoryType]
      /\ \A b \in Agent : b # a => memory'[b] = memory[b]
      /\ memory'[a] = IF run.told \/ ~ saved THEN memory[a] ELSE Learned
  BY <1>1, <1>3, <1>4, <1>7 DEF AgentInv, AgentTyped
<1>9. AgentTyped'
  <2>1. ASSUME NEW b \in Agent PROVE Exists(memory'[b])
    BY <1>1, <1>2, <1>7, <1>8 DEF AgentInv, AgentTyped, Exists
  <2> QED BY <1>1, <1>5, <1>6, <1>8, <2>1 DEF AgentInv, AgentTyped, Exists
<1>10. (\A b \in Agent : Here(memory[b]))'
  <2>1. ~ run.told => Here(Learned)
    BY <1>1, <1>2, <1>7 DEF AgentInv, Owned, Here
  <2>2. ASSUME NEW b \in Agent PROVE Here(memory'[b])
    <3>1. CASE b # a
      BY <1>1, <1>8, <3>1 DEF AgentInv
    <3>2. CASE b = a
      BY <1>1, <1>8, <2>1, <3>2 DEF AgentInv
    <3> QED BY <3>1, <3>2
  <2> QED BY <1>5, <2>2 DEF Here
<1>11. Tracked'
  <2>1. \A b : VaultsOf(b)' = VaultsOf(b) /\ PendingOf(b)' = PendingOf(b)
    BY <1>5 DEF VaultsOf, PendingOf
  <2>2. ASSUME a \notin slipped' PROVE Followed(a)'
    <3>1. Followed(a) /\ Runs(a)
      BY <1>1, <1>2, <1>3, <1>6, <2>2 DEF AgentInv, Tracked, Runs
    <3>2. KnowsVault(memory'[a], a) /\ KnowsTraining(memory'[a], a)
      <4>1. CASE run.told
        BY <1>8, <3>1, <4>1 DEF Followed
      <4>2. CASE ~ run.told /\ ~ saved
        BY <1>6, <1>8, <2>2, <3>1, <4>2 DEF Followed
      <4>3. CASE ~ run.told /\ saved
        BY <1>6, <1>7, <1>8, <2>2, <3>1, <4>3 DEF Followed, KnowsVault, KnowsTraining
      <4> QED BY <4>1, <4>2, <4>3
    <3>3. KnowsVault(memory[a], a)' /\ KnowsTraining(memory[a], a)'
      BY <2>1, <3>2 DEF KnowsVault, KnowsTraining
    <3>4. ~ Runs(a)'
      BY <1>5 DEF Runs
    <3> QED BY <3>3, <3>4 DEF Followed
  <2> QED BY <1>1, <1>2, <1>3, <1>5, <1>6, <1>8, <2>1, <2>2, FollowedOn
<1> QED BY <1>5, <1>9, <1>10, <1>11 DEF AgentInv

LEMMA FailHolds == AgentInv /\ Fail => AgentInv'
<1>1. SUFFICES ASSUME AgentInv, Fail PROVE AgentInv'
  OBVIOUS
<1>2. Running /\ run \in RunType
  BY <1>1 DEF Fail, Running, NoRun, AgentInv, AgentTyped
<1>3. PICK a \in Agent : a = run.agent
  BY <1>2 DEF RunType
<1>4. /\ run' = NoRun /\ vaults' = vaults /\ trainings' = trainings /\ memory' = memory
      /\ ~ Running'
  BY <1>1 DEF Fail, Running
<1>5. slipped \subseteq slipped' /\ slipped' \subseteq slipped \cup {a}
      /\ (a \notin slipped' => run.new = {})
  BY <1>1, <1>3 DEF Fail, Slip
<1>6. AgentTyped'
  BY <1>1, <1>4, <1>5 DEF AgentInv, AgentTyped, Exists
<1>7. (\A b \in Agent : Here(memory[b]))'
  BY <1>1, <1>4 DEF AgentInv, Here
<1>8. Tracked'
  <2>1. \A b : VaultsOf(b)' = VaultsOf(b) /\ PendingOf(b)' = PendingOf(b)
    BY <1>4 DEF VaultsOf, PendingOf
  <2>2. ASSUME a \notin slipped' PROVE Followed(a)'
    <3>1. KnowsVault(memory[a], a) /\ KnowsTraining(memory[a], a)
      BY <1>1, <1>5, <2>2 DEF AgentInv, Tracked, Followed
    <3>2. KnowsVault(memory[a], a)' /\ KnowsTraining(memory[a], a)' /\ ~ Runs(a)'
      BY <1>4, <2>1, <3>1 DEF KnowsVault, KnowsTraining, Runs
    <3> QED BY <3>2 DEF Followed
  <2> QED BY <1>1, <1>2, <1>3, <1>4, <1>5, <2>1, <2>2, FollowedOn
<1> QED BY <1>4, <1>6, <1>7, <1>8 DEF AgentInv

-----------------------------------------------------------------------------
(* The start of a run, and what happens from outside.                      *)

\* Memory of another network is put away; where it held something, it is lost
\* to the runner.
LEMMA StartHolds ==
  ASSUME AgentInv, NEW a \in Agent, NEW c \in Context, NEW how \in {"live", "ask", "skip", "dry"},
         NEW given \in 0..Len(vaults), NEW writeTools \in WriteLists, NEW sides \in Direction,
         NEW penalty \in BOOLEAN, StartRun(a, c, how, given, writeTools, sides, penalty)
  PROVE  AgentInv'
<1>1. ~ Running
  BY RunTyped DEF StartRun, In, Running, NoRun, AgentInv, AgentTyped, RunType, AgentStages, Early, Reviewed
<1>2. vaults' = vaults /\ trainings' = trainings
  BY DEF StartRun
<1>3. memory \in [Agent -> MemoryType] /\ NoMemory \in MemoryType
  BY DEF AgentInv, AgentTyped, NoMemory, MemoryType
<1>4. /\ Remembered(a, c) \in MemoryType
      /\ Exists(Remembered(a, c)) /\ Here(Remembered(a, c))
      /\ Remembered(a, c).vault # 0 => Remembered(a, c).context = c
      /\ Remembered(a, c) \in {memory[a], NoMemory}
  <2>1. Len(vaults) \in Nat /\ Len(trainings) \in Nat
    BY DEF AgentInv, AgentTyped
  <2>2. CASE memory[a].context # c
    BY <1>3, <2>1, <2>2 DEF Remembered, shouldInvalidateDeploymentMemory, NoMemory, Exists, Here
  <2>3. CASE memory[a].context = c
    BY <1>3, <2>3 DEF Remembered, shouldInvalidateDeploymentMemory, AgentInv, AgentTyped
  <2> QED BY <2>2, <2>3
<1>5. /\ memory' \in [Agent -> MemoryType] /\ memory'[a] = Remembered(a, c)
      /\ \A b \in Agent : b # a => memory'[b] = memory[b]
  BY <1>3, <1>4 DEF StartRun
<1>6. slipped \subseteq slipped' /\ slipped' \subseteq slipped \cup {a}
      /\ (a \notin slipped' => memory'[a] = memory[a] \/ ~ Holds(memory[a]))
  BY DEF StartRun
<1> DEFINE m == IF given = 0 THEN Remembered(a, c) ELSE [NoMemory EXCEPT !.vault = given]
<1>7. /\ m \in MemoryType /\ Exists(m)
      /\ given = 0 => m = Remembered(a, c)
      /\ given # 0 => m.vault # 0
  <2>1. CASE given = 0
    BY <1>4, <2>1
  <2>2. CASE given # 0
    <3>1. Len(vaults) \in Nat /\ Len(trainings) \in Nat
      BY DEF AgentInv, AgentTyped
    <3>2. given \in Nat /\ given <= Len(vaults) /\ m = [NoMemory EXCEPT !.vault = given]
      BY <2>2, <3>1
    <3> HIDE DEF m
    <3>3. m \in MemoryType /\ m.vault = given /\ m.job = 0
      BY <1>3, <3>2 DEF NoMemory, MemoryType
    <3> QED BY <2>2, <3>1, <3>2, <3>3 DEF Exists
  <2> QED BY <2>1, <2>2
<1>8. run' = [step |-> "poll", agent |-> a, context |-> c, mode |-> how, told |-> given # 0,
              vault |-> m.vault, needs |-> m.vault = 0, job |-> m.job, pending |-> m.pending,
              writeTools |-> writeTools, sides |-> sides, penalty |-> penalty,
              made |-> FALSE, failed |-> FALSE, new |-> {}, allocated |-> FALSE,
              turn |-> 0, rounds |-> 0, batch |-> <<>>, owed |-> 0, opens |-> 0, shorts |-> 0,
              unsure |-> FALSE, wrote |-> Nowhere]
  BY DEF StartRun
<1> HIDE DEF m
<1>9. /\ run' \in RunType /\ run'.step = "poll" /\ run'.agent = a /\ run'.context = c
      /\ (run'.told <=> given # 0) /\ run'.vault = m.vault /\ (run'.needs <=> m.vault = 0)
      /\ run'.job = m.job /\ run'.pending = m.pending /\ run'.new = {} /\ run'.batch = <<>>
      /\ run'.owed = 0 /\ run'.opens = 0 /\ run'.shorts = 0 /\ run'.wrote = Nowhere
  <2>1. PICK t \in BOOLEAN : t = (given # 0)
    OBVIOUS
  <2>2. PICK d \in BOOLEAN : d = (m.vault = 0)
    OBVIOUS
  <2>3. run' = [step |-> "poll", agent |-> a, context |-> c, mode |-> how, told |-> t,
                vault |-> m.vault, needs |-> d, job |-> m.job, pending |-> m.pending,
                writeTools |-> writeTools, sides |-> sides, penalty |-> penalty,
                made |-> FALSE, failed |-> FALSE, new |-> {}, allocated |-> FALSE,
                turn |-> 0, rounds |-> 0, batch |-> <<>>, owed |-> 0, opens |-> 0, shorts |-> 0,
                unsure |-> FALSE, wrote |-> Nowhere]
    BY <1>8, <2>1, <2>2
  <2>4. m.vault \in Nat /\ m.job \in Nat /\ m.pending \in BOOLEAN /\ <<>> \in Seq(Call)
        /\ "poll" \in AgentStages
    BY <1>7 DEF MemoryType, AgentStages, Early
  <2>5. t \in BOOLEAN /\ d \in BOOLEAN
    BY <2>1, <2>2
  <2>6. run' \in RunType
    BY <2>3, <2>4, <2>5 DEF RunType, Nowhere
  <2> QED BY <2>1, <2>2, <2>3, <2>6 DEF Nowhere
<1>10. Running'
  BY <1>9 DEF Running, NoRun
<1>11. AgentTyped'
  <2>1. ASSUME NEW b \in Agent PROVE Exists(memory'[b])
    BY <1>4, <1>5 DEF AgentInv, AgentTyped
  <2>2. Exists(run')
    BY <1>7, <1>9 DEF Exists
  <2> QED BY <1>2, <1>5, <1>6, <1>9, <2>1, <2>2 DEF AgentInv, AgentTyped, Exists
<1>12. (\A b \in Agent : Here(memory[b]))'
  <2>1. ASSUME NEW b \in Agent PROVE Here(memory'[b])
    BY <1>4, <1>5 DEF AgentInv
  <2> QED BY <1>2, <2>1 DEF Here
<1>13. Batched(run)'
  BY <1>9 DEF Batched, Reviewed
<1>14. Capped(run)'
  <2>1. Calls(<<>>, {"long"}) = 0 /\ Calls(<<>>, {"short"}) = 0
    BY NoneLeft
  <2>2. Room(run', <<>>)
    BY <1>9, <2>1, AgentConstants DEF Room
  <2> QED BY <1>9, <2>2 DEF Capped, Certain, Room, Reviewed
<1>15. Owned(run)'
  <2>1. given = 0 => (m.vault # 0 => vaults[m.vault].context = c)
    BY <1>4, <1>7 DEF Here
  <2> QED BY <1>2, <1>9, <2>1 DEF Owned, Here, Early, Nowhere
<1>16. Tracked'
  <2>1. \A b : VaultsOf(b)' = VaultsOf(b) /\ PendingOf(b)' = PendingOf(b)
    BY <1>2 DEF VaultsOf, PendingOf
  <2>2. \A b \in Agent : ~ Runs(b)
    BY <1>1 DEF Runs
  <2>3. ASSUME NEW b \in Agent, b \notin slipped' PROVE KnowsVault(memory'[b], b) /\ KnowsTraining(memory'[b], b)
    <3>1. KnowsVault(memory[b], b) /\ KnowsTraining(memory[b], b)
      BY <1>6, <2>2, <2>3 DEF AgentInv, Tracked, Followed
    <3>2. CASE memory'[b] = memory[b]
      BY <3>1, <3>2
    <3>3. CASE memory'[b] # memory[b]
      <4>1. b = a /\ memory'[b] = NoMemory /\ ~ Holds(memory[b])
        BY <1>4, <1>5, <1>6, <2>3, <3>3
      <4>2. VaultsOf(b) \subseteq {0} /\ PendingOf(b) = {}
        BY <1>3, <3>1, <4>1 DEF Holds, KnowsVault, KnowsTraining, MemoryType
      <4> QED BY <4>1, <4>2 DEF NoMemory, KnowsVault, KnowsTraining
    <3> QED BY <3>2, <3>3
  <2>4. ASSUME NEW b \in Agent, b \notin slipped' PROVE Followed(b)'
    <3>1. KnowsVault(memory[b], b)' /\ KnowsTraining(memory[b], b)'
      BY <2>1, <2>3, <2>4 DEF KnowsVault, KnowsTraining
    <3>2. Runs(b)' /\ ~ run'.told => KnowsTraining(run, b)' /\ KnowsVault(run, b)'
      <4>1. SUFFICES ASSUME b = a, given = 0
                     PROVE  /\ run'.vault = memory'[b].vault /\ run'.job = memory'[b].job
                            /\ run'.pending = memory'[b].pending
        BY <1>9, <3>1 DEF Runs, KnowsVault, KnowsTraining
      <4> QED BY <1>5, <1>7, <1>9, <4>1
    <3>3. \A v, w \in VaultsOf(b)' : v = w
      BY <2>1, <2>3, <2>4 DEF KnowsVault
    <3> QED BY <3>1, <3>2, <3>3 DEF Followed
  <2> QED BY <1>7, <1>9, <2>4 DEF Tracked
<1> QED BY <1>10, <1>11, <1>12, <1>13, <1>14, <1>15, <1>16 DEF AgentInv

LEMMA EndsHolds ==
  ASSUME AgentInv, NEW j \in DOMAIN trainings, TrainingEnds(j)
  PROVE  AgentInv'
<1>1. /\ vaults' = vaults /\ memory' = memory /\ run' = run /\ slipped' = slipped
      /\ trainings' = [trainings EXCEPT ![j].pending = FALSE]
  BY DEF TrainingEnds
<1>2. /\ trainings' \in Seq([by : Agent, pending : BOOLEAN]) /\ Len(trainings') = Len(trainings)
      /\ DOMAIN trainings' = DOMAIN trainings
      /\ \A k \in DOMAIN trainings : trainings'[k].by = trainings[k].by
                                     /\ (trainings'[k].pending => trainings[k].pending)
  <2>1. ASSUME NEW S, NEW q \in Seq(S), NEW k \in DOMAIN q, NEW e \in S
        PROVE  [q EXCEPT ![k] = e] \in Seq(S) /\ Len([q EXCEPT ![k] = e]) = Len(q)
    OBVIOUS
  <2> DEFINE S == [by : Agent, pending : BOOLEAN]
             e == [trainings[j] EXCEPT !.pending = FALSE]
  <2>2. trainings \in Seq(S) /\ trainings' = [trainings EXCEPT ![j] = e]
    BY <1>1 DEF AgentInv, AgentTyped
  <2>3. \A k \in DOMAIN trainings : trainings[k] \in S
    <3>1. ASSUME NEW R, NEW q \in Seq(R), NEW n \in DOMAIN q
          PROVE  q[n] \in R
      OBVIOUS
    <3> QED BY <2>2, <3>1, Zenon
  <2>6. e \in S
    BY <2>3
  <2>7. trainings' \in Seq(S) /\ Len(trainings') = Len(trainings)
    <3> HIDE DEF S, e
    <3> QED BY <2>1, <2>2, <2>6
  <2>4. DOMAIN trainings' = DOMAIN trainings
    BY <1>1
  <2>5. ASSUME NEW k \in DOMAIN trainings
        PROVE  trainings'[k].by = trainings[k].by /\ (trainings'[k].pending => trainings[k].pending)
    BY <1>1, <2>3
  <2> QED BY <2>4, <2>5, <2>7
<1>3. AgentTyped' /\ (Running' <=> Running)
  BY <1>1, <1>2 DEF AgentInv, AgentTyped, Exists, Running
<1>4. (\A b \in Agent : Here(memory[b]))'
  BY <1>1 DEF AgentInv, Here
<1>5. (Running => Batched(run) /\ Owned(run) /\ Capped(run))'
  BY <1>1, <1>3 DEF AgentInv, Batched, Owned, Here, Capped, Certain, Room
<1>6. Tracked'
  <2>1. \A b : VaultsOf(b)' = VaultsOf(b) /\ PendingOf(b)' \subseteq PendingOf(b)
    BY <1>1, <1>2 DEF VaultsOf, PendingOf
  <2>2. ASSUME NEW b \in Agent, b \notin slipped PROVE Followed(b)'
    BY <1>1, <1>3, <2>1, <2>2 DEF AgentInv, Tracked, Followed, Runs, KnowsVault, KnowsTraining
  <2> QED BY <1>1, <1>3, <2>2 DEF AgentInv, Tracked
<1> QED BY <1>3, <1>4, <1>5, <1>6 DEF AgentInv

LEMMA MisplaceHolds ==
  ASSUME AgentInv, NEW a \in Agent, NEW m \in {NoMemory} \cup {memory[b] : b \in Agent},
         Misplace(a, m)
  PROVE  AgentInv'
<1>1. /\ vaults' = vaults /\ trainings' = trainings /\ run' = run /\ slipped' = slipped \cup {a}
      /\ memory' = [memory EXCEPT ![a] = m] /\ ~ Running
  BY RunTyped DEF Misplace, In, Running, NoRun, AgentInv, AgentTyped, RunType, AgentStages, Early, Reviewed
<1>2. m \in MemoryType /\ Exists(m) /\ Here(m)
  <2>1. CASE m = NoMemory
    <3>1. Len(vaults) \in Nat /\ Len(trainings) \in Nat
      BY DEF AgentInv, AgentTyped
    <3> QED BY <2>1, <3>1 DEF NoMemory, MemoryType, Exists, Here
  <2>2. CASE m \in {memory[b] : b \in Agent}
    BY <2>2 DEF AgentInv, AgentTyped
  <2> QED BY <2>1, <2>2
<1>3. /\ memory' \in [Agent -> MemoryType] /\ memory'[a] = m
      /\ \A b \in Agent : b # a => memory'[b] = memory[b]
  BY <1>1, <1>2 DEF AgentInv, AgentTyped
<1>4. AgentTyped' /\ ~ Running'
  <2>1. ASSUME NEW b \in Agent PROVE Exists(memory'[b])
    BY <1>2, <1>3 DEF AgentInv, AgentTyped
  <2> QED BY <1>1, <1>3, <2>1 DEF AgentInv, AgentTyped, Exists, Running
<1>5. (\A b \in Agent : Here(memory[b]))'
  <2>1. ASSUME NEW b \in Agent PROVE Here(memory'[b])
    BY <1>2, <1>3 DEF AgentInv
  <2> QED BY <1>1, <2>1 DEF Here
<1>6. Tracked'
  <2>1. ASSUME NEW b \in Agent, b \notin slipped, b # a PROVE Followed(b)'
    BY <1>1, <1>3, <1>4, <2>1
       DEF AgentInv, Tracked, Followed, Runs, KnowsVault, KnowsTraining, VaultsOf, PendingOf
  <2> QED BY <1>1, <1>4, <2>1 DEF Tracked
<1> QED BY <1>4, <1>5, <1>6 DEF AgentInv

-----------------------------------------------------------------------------
(* The theorems.                                                           *)

LEMMA AgentInvInit == AgentInit => AgentInv
<1>1. SUFFICES ASSUME AgentInit PROVE AgentInv
  OBVIOUS
<1>2. ~ Running /\ vaults = <<>> /\ trainings = <<>> /\ slipped = {}
      /\ memory = [a \in Agent |-> NoMemory]
  BY <1>1 DEF AgentInit, Running
<1>3. /\ \A S : <<>> \in Seq(S)
      /\ Len(<<>>) = 0 /\ DOMAIN <<>> = {}
  OBVIOUS
<1>4. AgentTyped
  <2>1. NoMemory \in MemoryType /\ Exists(NoMemory)
    BY <1>2, <1>3 DEF NoMemory, MemoryType, Exists
  <2> QED BY <1>2, <1>3, <2>1, AgentConstants DEF AgentTyped
<1>5. \A a \in Agent : Here(memory[a])
  BY <1>2 DEF Here, NoMemory
<1>6. Tracked
  BY <1>2, <1>3 DEF Tracked, Followed, Runs, KnowsVault, KnowsTraining, VaultsOf, PendingOf
<1> QED BY <1>2, <1>4, <1>5, <1>6 DEF AgentInv

LEMMA AgentInvNext == AgentInv /\ [AgentNext]_agentVars => AgentInv'
<1>1. SUFFICES ASSUME AgentInv, [AgentNext]_agentVars PROVE AgentInv'
  OBVIOUS
<1>2. CASE AgentStep
  BY <1>1, <1>2, PollHolds, StartTrainingHolds, NoTrainingHolds, VerifyHolds, RebalanceHolds,
     ProposeHolds, ReviewHolds, ConfirmHolds, PushHolds, StopHolds, ExecuteHolds, SaveHolds,
     FailHolds DEF AgentStep
<1>3. ASSUME NEW a \in Agent, NEW c \in Context, NEW how \in {"live", "ask", "skip", "dry"},
             NEW given \in 0..Len(vaults), NEW writeTools \in WriteLists, NEW sides \in Direction,
             NEW penalty \in BOOLEAN, StartRun(a, c, how, given, writeTools, sides, penalty)
      PROVE  AgentInv'
  BY <1>1, <1>3, StartHolds
<1>4. ASSUME NEW j \in DOMAIN trainings, TrainingEnds(j) PROVE AgentInv'
  BY <1>1, <1>4, EndsHolds
<1>5. ASSUME NEW a \in Agent, NEW m \in {NoMemory} \cup {memory[b] : b \in Agent}, Misplace(a, m)
      PROVE  AgentInv'
  BY <1>1, <1>5, MisplaceHolds
<1>6. CASE UNCHANGED agentVars
  BY <1>1, <1>6 DEF agentVars, AgentInv, AgentTyped, Exists, Here, Batched, Owned, Capped, Certain, Room,
     Tracked, Followed, Runs, KnowsVault, KnowsTraining, VaultsOf, PendingOf, Running
<1> QED BY <1>1, <1>2, <1>3, <1>4, <1>5, <1>6 DEF AgentNext

LEMMA AgentInvHolds == AgentSpec => []AgentInv
<1> QED BY AgentInvInit, AgentInvNext, PTL DEF AgentSpec

\* For any agents, networks and failures: the vault and the training that an
\* agent remembers exist.
THEOREM AgentsTyped == AgentSpec => []AgentTypeOK
<1>1. AgentInv => AgentTypeOK
  <2>1. SUFFICES ASSUME AgentInv PROVE AgentTypeOK
    OBVIOUS
  <2>2. \A a \in Agent : memory[a].vault \in 0..Len(vaults) /\ memory[a].job \in 0..Len(trainings)
    BY <2>1 DEF AgentInv, AgentTyped, MemoryType, Exists
  <2> QED BY <2>1, <2>2 DEF AgentTypeOK, AgentInv, AgentTyped
<1> QED BY <1>1, AgentInvHolds, PTL

\* For any agents, networks and lists of writes: a run that found its vault by
\* itself works with one of its own agent's on its network, and what its perp
\* tools write goes there, listed or not; and a write that is listed is executed
\* on the hub and by a run that executes writes, or not at all.
THEOREM RunsKeepTheirVault == AgentSpec => []OwnVault
<1>1. AgentInv => OwnVault
  <2>1. SUFFICES ASSUME AgentInv, Working, ~ run.told
                 PROVE  /\ run.vault # 0 => /\ vaults[run.vault].by = run.agent
                                            /\ vaults[run.vault].context = run.context
                        /\ run.wrote.pinned => /\ vaults[run.wrote.to].by = run.agent
                                               /\ vaults[run.wrote.to].context = run.context
                        /\ run.wrote.listed => run.context \in Hub /\ run.mode \in {"live", "ask"}
    BY DEF OwnVault
  <2>2. Running /\ run.step \notin Early
    BY <2>1 DEF Working, Running, NoRun, Early
  <2>3. Owned(run)
    BY <2>1, <2>2 DEF AgentInv
  <2> QED BY <2>1, <2>2, <2>3 DEF Owned, Here
<1> QED BY <1>1, AgentInvHolds, PTL

\* For any number of runs, of vaults and of trainings: an agent of which the
\* runner has lost nothing has one vault and one training at a time.
THEOREM OneVaultEach == AgentSpec => []OneVault
<1>1. AgentInv => OneVault
  <2>1. SUFFICES ASSUME AgentInv, NEW a \in Agent \ slipped
                 PROVE  /\ \A v, w \in VaultsOf(a) : v = w
                        /\ \A j, k \in PendingOf(a) : j = k
    BY DEF OneVault, VaultsOf, PendingOf
  <2>2. Followed(a)
    BY <2>1 DEF AgentInv, Tracked
  <2> QED BY <2>2 DEF Followed, KnowsVault, KnowsTraining
<1> QED BY <1>1, AgentInvHolds, PTL

\* For any caps, turns and batches: what a run of an agent that lists the opening
\* of positions opened keeps within its policy over all its turns, unless a
\* revised batch or a lost answer made it unsure; and the transcript has an
\* answer for every call when the model is asked, and is owed one for every call
\* of a batch that is executed.
THEOREM CapsOverTurns == AgentSpec => []TurnsInOrder
<1>1. AgentInv => TurnsInOrder
  <2>1. SUFFICES ASSUME AgentInv PROVE CapsKept /\ Paired
    BY DEF TurnsInOrder
  <2>2. Calls(<<>>, {"long"}) = 0 /\ Calls(<<>>, {"short"}) = 0
    BY NoneLeft
  <2>3. CapsKept
    <3>1. SUFFICES ASSUME Working, Certain(run)
                   PROVE  /\ run.opens <= OpenCap
                          /\ run.shorts <= ShortCap
                          /\ run.penalty => run.shorts = 0
                          /\ ("long" \in run.sides \/ run.opens = run.shorts)
                          /\ ("short" \in run.sides \/ run.shorts = 0)
      <4>1. Tool("long") = "open"
        BY DEF Tool
      <4> QED BY <4>1 DEF CapsKept, Certain, isWrite
    <3>2. Running
      BY <3>1 DEF Working, Running, NoRun
    <3>3. Room(run, <<>>) /\ run.opens \in Nat /\ run.shorts \in Nat
      BY <2>1, <3>1, <3>2 DEF AgentInv, Capped, AgentTyped, RunType
    <3> QED BY <2>2, <3>3 DEF Room
  <2>4. In("ask") => run.owed = 0
    BY <2>1, RunTyped DEF AgentInv, Batched, AgentStages
  <2>5. In("execute") => run.batch # <<>> /\ run.owed = Len(run.batch)
    BY <2>1, Executing
  <2> QED BY <2>3, <2>4, <2>5 DEF Paired
<1> QED BY <1>1, AgentInvHolds, PTL
=============================================================================
