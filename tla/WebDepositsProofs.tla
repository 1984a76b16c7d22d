------------------------- MODULE WebDepositsProofs -------------------------
(***************************************************************************)
(* For any chains, weights, amounts and number of deposits: that a split   *)
(* adds up, that a wallet is asked for one thing at a time and for all of  *)
(* them before the dialog says complete, and that what was given up on, or *)
(* has settled, is over.                                                   *)
(***************************************************************************)
EXTENDS WebDeposits, SumLemmas

-----------------------------------------------------------------------------
(* The invariants.                                                         *)

Share == [chain : Chain, amount : Nat]

RunState ==
  [pc : {"next", "resolve", "done"} \cup Kinds, at : Nat \ {0}, split : Seq(Share),
   need : SUBSET Chain, aborted : BOOLEAN, timedOut : BOOLEAN, deaf : BOOLEAN]

Rows == UNION {[S -> RowStates] : S \in SUBSET Chain}
Docked == [status : {"none", "signing", "confirmed", "failed"}, rows : Rows]

DialogTyped ==
  /\ sponsored \in BOOLEAN /\ isExecuting \in BOOLEAN /\ hasErrors \in BOOLEAN
  /\ mounted \in BOOLEAN /\ stale \in BOOLEAN
  /\ status \in Rows /\ completedCount \in 0..Cardinality(Chain)
  /\ phase \in {"preview", "executing", "complete", "error"}
  /\ parent \in {None} \cup 1..Latest /\ record \in [Run -> Docked]
  /\ Latest = 0 => phase = "preview" /\ DOMAIN status = {}

\* A split whose chains are all different, and which adds up.
GoodSplit(s) ==
  /\ s \in Seq(Share) /\ s # <<>>
  /\ \A i, j \in 1..Len(s) : s[i].chain = s[j].chain => i = j
  /\ Total(s) \in Amount
  /\ Len(s) > 1 => \A i \in 1..Len(s) : MinSplit <= s[i].amount

RunsTyped ==
  /\ runs \in Seq(RunState) /\ Latest <= MaxRuns
  /\ \A r \in 1..Latest :
       /\ GoodSplit(runs[r].split)
       /\ runs[r].at <= Len(runs[r].split) + 1
       /\ runs[r].pc \in {"resolve"} \cup Kinds => runs[r].at <= Len(runs[r].split)

MoneyTyped ==
  /\ tx \subseteq Sends
  /\ allowance \in [Chain -> Nat] /\ cached \in [Chain -> Nat]
  /\ \A t \in tx : t.kind = "approve" => t.state # "reverted"

\* A request is that of a chain the run has come to: of one it has passed, or
\* of the one it is at, whose approval comes before its deposit.
AskedFor(t) ==
  \E i \in 1..Len(runs[t.run].split) :
    /\ t.chain = runs[t.run].split[i].chain /\ t.amount = runs[t.run].split[i].amount
    /\ \/ i < runs[t.run].at
       \/ i = runs[t.run].at /\ Waiting(t.run)
            /\ (t.kind = runs[t.run].pc \/ t.kind = "approve")

IsPending(t) ==
  t.run \in 1..Latest /\ Waiting(t.run) /\ t.kind = runs[t.run].pc /\ t.chain = Here(t.run)

Requests ==
  /\ \A t \in tx : t.run \in 1..Latest /\ AskedFor(t)
  /\ \A t, s \in tx : t.run = s.run /\ t.kind = s.kind /\ t.chain = s.chain => t = s
  /\ \A r \in 1..Latest : Waiting(r) => \E t \in tx : t.run = r /\ IsPending(t)

WebTyped == DialogTyped /\ RunsTyped /\ MoneyTyped /\ Requests

\* With the user's own wallet only the latest run is ever under way, a run that
\* waits was not aborted, and the preview comes back only with no run.
OneRun ==
  ~ sponsored =>
    /\ \A r \in 1..Latest : r < Latest => runs[r].pc = "done"
    /\ \A r \in 1..Latest : runs[r].pc # "resolve"
    /\ \A r \in 1..Latest : Waiting(r) => ~ runs[r].aborted /\ ~ runs[r].deaf
    /\ phase = "preview" /\ Latest > 0 =>
         \/ runs[Latest].pc = "done"
         \/ runs[Latest].pc = "next" /\ runs[Latest].aborted
    /\ \A t \in Unanswered : IsPending(t)

\* What an approval that has landed left for the deposit that follows it.
Allowed ==
  ~ sponsored /\ (\A t \in tx : ~ t.given) =>
    \A t \in tx : IsPending(t) =>
      /\ t.kind = "approve" /\ t.state = "landed" => allowance[t.chain] = t.amount
      /\ t.kind = "deposit" /\ t.state \in {"asked", "sent"} /\ t.chain \in runs[t.run].need =>
           t.amount <= allowance[t.chain]

\* The rows and the counts made of them.
Counted ==
  /\ ~ hasErrors => Failed(status) = {} /\ completedCount = Cardinality(Finished(status))
  /\ \A c \in DOMAIN status : status[c] = "success" => WentOut(c)

\* The records of the dock: the one that is mirrored is under way, and there is
\* none of a run that was not confirmed.
Dock ==
  /\ parent # None => record[parent].status = "signing"
  /\ \A r \in Run : r > Latest => record[r].status = "none"

WebInv == WebTyped /\ OneRun /\ Allowed /\ Counted /\ CompleteMeansSent /\ Dock


-----------------------------------------------------------------------------
(* Numbers and recursion.                                                  *)

LEMMA DivAtMost ==
  ASSUME NEW a \in Nat, NEW b \in Nat, NEW c \in Nat, b <= c, c > 0
  PROVE  (a * b) \div c \in Nat /\ (a * b) \div c <= a
<1> DEFINE q == (a * b) \div c
<1>1. a * b \in Nat /\ a * b <= a * c
  OBVIOUS
<1>2. PICK m \in Nat : m = a * b /\ m <= a * c
  BY <1>1
<1>3. m \div c \in Nat /\ (m \div c) * c <= m
  OBVIOUS
<1>4. PICK n \in Nat : n = m \div c /\ n * c <= a * c
  BY <1>2, <1>3
<1>5. n <= a
  <2> SUFFICES ASSUME n >= a + 1 PROVE FALSE
    OBVIOUS
  <2>1. n * c >= (a + 1) * c
    OBVIOUS
  <2>2. (a + 1) * c = a * c + c
    OBVIOUS
  <2> QED
    BY <1>4, <2>1, <2>2
<1> QED
  BY <1>2, <1>4, <1>5


-----------------------------------------------------------------------------
(* How an amount is split.                                                 *)

\* The recursion behind ActiveChains.
IsUpTo(g, w) ==
  g = [i \in 0..Len(Order) |->
         IF i = 0 THEN <<>>
         ELSE IF w[Order[i]] > 0 THEN Append(g[i - 1], Order[i]) ELSE g[i - 1]]

LEMMA UpToExists ==
  ASSUME NEW w
  PROVE  \E g \in [0..Len(Order) -> Seq(Chain)] : IsUpTo(g, w)
<1>1. PICK n \in Nat : n = Len(Order) /\ \A i \in 1..n : Order[i] \in Chain
  BY WebConstants
<1> DEFINE step == [i \in 1..n |-> [s \in Seq(Chain) |->
                      IF w[Order[i]] > 0 THEN Append(s, Order[i]) ELSE s]]
<1>2. step \in [1..n -> [Seq(Chain) -> Seq(Chain)]]
  <2> SUFFICES ASSUME NEW i \in 1..n, NEW s \in Seq(Chain)
               PROVE  (IF w[Order[i]] > 0 THEN Append(s, Order[i]) ELSE s) \in Seq(Chain)
    OBVIOUS
  <2> QED
    BY <1>1
<1>3. <<>> \in Seq(Chain)
  OBVIOUS
<1>4. \A i \in 1..n, s \in Seq(Chain) :
        step[i][s] = IF w[Order[i]] > 0 THEN Append(s, Order[i]) ELSE s
  OBVIOUS
<1> HIDE DEF step
<1>5. PICK g : Stepwise(g, n, Seq(Chain), <<>>, step)
  <2>1. StepsIn(step, n, Seq(Chain))
    BY <1>2 DEF StepsIn
  <2> QED
    BY <1>3, <2>1, StepwiseExists
<1>6. ASSUME NEW i \in 0..n
      PROVE  g[i] = IF i = 0 THEN <<>>
                    ELSE IF w[Order[i]] > 0 THEN Append(g[i - 1], Order[i]) ELSE g[i - 1]
  <2>1. CASE i = 0
    BY <1>5, <2>1 DEF Stepwise
  <2>2. CASE i # 0
    <3>1. i \in 1..n /\ g[i - 1] \in Seq(Chain)
      BY <1>5, <2>2 DEF Stepwise
    <3> QED
      BY <2>2, <3>1, <1>4, <1>5 DEF Stepwise
  <2> QED
    BY <2>1, <2>2
<1>7. g = [i \in 0..n |->
             IF i = 0 THEN <<>>
             ELSE IF w[Order[i]] > 0 THEN Append(g[i - 1], Order[i]) ELSE g[i - 1]]
  BY <1>5, <1>6 DEF Stepwise
<1> QED
  BY <1>1, <1>5, <1>7 DEF IsUpTo, Stepwise

\* The chains with a weight, each once.
LEMMA ActiveOnce ==
  ASSUME NEW w
  PROVE  /\ ActiveChains(w) \in Seq(Chain)
         /\ \A i \in 1..Len(ActiveChains(w)) : w[ActiveChains(w)[i]] > 0
         /\ \A i, j \in 1..Len(ActiveChains(w)) :
              ActiveChains(w)[i] = ActiveChains(w)[j] => i = j
<1> DEFINE g == CHOOSE f : IsUpTo(f, w)
<1>1. PICK n \in Nat : /\ n = Len(Order) /\ \A i \in 1..n : Order[i] \in Chain
                       /\ \A i, j \in 1..n : Order[i] = Order[j] => i = j
  BY WebConstants DEF IsInjective
<1>2. IsUpTo(g, w)
  BY UpToExists
<1>3. ActiveChains(w) = g[n]
  BY <1>1 DEF ActiveChains, IsUpTo
<1> HIDE DEF g
<1>4. /\ g[0] = <<>>
      /\ \A i \in 1..n : g[i] = IF w[Order[i]] > 0 THEN Append(g[i - 1], Order[i]) ELSE g[i - 1]
  <2>1. g = [i \in 0..n |->
               IF i = 0 THEN <<>>
               ELSE IF w[Order[i]] > 0 THEN Append(g[i - 1], Order[i]) ELSE g[i - 1]]
    BY <1>1, <1>2 DEF IsUpTo
  <2>2. \A i \in 0..n : g[i] = IF i = 0 THEN <<>>
                                ELSE IF w[Order[i]] > 0 THEN Append(g[i - 1], Order[i]) ELSE g[i - 1]
    BY <2>1
  <2> QED
    BY <2>2
<1> DEFINE Good(k) == /\ g[k] \in Seq(Chain)
                      /\ \A i \in 1..Len(g[k]) : w[g[k][i]] > 0 /\ \E m \in 1..k : g[k][i] = Order[m]
                      /\ \A i, j \in 1..Len(g[k]) : g[k][i] = g[k][j] => i = j
           Bad == {k \in 0..n : ~ Good(k)}
<1>5. Good(0)
  BY <1>4
<1>6. ASSUME NEW k \in 1..n, Good(k - 1)
      PROVE  Good(k)
  <2>1. CASE ~ (w[Order[k]] > 0)
    <3>1. g[k] = g[k - 1]
      BY <1>4, <2>1
    <3> QED
      BY <3>1, <1>6
  <2>2. CASE w[Order[k]] > 0
    <3> DEFINE s == g[k - 1]
               c == Order[k]
    <3>1. g[k] = Append(s, c)
      BY <1>4, <2>2
    <3>2. /\ s \in Seq(Chain) /\ c \in Chain
          /\ \A i \in 1..Len(s) : w[s[i]] > 0 /\ \E m \in 1..(k - 1) : s[i] = Order[m]
          /\ \A i, j \in 1..Len(s) : s[i] = s[j] => i = j
      BY <1>1, <1>6
    <3>3. \A i \in 1..Len(s) : s[i] # c
      <4> SUFFICES ASSUME NEW i \in 1..Len(s), s[i] = c PROVE FALSE
        OBVIOUS
      <4>1. PICK m \in 1..(k - 1) : s[i] = Order[m]
        BY <3>2
      <4>2. m \in 1..n /\ k \in 1..n /\ m # k /\ Order[m] = Order[k]
        BY <4>1
      <4> QED
        BY <4>2, <1>1
    <3> HIDE DEF s, c
    <3>4. PICK q \in Nat : q = Len(s)
      BY <3>2
    <3>5. /\ g[k] \in Seq(Chain) /\ Len(g[k]) = q + 1 /\ g[k][q + 1] = c
          /\ \A i \in 1..q : g[k][i] = s[i]
      BY <3>1, <3>2, <3>4
    <3>6. \A i \in 1..(q + 1) : i \in 1..q \/ i = q + 1
      BY <3>4
    <3>7. \A i \in 1..Len(g[k]) : w[g[k][i]] > 0 /\ \E m \in 1..k : g[k][i] = Order[m]
      <4> SUFFICES ASSUME NEW i \in 1..(q + 1)
                   PROVE  w[g[k][i]] > 0 /\ \E m \in 1..k : g[k][i] = Order[m]
        BY <3>5
      <4>1. CASE i \in 1..q
        BY <3>2, <3>4, <3>5, <4>1
      <4>2. CASE i = q + 1
        BY <2>2, <3>5, <4>2 DEF c
      <4> QED
        BY <3>6, <4>1, <4>2
    <3>8. \A i, j \in 1..Len(g[k]) : g[k][i] = g[k][j] => i = j
      BY <3>2, <3>3, <3>4, <3>5, <3>6
    <3> QED
      BY <3>5, <3>7, <3>8
  <2> QED
    BY <2>1, <2>2
<1>7. Bad = {}
  <2> SUFFICES ASSUME Bad # {} PROVE FALSE
    OBVIOUS
  <2>1. PICK k \in Bad : \A m \in Bad : k <= m
    <3>1. Bad \subseteq Nat
      OBVIOUS
    <3> HIDE DEF Bad
    <3> QED
      BY <3>1, LeastOf
  <2>2. k \in 0..n /\ ~ Good(k)
    BY <2>1
  <2> HIDE DEF Good
  <2>3. k # 0
    BY <2>2, <1>5
  <2>4. k \in 1..n /\ k - 1 \in 0..n /\ ~ (k <= k - 1)
    BY <2>2, <2>3
  <2>5. Good(k - 1)
    BY <2>1, <2>4
  <2> QED
    BY <2>2, <2>4, <2>5, <1>6
<1>8. Good(n)
  BY <1>1, <1>7
<1> QED
  BY <1>3, <1>8


\* The heaviest of the chains, and the first of those.
LEMMA TopIsChain ==
  ASSUME NEW w, NEW b \in Nat, ActiveChains(w) # <<>>,
         \A i \in 1..Len(ActiveChains(w)) : /\ w[ActiveChains(w)[i]] \in Nat
                                            /\ w[ActiveChains(w)[i]] <= b
  PROVE  TopChain(w) \in Chain
<1> DEFINE e == ActiveChains(w)
           Top(i) == /\ \A j \in DOMAIN e : w[e[j]] <= w[e[i]]
                     /\ \A j \in 1..(i - 1) : w[e[j]] < w[e[i]]
<1>1. e \in Seq(Chain)
  BY ActiveOnce
<1>2. PICK n \in Nat : n = Len(e) /\ n > 0
  BY <1>1
<1>3. \A i \in 1..n : e[i] \in Chain /\ w[e[i]] \in Nat /\ w[e[i]] <= b
  BY <1>1, <1>2
<1>4. DOMAIN e = 1..n
  BY <1>1, <1>2
<1> HIDE DEF e
<1> DEFINE room == {m \in Nat : \E i \in 1..n : m = b - w[e[i]]}
<1>5. PICK m \in room : \A k \in room : m <= k
  <2>1. b - w[e[1]] \in room /\ room \subseteq Nat
    BY <1>2, <1>3
  <2> HIDE DEF room
  <2> QED
    BY <2>1, LeastOf
<1>6. PICK x \in 1..n : m = b - w[e[x]]
  BY <1>5
<1>7. \A j \in 1..n : w[e[j]] <= w[e[x]]
  <2> SUFFICES ASSUME NEW j \in 1..n PROVE w[e[j]] <= w[e[x]]
    OBVIOUS
  <2>1. b - w[e[j]] \in room
    BY <1>3
  <2>2. b - w[e[x]] <= b - w[e[j]]
    BY <1>5, <1>6, <2>1
  <2>3. PICK p \in Nat, q \in Nat : p = w[e[x]] /\ q = w[e[j]]
    BY <1>3
  <2> QED
    BY <2>2, <2>3
<1> DEFINE heavy == {i \in 1..n : w[e[i]] = w[e[x]]}
<1>8. PICK i \in heavy : \A j \in heavy : i <= j
  <2>1. x \in heavy /\ heavy \subseteq Nat
    OBVIOUS
  <2> HIDE DEF heavy
  <2> QED
    BY <2>1, LeastOf
<1>9. i \in 1..n /\ Top(i)
  <2>1. i \in 1..n /\ w[e[i]] = w[e[x]]
    BY <1>8
  <2>2. ASSUME NEW j \in 1..(i - 1)
        PROVE  w[e[j]] < w[e[i]]
    <3>1. j \in 1..n /\ j < i /\ j \notin heavy
      BY <1>8, <2>1
    <3>2. w[e[j]] # w[e[x]] /\ w[e[j]] <= w[e[x]]
      BY <1>7, <3>1
    <3> QED
      BY <1>3, <2>1, <3>1, <3>2
  <2> QED
    BY <1>4, <1>7, <2>1, <2>2
<1>10. TopChain(w) = e[CHOOSE j \in DOMAIN e : Top(j)]
  BY DEF TopChain, e
<1>11. (CHOOSE j \in DOMAIN e : Top(j)) \in 1..n
  <2> HIDE DEF Top
  <2> QED
    BY <1>4, <1>9
<1> QED
  BY <1>3, <1>10, <1>11

\* One chain gets everything.
LEMMA SingleSplit ==
  ASSUME NEW c \in Chain, NEW a \in Amount
  PROVE  GoodSplit(<<[chain |-> c, amount |-> a]>>)
<1> DEFINE s == <<[chain |-> c, amount |-> a]>>
           f == [i \in DOMAIN s |-> s[i].amount]
<1>1. /\ s \in Seq(Share) /\ s # <<>> /\ Len(s) = 1 /\ DOMAIN s = {1} /\ s[1].amount = a
      /\ a \in Nat
  BY WebConstants DEF Share
<1>2. f[1] = a
  BY <1>1
<1> HIDE DEF s
<1>3. SumFunctionOnSet(f, {1}) = a
  <2>1. IsFiniteSet({1}) /\ {1} \ {1} = {}
    BY FS_Singleton
  <2>2. SumFunctionOnSet(f, {1}) = f[1] + SumFunctionOnSet(f, {1} \ {1})
    <3>1. \A x \in {1} : f[x] \in Int
      BY <1>1, <1>2
    <3> HIDE DEF f
    <3> QED
      BY <2>1, <3>1, SumRemove
  <2> HIDE DEF f
  <2>3. SumFunctionOnSet(f, {1} \ {1}) = 0
    BY <2>1, SumEmpty
  <2> QED
    BY <1>1, <1>2, <2>2, <2>3
<1>4. Total(s) = a
  BY <1>1, <1>3 DEF Total
<1>5. GoodSplit(s)
  BY <1>1, <1>4 DEF GoodSplit
<1> QED
  BY <1>5 DEF s

LEMMA DropLast ==
  ASSUME NEW n \in Nat \ {0}
  PROVE  IsFiniteSet(1..n) /\ (1..n) \ {n} = 1..(n - 1)
BY FS_Interval

\* What is left after each chain adds up with what the chains before it got.
LEMMA SharesAddUp ==
  ASSUME NEW n \in Nat, NEW low \in Nat, NEW g \in [0..n -> Nat], NEW f,
         \A i \in 1..n : f[i] = low + g[i - 1] - g[i]
  PROVE  SumFunctionOnSet(f, 1..n) = low * n + g[0] - g[n]
<1> DEFINE Good(k) == SumFunctionOnSet(f, 1..k) = low * k + g[0] - g[k]
           Bad == {k \in 0..n : ~ Good(k)}
<1>1. Good(0)
  <2>1. 1..0 = {} /\ low * 0 = 0 /\ g[0] \in Nat
    OBVIOUS
  <2> QED
    BY <2>1, SumEmpty
<1>2. ASSUME NEW k \in 1..n, Good(k - 1)
      PROVE  Good(k)
  <2>1. IsFiniteSet(1..k) /\ (1..k) \ {k} = 1..(k - 1)
    <3>1. k \in Nat \ {0}
      OBVIOUS
    <3> QED
      BY <3>1, DropLast
  <2>2. \A i \in 1..k : i \in 1..n /\ g[i] \in Nat /\ g[i - 1] \in Nat
    OBVIOUS
  <2>3. \A i \in 1..k : f[i] \in Int
    BY <2>2
  <2>4. SumFunctionOnSet(f, 1..k) = f[k] + SumFunctionOnSet(f, 1..(k - 1))
    <3>1. k \in 1..k
      OBVIOUS
    <3>2. SumFunctionOnSet(f, 1..k) = f[k] + SumFunctionOnSet(f, (1..k) \ {k})
      BY <2>1, <2>3, <3>1, SumRemove
    <3> QED
      BY <2>1, <3>2
  <2>5. PICK x \in Nat, y \in Nat, z \in Nat : x = g[k - 1] /\ y = g[k] /\ z = g[0]
    <3>1. k - 1 \in 0..n /\ k \in 0..n /\ 0 \in 0..n
      OBVIOUS
    <3> QED
      BY <3>1
  <2>6. f[k] = low + x - y /\ SumFunctionOnSet(f, 1..(k - 1)) = low * (k - 1) + z - x
    BY <1>2, <2>5
  <2>7. low * k = low * (k - 1) + low /\ low * (k - 1) \in Nat
    OBVIOUS
  <2> QED
    BY <2>4, <2>5, <2>6, <2>7
<1>3. Bad = {}
  <2> SUFFICES ASSUME Bad # {} PROVE FALSE
    OBVIOUS
  <2>1. PICK k \in Bad : \A m \in Bad : k <= m
    <3>1. Bad \subseteq Nat
      OBVIOUS
    <3> HIDE DEF Bad
    <3> QED
      BY <3>1, LeastOf
  <2>2. k \in 0..n /\ ~ Good(k)
    BY <2>1
  <2> HIDE DEF Good
  <2>3. k \in 1..n /\ k - 1 \in 0..n /\ ~ (k <= k - 1)
    BY <2>2, <1>1
  <2>4. Good(k - 1)
    BY <2>1, <2>3
  <2> QED
    BY <2>2, <2>3, <2>4, <1>2
<1>4. Good(n)
  <2> HIDE DEF Good
  <2> QED
    BY <1>3
<1> QED
  BY <1>4


\* The recursion behind DepositSplits, for the chains e and the sum of weights.
IsLeft(g, e, w, sum, base) ==
  g = [i \in 0..Len(e) |->
         IF i = 0 THEN base
         ELSE g[i - 1] - (IF i = Len(e) THEN g[i - 1] ELSE (g[i - 1] * w[e[i]]) \div sum)]

\* The chains have weights, each a part of the sum.
Weighted(n, e, w, sum) ==
  /\ n = Len(e) /\ n > 0
  /\ \A i \in 1..n : w[e[i]] \in Nat /\ w[e[i]] <= sum /\ w[e[i]] > 0

\* What is left never grows, and the last chain leaves nothing.
LEMMA LeftFalls ==
  ASSUME NEW e, NEW n \in Nat, NEW w, NEW sum \in Nat, NEW base \in Nat,
         Weighted(n, e, w, sum)
  PROVE  /\ \E g : IsLeft(g, e, w, sum, base)
         /\ \A g : IsLeft(g, e, w, sum, base) =>
              /\ g \in [0..n -> Nat] /\ g[0] = base /\ g[n] = 0
              /\ \A i \in 1..n : g[i] <= g[i - 1]
<1> DEFINE part(i, x) == IF i = n THEN x ELSE (x * w[e[i]]) \div sum
           step == [i \in 1..n |-> [x \in Nat |-> x - part(i, x)]]
<1>0. /\ n = Len(e) /\ n > 0
      /\ \A i \in 1..n : w[e[i]] \in Nat /\ w[e[i]] <= sum /\ w[e[i]] > 0
  BY DEF Weighted
<1>1. ASSUME NEW i \in 1..n, NEW x \in Nat
      PROVE  part(i, x) \in Nat /\ part(i, x) <= x
  <2>1. PICK v \in Nat : v = w[e[i]] /\ v <= sum /\ v > 0
    BY <1>0
  <2>2. (x * v) \div sum \in Nat /\ (x * v) \div sum <= x
    <3>1. sum > 0
      BY <2>1
    <3> HIDE DEF part, step
    <3> QED
      BY <2>1, <3>1, DivAtMost
  <2> QED
    BY <2>1, <2>2
<1>2. \A i \in 1..n, x \in Nat : step[i][x] = x - part(i, x)
  OBVIOUS
<1> HIDE DEF part
<1>3. ASSUME NEW i \in 1..n, NEW x \in Nat
      PROVE  x - part(i, x) \in Nat /\ x - part(i, x) <= x
  BY <1>1
<1>4. StepsIn(step, n, Nat)
  BY <1>3 DEF StepsIn
<1> HIDE DEF step
<1>5. ASSUME NEW g
      PROVE  IsLeft(g, e, w, sum, base) <=>
               /\ g = [i \in 0..n |-> g[i]]
               /\ g[0] = base /\ \A i \in 1..n : g[i] = g[i - 1] - part(i, g[i - 1])
  <2>1. IsLeft(g, e, w, sum, base) <=>
          g = [i \in 0..n |-> IF i = 0 THEN base ELSE g[i - 1] - part(i, g[i - 1])]
    BY <1>0 DEF IsLeft, part
  <2>2. 0 \in 0..n /\ \A i \in 1..n : i \in 0..n /\ i # 0
    OBVIOUS
  <2>3. \A i \in 0..n : i = 0 \/ i \in 1..n
    OBVIOUS
  <2> QED
    BY <2>1, <2>2, <2>3
<1>6. \E g : IsLeft(g, e, w, sum, base)
  <2>1. PICK g : Stepwise(g, n, Nat, base, step)
    BY <1>4, StepwiseExists
  <2>2. g \in [0..n -> Nat] /\ g[0] = base /\ \A i \in 1..n : g[i] = step[i][g[i - 1]]
    BY <2>1 DEF Stepwise
  <2>3. \A i \in 1..n : g[i] = g[i - 1] - part(i, g[i - 1])
    <3>1. \A i \in 1..n : g[i - 1] \in Nat
      <4>1. \A i \in 1..n : i - 1 \in 0..n
        OBVIOUS
      <4> QED
        BY <2>2, <4>1
    <3> QED
      BY <2>2, <3>1, <1>2
  <2> QED
    BY <2>2, <2>3, <1>5
<1>7. ASSUME NEW g, IsLeft(g, e, w, sum, base)
      PROVE  /\ g \in [0..n -> Nat] /\ g[0] = base /\ g[n] = 0
             /\ \A i \in 1..n : g[i] <= g[i - 1]
  <2>1. /\ g = [i \in 0..n |-> g[i]]
        /\ g[0] = base /\ \A i \in 1..n : g[i] = g[i - 1] - part(i, g[i - 1])
    BY <1>5, <1>7
  <2> DEFINE Bad == {k \in 0..n : g[k] \notin Nat}
  <2>2. Bad = {}
    <3> SUFFICES ASSUME Bad # {} PROVE FALSE
      OBVIOUS
    <3>1. PICK k \in Bad : \A m \in Bad : k <= m
      <4>1. Bad \subseteq Nat
        OBVIOUS
      <4> HIDE DEF Bad
      <4> QED
        BY <4>1, LeastOf
    <3>2. k \in 0..n /\ g[k] \notin Nat
      BY <3>1
    <3>3. k \in 1..n /\ k - 1 \in 0..n /\ ~ (k <= k - 1)
      BY <2>1, <3>2
    <3>4. g[k - 1] \in Nat
      BY <3>1, <3>3
    <3> QED
      BY <2>1, <3>2, <3>3, <3>4, <1>3
  <2>3. \A k \in 0..n : g[k] \in Nat
    BY <2>2
  <2>4. g \in [0..n -> Nat]
    BY <2>1, <2>3
  <2>5. \A i \in 1..n : g[i] <= g[i - 1]
    <3> SUFFICES ASSUME NEW i \in 1..n PROVE g[i] <= g[i - 1]
      OBVIOUS
    <3>1. i - 1 \in 0..n
      OBVIOUS
    <3> QED
      BY <2>1, <2>3, <3>1, <1>3
  <2>6. g[n] = 0
    <3>1. n \in 1..n /\ n - 1 \in 0..n
      BY <1>0
    <3>2. part(n, g[n - 1]) = g[n - 1]
      BY DEF part
    <3>3. PICK x \in Nat : x = g[n - 1]
      BY <2>3, <3>1
    <3>4. g[n] = x - x
      BY <2>1, <3>1, <3>2, <3>3
    <3> QED
      BY <3>4
  <2> QED
    BY <2>1, <2>4, <2>5, <2>6
<1> QED
  BY <1>6, <1>7

\* The splits the app computes are good ones.
LEMMA DepositSplitsGood ==
  ASSUME NEW total \in Amount, NEW w \in [Chain -> Weight], DepositSplits(total, w) # <<>>
  PROVE  GoodSplit(DepositSplits(total, w))
<1> DEFINE e == ActiveChains(w)
           f == [i \in DOMAIN e |-> w[e[i]]]
           sum == SumFunctionOnSet(f, DOMAIN e)
           base == total - MinSplit * Len(e)
           g == CHOOSE h : IsLeft(h, e, w, sum, base)
           shares == [i \in DOMAIN e |->
                        [chain |-> e[i], amount |-> MinSplit + g[i - 1] - g[i]]]
<1>1. DepositSplits(total, w) =
        IF e = <<>> THEN <<>>
        ELSE IF total < MinSplit * Len(e) THEN <<[chain |-> TopChain(w), amount |-> total]>>
        ELSE shares
  BY DEF DepositSplits, IsLeft
<1>2. e # <<>>
  BY <1>1
<1>3. /\ e \in Seq(Chain) /\ \A i \in 1..Len(e) : w[e[i]] > 0
      /\ \A i, j \in 1..Len(e) : e[i] = e[j] => i = j
  BY ActiveOnce
<1>4. PICK n \in Nat : n = Len(e) /\ n > 0
  BY <1>2, <1>3
<1>5. DOMAIN e = 1..n /\ \A i \in 1..n : e[i] \in Chain /\ w[e[i]] \in Nat /\ w[e[i]] > 0
  <2>1. DOMAIN e = 1..n /\ \A i \in 1..n : e[i] \in Chain
    BY <1>3, <1>4
  <2>2. \A c \in Chain : w[c] \in Nat
    BY WebConstants
  <2> HIDE DEF e
  <2> QED
    BY <1>3, <1>4, <2>1, <2>2
<1>6. sum \in Nat /\ \A i \in 1..n : w[e[i]] <= sum
  <2>1. IsFiniteSet(1..n)
    BY FS_Interval
  <2>2. \A i \in 1..n : f[i] \in Nat /\ f[i] = w[e[i]]
    BY <1>5
  <2>3. /\ SumFunctionOnSet(f, 1..n) \in Nat
        /\ \A i \in 1..n : f[i] <= SumFunctionOnSet(f, 1..n)
    <3> HIDE DEF f
    <3> QED
      BY <2>1, <2>2, SumNat
  <2> QED
    BY <1>5, <2>2, <2>3
<1>7. DepositSplits(total, w) =
        IF total < MinSplit * n THEN <<[chain |-> TopChain(w), amount |-> total]>> ELSE shares
  BY <1>1, <1>2, <1>4
<1> HIDE DEF sum, f
<1>8. CASE total < MinSplit * n
  <2>1. TopChain(w) \in Chain
    <3>1. ActiveChains(w) # <<>> /\ \A i \in 1..Len(ActiveChains(w)) :
             w[ActiveChains(w)[i]] \in Nat /\ w[ActiveChains(w)[i]] <= sum
      BY <1>2, <1>4, <1>5, <1>6
    <3> HIDE DEF e, base, g, shares
    <3> QED
      BY <1>6, <3>1, TopIsChain
  <2> QED
    BY <1>7, <1>8, <2>1, SingleSplit
<1>9. CASE ~ (total < MinSplit * n)
  <2>1. DepositSplits(total, w) = shares
    BY <1>7, <1>9
  <2>2. total \in Nat /\ MinSplit \in Nat /\ MinSplit * n \in Nat
    BY WebConstants
  <2>3. PICK b \in Nat : b = base /\ b + MinSplit * n = total
    <3>1. PICK x \in Nat, y \in Nat : x = total /\ y = MinSplit * n
      BY <2>2
    <3>2. y <= x /\ base = x - y
      BY <1>4, <1>9, <3>1
    <3> QED
      BY <3>1, <3>2
  <2>4. /\ \E h : IsLeft(h, e, w, sum, b)
        /\ \A h : IsLeft(h, e, w, sum, b) =>
             /\ h \in [0..n -> Nat] /\ h[0] = b /\ h[n] = 0
             /\ \A i \in 1..n : h[i] <= h[i - 1]
    <3>1. Weighted(n, e, w, sum)
      BY <1>4, <1>5, <1>6 DEF Weighted
    <3> HIDE DEF e, base, g, shares
    <3> QED
      BY <1>6, <3>1, LeftFalls
  <2>5. IsLeft(g, e, w, sum, b)
    BY <2>3, <2>4
  <2> HIDE DEF g
  <2>6. /\ g \in [0..n -> Nat] /\ g[0] = b /\ g[n] = 0
        /\ \A i \in 1..n : g[i] <= g[i - 1]
    <3> HIDE DEF e, base, shares
    <3> QED
      BY <2>4, <2>5
  <2> HIDE DEF e, base
  <2>7. /\ shares = [i \in 1..n |-> [chain |-> e[i], amount |-> MinSplit + g[i - 1] - g[i]]]
        /\ \A i \in 1..n : shares[i] = [chain |-> e[i], amount |-> MinSplit + g[i - 1] - g[i]]
    BY <1>5
  <2>8. \A i \in 1..n : /\ MinSplit + g[i - 1] - g[i] \in Nat
                        /\ MinSplit <= MinSplit + g[i - 1] - g[i]
    <3> SUFFICES ASSUME NEW i \in 1..n
                 PROVE  /\ MinSplit + g[i - 1] - g[i] \in Nat
                        /\ MinSplit <= MinSplit + g[i - 1] - g[i]
      OBVIOUS
    <3>1. i \in 0..n /\ i - 1 \in 0..n
      OBVIOUS
    <3>2. PICK x \in Nat, y \in Nat : x = g[i - 1] /\ y = g[i] /\ y <= x
      BY <2>6, <3>1
    <3>3. \A low \in Nat : low + x - y \in Nat /\ low <= low + x - y
      BY <3>2
    <3> QED
      BY <2>2, <3>2, <3>3
  <2>9. /\ shares \in Seq(Share) /\ shares # <<>> /\ Len(shares) = n /\ DOMAIN shares = 1..n
    <3>1. \A i \in 1..n : shares[i] \in Share
      BY <1>5, <2>7, <2>8 DEF Share
    <3>2. shares \in [1..n -> Share]
      BY <2>7, <3>1
    <3> HIDE DEF shares
    <3>3. shares \in Seq(Share) /\ Len(shares) = n /\ DOMAIN shares = 1..n
      BY <3>2
    <3> QED
      BY <1>4, <3>3
  <2>10. Total(shares) = total
    <3> DEFINE am == [i \in DOMAIN shares |-> shares[i].amount]
    <3>1. \A i \in 1..n : am[i] = MinSplit + g[i - 1] - g[i]
      BY <2>7, <2>9
    <3>2. SumFunctionOnSet(am, 1..n) = MinSplit * n + g[0] - g[n]
      <4>1. g \in [0..n -> Nat]
        BY <2>6
      <4> HIDE DEF am, shares
      <4> QED
        BY <2>2, <3>1, <4>1, SharesAddUp
    <3>3. Total(shares) = SumFunctionOnSet(am, 1..n)
      BY <2>9 DEF Total
    <3> HIDE DEF am, shares
    <3>4. PICK y \in Nat : y = MinSplit * n
      BY <2>2
    <3>5. Total(shares) = y + b - 0 /\ total = b + y
      BY <2>3, <2>6, <3>2, <3>3, <3>4
    <3> QED
      BY <2>2, <3>4, <3>5
  <2>11. \A i, j \in 1..n : shares[i].chain = shares[j].chain => i = j
    <3>1. \A i \in 1..n : shares[i].chain = e[i]
      BY <2>7
    <3>2. \A i, j \in 1..n : e[i] = e[j] => i = j
      BY <1>3, <1>4 DEF e
    <3> QED
      BY <3>1, <3>2
  <2>12. \A i \in 1..n : MinSplit <= shares[i].amount
    BY <2>7, <2>8
  <2> HIDE DEF shares
  <2>13. GoodSplit(shares)
    BY <2>9, <2>10, <2>11, <2>12 DEF GoodSplit
  <2> QED
    BY <2>1, <2>13
<1> QED
  BY <1>8, <1>9

LEMMA SplitsGood ==
  ASSUME NEW s \in Splits, s # <<>>
  PROVE  GoodSplit(s)
BY DepositSplitsGood, SingleSplit DEF Splits

-----------------------------------------------------------------------------
(* What the steps of a run do.                                             *)

LEMMA RunIs ==
  ASSUME RunsTyped, NEW r \in 1..Latest
  PROVE  /\ Latest \in Nat /\ DOMAIN runs = 1..Latest /\ runs[r] \in RunState
         /\ Len(runs[r].split) \in Nat \ {0} /\ GoodSplit(runs[r].split)
         /\ \A i \in 1..Len(runs[r].split) :
              runs[r].split[i].chain \in Chain /\ runs[r].split[i].amount \in Nat
<1>1. Latest \in Nat /\ DOMAIN runs = 1..Latest /\ runs[r] \in RunState
  BY DEF RunsTyped, Latest
<1>2. GoodSplit(runs[r].split)
  BY DEF RunsTyped
<1>3. runs[r].split \in Seq(Share) /\ runs[r].split # <<>>
  BY <1>2 DEF GoodSplit
<1>4. Len(runs[r].split) \in Nat \ {0}
  BY <1>3
<1>5. \A i \in 1..Len(runs[r].split) : runs[r].split[i] \in Share
  BY <1>3
<1> QED
  BY <1>1, <1>2, <1>4, <1>5 DEF Share

\* A step of run r touches no other, and not what r was confirmed with.
OnlyRun(r) ==
  /\ runs' \in Seq(RunState) /\ Len(runs') = Len(runs)
  /\ \A q \in 1..Latest : q # r => runs'[q] = runs[q]
  /\ runs'[r].split = runs[r].split /\ runs'[r].need = runs[r].need
  /\ runs[r].aborted => runs'[r].aborted

LEMMA OneChanged ==
  ASSUME NEW r \in 1..Latest, RunsTyped, NEW new \in RunState, runs' = [runs EXCEPT ![r] = new],
         new.split = runs[r].split, new.need = runs[r].need, runs[r].aborted => new.aborted
  PROVE  OnlyRun(r) /\ runs'[r] = new
<1>1. runs \in Seq(RunState) /\ r \in 1..Len(runs) /\ DOMAIN runs = 1..Len(runs)
  BY DEF RunsTyped, Latest
<1>2. /\ runs' \in Seq(RunState) /\ Len(runs') = Len(runs) /\ runs'[r] = new
      /\ \A q \in 1..Len(runs) : q # r => runs'[q] = runs[q]
  BY <1>1
<1> QED
  BY <1>2 DEF OnlyRun, Latest

LEMMA GotoDoes ==
  ASSUME NEW r \in 1..Latest, RunsTyped, NEW p \in {"next", "resolve", "done"} \cup Kinds, Goto(r, p)
  PROVE  /\ OnlyRun(r) /\ runs'[r].pc = p /\ runs'[r].at = runs[r].at
         /\ runs'[r].aborted = runs[r].aborted
<1> DEFINE new == [runs[r] EXCEPT !.pc = p]
<1>1. runs[r] \in RunState
  BY RunIs
<1>2. /\ new \in RunState /\ new.split = runs[r].split /\ new.need = runs[r].need
      /\ new.aborted = runs[r].aborted /\ new.pc = p /\ new.at = runs[r].at
  BY <1>1 DEF RunState
<1>3. runs' = [runs EXCEPT ![r] = new]
  BY DEF Goto
<1> HIDE DEF new
<1>4. OnlyRun(r) /\ runs'[r] = new
  BY <1>2, <1>3, OneChanged
<1> QED
  BY <1>2, <1>4

LEMMA NextRowDoes ==
  ASSUME NEW r \in 1..Latest, RunsTyped, NextRow(r)
  PROVE  /\ OnlyRun(r) /\ runs'[r].pc = "next" /\ runs'[r].at = runs[r].at + 1
         /\ runs'[r].aborted = runs[r].aborted
<1> DEFINE new == [runs[r] EXCEPT !.pc = "next", !.at = @ + 1]
<1>1. runs[r] \in RunState
  BY RunIs
<1>2. /\ new \in RunState /\ new.split = runs[r].split /\ new.need = runs[r].need
      /\ new.aborted = runs[r].aborted /\ new.pc = "next" /\ new.at = runs[r].at + 1
  <2>1. runs[r].at \in Nat \ {0} /\ runs[r].at + 1 \in Nat \ {0}
    BY <1>1 DEF RunState
  <2>2. new \in RunState
    BY <1>1, <2>1 DEF RunState
  <2> QED
    BY <1>1, <2>2 DEF RunState
<1>3. runs' = [runs EXCEPT ![r] = new]
  BY DEF NextRow
<1> HIDE DEF new
<1>4. OnlyRun(r) /\ runs'[r] = new
  BY <1>2, <1>3, OneChanged
<1> QED
  BY <1>2, <1>4

LEMMA AskDoes ==
  ASSUME NEW r \in 1..Latest, RunsTyped, NEW k \in Kinds, Ask(r, k)
  PROVE  /\ OnlyRun(r) /\ runs'[r].pc = k /\ runs'[r].at = runs[r].at
         /\ runs'[r].aborted = runs[r].aborted /\ runs'[r].deaf = runs[r].aborted
<1> DEFINE new == [runs[r] EXCEPT !.pc = k, !.deaf = runs[r].aborted]
<1>1. runs[r] \in RunState
  BY RunIs
<1>2. /\ new \in RunState /\ new.split = runs[r].split /\ new.need = runs[r].need
      /\ new.aborted = runs[r].aborted /\ new.pc = k /\ new.at = runs[r].at
      /\ new.deaf = runs[r].aborted
  BY <1>1 DEF RunState
<1>3. runs' = [runs EXCEPT ![r] = new]
  BY DEF Ask
<1> HIDE DEF new
<1>4. OnlyRun(r) /\ runs'[r] = new
  BY <1>2, <1>3, OneChanged
<1> QED
  BY <1>2, <1>4

Heard(r) == Waiting(r) /\ ~ runs[r].deaf

LEMMA AbortDoes ==
  ASSUME NEW r \in 1..Latest, RunsTyped, NEW late \in BOOLEAN, Abort(r, late)
  PROVE  /\ OnlyRun(r) /\ runs'[r].aborted /\ runs'[r].deaf = runs[r].deaf
         /\ Heard(r) => /\ runs'[r].pc = "next" /\ runs'[r].at = runs[r].at + 1
                        /\ tx' = GivenUp(r)
         /\ ~ Heard(r) => runs'[r].pc = runs[r].pc /\ runs'[r].at = runs[r].at /\ tx' = tx
<1> DEFINE new == [runs[r] EXCEPT !.aborted = TRUE, !.timedOut = @ \/ late,
                             !.pc = IF Heard(r) THEN "next" ELSE @,
                             !.at = IF Heard(r) THEN @ + 1 ELSE @]
<1>1. runs[r] \in RunState
  BY RunIs
<1>2. /\ new \in RunState /\ new.split = runs[r].split /\ new.need = runs[r].need
      /\ new.aborted /\ new.deaf = runs[r].deaf
      /\ Heard(r) => new.pc = "next" /\ new.at = runs[r].at + 1
      /\ ~ Heard(r) => new.pc = runs[r].pc /\ new.at = runs[r].at
  <2>1. CASE Heard(r)
    <3>1. runs[r].at \in Nat \ {0} /\ runs[r].at + 1 \in Nat \ {0}
      BY <1>1 DEF RunState
    <3>2. new = [runs[r] EXCEPT !.aborted = TRUE, !.timedOut = @ \/ late, !.pc = "next",
                                !.at = @ + 1]
      BY <2>1
    <3>3. (runs[r].timedOut \/ late) \in BOOLEAN
      BY <1>1 DEF RunState
    <3>4. new \in RunState
      BY <1>1, <3>1, <3>2, <3>3 DEF RunState
    <3> QED
      BY <1>1, <2>1, <3>2, <3>4 DEF RunState
  <2>2. CASE ~ Heard(r)
    BY <1>1, <2>2 DEF RunState
  <2> QED
    BY <2>1, <2>2
<1>3. runs' = [runs EXCEPT ![r] = new] /\ tx' = IF Heard(r) THEN GivenUp(r) ELSE tx
  BY DEF Abort, Heard
<1> HIDE DEF new
<1>4. OnlyRun(r) /\ runs'[r] = new
  BY <1>2, <1>3, OneChanged
<1> QED
  BY <1>2, <1>3, <1>4

-----------------------------------------------------------------------------
(* Requests.                                                               *)

\* The same request, wherever it has got to.
Alike(s, t) == s.run = t.run /\ s.kind = t.kind /\ s.chain = t.chain /\ s.amount = t.amount

Open(t) == t.state \in {"asked", "sent"} /\ ~ t.given
Gone(t) == t.state \in {"sent", "landed", "reverted"}

\* Some requests have got further, and none is forgotten.
Renewed ==
  /\ tx' \subseteq Sends
  /\ \A s \in tx' : s.kind = "approve" => s.state # "reverted"
  /\ \A s \in tx' : \E t \in tx : Alike(s, t) /\ (Open(s) => Open(t))
  /\ \A t \in tx : \E s \in tx' : Alike(s, t) /\ (Gone(t) => Gone(s)) /\ (t.given => s.given)
  /\ \A s, t \in tx' : s.run = t.run /\ s.kind = t.kind /\ s.chain = t.chain => s = t

LEMMA PendingIs ==
  ASSUME RunsTyped, MoneyTyped, Requests, NEW r \in 1..Latest, Waiting(r)
  PROVE  /\ Pending(r) \in tx /\ IsPending(Pending(r)) /\ Pending(r).run = r
         /\ Pending(r).kind = runs[r].pc /\ Pending(r).chain = Here(r)
         /\ Pending(r).amount = Row(r).amount
         /\ \A t \in tx : t.run = r /\ IsPending(t) => t = Pending(r)
<1> DEFINE p == Pending(r)
<1>1. \E t \in tx : t.run = r /\ t.kind = runs[r].pc /\ t.chain = Here(r)
  BY DEF Requests, IsPending
<1>2. p \in tx /\ p.run = r /\ p.kind = runs[r].pc /\ p.chain = Here(r)
  BY <1>1 DEF Pending
<1> HIDE DEF p
<1>3. IsPending(p)
  BY <1>2 DEF IsPending
<1>4. p.amount = Row(r).amount
  <2>1. PICK i \in 1..Len(runs[r].split) :
          /\ p.chain = runs[r].split[i].chain /\ p.amount = runs[r].split[i].amount
          /\ i < runs[r].at \/ i = runs[r].at
    BY <1>2 DEF Requests, AskedFor
  <2>2. /\ \A j, k \in 1..Len(runs[r].split) :
             runs[r].split[j].chain = runs[r].split[k].chain => j = k
        /\ runs[r].at \in Nat \ {0} /\ runs[r].at <= Len(runs[r].split)
        /\ Len(runs[r].split) \in Nat
    BY RunIs DEF RunsTyped, GoodSplit, RunState, Waiting, Kinds
  <2>3. runs[r].at \in 1..Len(runs[r].split)
    BY <2>2
  <2>4. i = runs[r].at
    BY <1>2, <2>1, <2>2, <2>3 DEF Here, Row
  <2> QED
    BY <2>1, <2>4 DEF Row
<1>5. \A t \in tx : t.run = r /\ IsPending(t) => t = p
  BY <1>2 DEF Requests, IsPending
<1> QED
  BY <1>2, <1>3, <1>4, <1>5 DEF p

LEMMA SameRenewed ==
  ASSUME MoneyTyped, Requests, tx' = tx
  PROVE  Renewed
BY DEF MoneyTyped, Requests, Renewed, Alike

LEMMA ReplacedRenewed ==
  ASSUME MoneyTyped, Requests, NEW t \in tx, NEW s \in Sends, tx' = (tx \ {t}) \cup {s},
         Alike(s, t), Open(s) => Open(t), Gone(t) => Gone(s), t.given => s.given,
         s.kind = "approve" => s.state # "reverted"
  PROVE  Renewed
<1>1. tx' \subseteq Sends /\ \A q \in tx' : q.kind = "approve" => q.state # "reverted"
  BY DEF MoneyTyped
<1>2. \A q \in tx' : \E p \in tx : Alike(q, p) /\ (Open(q) => Open(p))
  BY DEF Alike
<1>3. \A p \in tx : \E q \in tx' : Alike(q, p) /\ (Gone(p) => Gone(q)) /\ (p.given => q.given)
  BY DEF Alike
<1>4. \A p, q \in tx' : p.run = q.run /\ p.kind = q.kind /\ p.chain = q.chain => p = q
  BY DEF Alike, Requests
<1> QED
  BY <1>1, <1>2, <1>3, <1>4 DEF Renewed

LEMMA BecomesRenewed ==
  ASSUME MoneyTyped, Requests, NEW t \in tx, NEW v, Becomes(t, v),
         \/ t.state = "asked" /\ v \in {"sent", "refused"}
         \/ t.state = "sent" /\ v = "landed"
         \/ t.state = "sent" /\ v = "reverted" /\ t.kind = "deposit"
  PROVE  Renewed /\ [t EXCEPT !.state = v] \in tx'
<1> DEFINE s == [t EXCEPT !.state = v]
<1>1. /\ s \in Sends /\ s.run = t.run /\ s.kind = t.kind /\ s.chain = t.chain
      /\ s.amount = t.amount /\ s.given = t.given /\ s.state = v
  BY DEF MoneyTyped, Sends
<1>2. tx' = (tx \ {t}) \cup {s}
  BY DEF Becomes
<1> HIDE DEF s
<1>3. Renewed
  BY <1>1, <1>2, ReplacedRenewed DEF Alike, Open, Gone
<1> QED
  BY <1>2, <1>3 DEF s

LEMMA GivenUpRenewed ==
  ASSUME RunsTyped, MoneyTyped, Requests, NEW r \in 1..Latest, Waiting(r), tx' = GivenUp(r)
  PROVE  /\ Renewed
         /\ \E s \in tx' : s.given
         /\ \A s \in tx' : Open(s) => \E t \in tx : Alike(s, t) /\ Open(t) /\ t # Pending(r)
<1> DEFINE t == Pending(r)
           s == [t EXCEPT !.given = TRUE]
<1>1. t \in tx
  BY PendingIs
<1>2. tx' = (tx \ {t}) \cup {s}
  BY DEF GivenUp
<1> HIDE DEF t
<1>3. /\ s \in Sends /\ s.run = t.run /\ s.kind = t.kind /\ s.chain = t.chain
      /\ s.amount = t.amount /\ s.given /\ s.state = t.state
      /\ s.kind = "approve" => s.state # "reverted"
  BY <1>1 DEF MoneyTyped, Sends
<1> HIDE DEF s
<1>4. Renewed
  BY <1>1, <1>2, <1>3, ReplacedRenewed DEF Alike, Open, Gone
<1>5. \A q \in tx' : Open(q) => q \in tx /\ q # t
  BY <1>2, <1>3 DEF Open
<1> QED
  BY <1>2, <1>3, <1>4, <1>5 DEF Alike, t

\* What a run was asked for goes on being so.
LEMMA RequestsMoved ==
  ASSUME RunsTyped, Requests, Renewed, Latest' \in Nat, Latest <= Latest',
         \A q \in 1..Latest :
           /\ runs'[q].split = runs[q].split
           /\ \/ runs'[q].pc = runs[q].pc /\ runs'[q].at = runs[q].at
              \/ runs'[q].pc = "next" /\ runs'[q].at = runs[q].at + 1
              \/ /\ runs[q].pc \notin Kinds /\ runs'[q].pc \notin Kinds
                 /\ runs'[q].at = runs[q].at,
         \A q \in 1..Latest' : q > Latest => runs'[q].pc = "next"
  PROVE  Requests'
<1>1. ASSUME NEW s \in tx'
      PROVE  s.run \in 1..Latest' /\ AskedFor(s)'
  <2>1. PICK t \in tx : Alike(s, t)
    BY DEF Renewed
  <2>2. PICK q \in 1..Latest : q = s.run /\ q = t.run
    BY <2>1 DEF Requests, Alike
  <2>3. PICK i \in 1..Len(runs[q].split) :
          /\ t.chain = runs[q].split[i].chain /\ t.amount = runs[q].split[i].amount
          /\ \/ i < runs[q].at
             \/ i = runs[q].at /\ Waiting(q) /\ (t.kind = runs[q].pc \/ t.kind = "approve")
    BY <2>2 DEF Requests, AskedFor
  <2>4. runs[q].at \in Nat /\ i \in Nat
    BY RunIs DEF RunState
  <2>5. \/ i < runs'[q].at
        \/ i = runs'[q].at /\ Waiting(q)' /\ (t.kind = runs'[q].pc \/ t.kind = "approve")
    <3>1. CASE runs'[q].pc = runs[q].pc /\ runs'[q].at = runs[q].at
      BY <2>3, <3>1 DEF Waiting
    <3>2. CASE runs'[q].pc = "next" /\ runs'[q].at = runs[q].at + 1
      <4>1. PICK x \in Nat : x = runs[q].at
        BY <2>4
      <4>2. i < x \/ i = x
        BY <2>3, <4>1
      <4>3. i < x + 1
        BY <2>4, <4>2
      <4> QED
        BY <3>2, <4>1, <4>3
    <3>3. CASE runs[q].pc \notin Kinds /\ runs'[q].at = runs[q].at
      BY <2>3, <3>3 DEF Waiting, Kinds
    <3> QED
      BY <3>1, <3>2, <3>3
  <2>6. runs'[q].split = runs[q].split
    OBVIOUS
  <2>7. s.chain = t.chain /\ s.amount = t.amount /\ s.kind = t.kind
    BY <2>1 DEF Alike
  <2>8. AskedFor(s)'
    BY <2>2, <2>3, <2>5, <2>6, <2>7 DEF AskedFor
  <2>9. q \in 1..Latest'
    BY RunIs
  <2> QED
    BY <2>2, <2>8, <2>9
<1>2. ASSUME NEW q \in 1..Latest', Waiting(q)'
      PROVE  \E s \in tx' : s.run = q /\ IsPending(s)'
  <2>1. runs'[q].pc \in Kinds
    BY <1>2 DEF Waiting, Kinds
  <2>2. q \in 1..Latest
    <3>1. ~ (q > Latest)
      BY <2>1 DEF Kinds
    <3> QED
      BY <3>1 DEF RunsTyped, Latest
  <2>3. runs'[q].pc = runs[q].pc /\ runs'[q].at = runs[q].at /\ runs'[q].split = runs[q].split
    BY <2>1, <2>2 DEF Kinds
  <2>4. Waiting(q)
    BY <1>2, <2>3 DEF Waiting
  <2>5. PICK t \in tx : t.run = q /\ IsPending(t)
    BY <2>2, <2>4 DEF Requests
  <2>6. PICK s \in tx' : Alike(s, t)
    BY DEF Renewed
  <2>7. Here(q)' = Here(q)
    BY <2>3 DEF Here, Row
  <2>8. s.run = q /\ s.kind = runs'[q].pc /\ s.chain = Here(q)'
    BY <2>3, <2>5, <2>6, <2>7 DEF Alike, IsPending
  <2>9. IsPending(s)'
    BY <1>2, <2>8 DEF IsPending
  <2> QED
    BY <2>8, <2>9
<1>3. \A s, t \in tx' : s.run = t.run /\ s.kind = t.kind /\ s.chain = t.chain => t = s
  BY DEF Renewed
<1> QED
  BY <1>1, <1>2, <1>3 DEF Requests

\* A run is at a row: it has not come to the end.
AtRow(r) == runs[r].at \in 1..Len(runs[r].split)

LEMMA HereIs ==
  ASSUME RunsTyped, NEW r \in 1..Latest, AtRow(r)
  PROVE  Row(r) \in Share /\ Here(r) \in Chain /\ Row(r).amount \in Nat
<1>1. runs[r].split \in Seq(Share)
  BY RunIs DEF GoodSplit
<1>2. Row(r) \in Share
  BY <1>1 DEF Row, AtRow
<1> QED
  BY <1>2 DEF Share, Here

LEMMA AskRequests ==
  ASSUME RunsTyped, MoneyTyped, Requests, NEW r \in 1..Latest, AtRow(r), NEW k \in Kinds,
         Ask(r, k), ~ Waiting(r) \/ (runs[r].pc = "approve" /\ k = "deposit"), Latest <= MaxRuns
  PROVE  /\ Requests' /\ tx' \subseteq Sends
         /\ \E s : s = SendAsked(r, k) /\ tx' = tx \cup {s} /\ IsPending(s)'
         /\ \A t \in tx' : t.kind = "approve" => t.state # "reverted"
<1>0. PICK new : new = SendAsked(r, k)
  OBVIOUS
<1>1. tx' = tx \cup {new}
  BY <1>0 DEF Ask
<1>2. /\ new.run = r /\ new.kind = k /\ new.chain = Here(r) /\ new.amount = Row(r).amount
      /\ new.state = "asked"
  BY <1>0 DEF SendAsked
<1>3. r \in Run
  BY RunIs, WebConstants DEF Run, RunsTyped
<1>4. new \in Sends
  BY <1>0, <1>3, HereIs DEF SendAsked, Sends
<1>5. /\ OnlyRun(r) /\ runs'[r].pc = k /\ runs'[r].at = runs[r].at
  BY AskDoes
<1>6. Latest' = Latest /\ Latest \in Nat
  BY <1>5, RunIs DEF OnlyRun, Latest
<1>7. runs'[r].split = runs[r].split /\ \A q \in 1..Latest : q # r => runs'[q] = runs[q]
  BY <1>5 DEF OnlyRun
<1>8. Waiting(r)'
  BY <1>5 DEF Waiting, Kinds
<1>9. ASSUME NEW t \in tx
      PROVE  AskedFor(t)'
  <2>1. PICK i \in 1..Len(runs[t.run].split) :
          /\ t.chain = runs[t.run].split[i].chain /\ t.amount = runs[t.run].split[i].amount
          /\ \/ i < runs[t.run].at
             \/ i = runs[t.run].at /\ Waiting(t.run)
                  /\ (t.kind = runs[t.run].pc \/ t.kind = "approve")
    BY DEF Requests, AskedFor
  <2>2. t.run \in 1..Latest
    BY DEF Requests
  <2>3. CASE t.run # r
    <3>1. runs'[t.run] = runs[t.run]
      BY <1>7, <2>2, <2>3
    <3> QED
      BY <2>1, <3>1 DEF AskedFor, Waiting
  <2>4. CASE t.run = r
    <3>1. i < runs'[r].at \/ (i = runs'[r].at /\ t.kind = "approve")
      BY <1>5, <2>1, <2>4
    <3> QED
      BY <1>7, <1>8, <2>1, <2>4, <3>1 DEF AskedFor
  <2> QED
    BY <2>3, <2>4
<1>10. AskedFor(new)'
  <2>1. runs[r].at \in 1..Len(runs[r].split)
    BY DEF AtRow
  <2> QED
    BY <1>2, <1>5, <1>7, <1>8, <2>1 DEF AskedFor, Here, Row
<1>11. ASSUME NEW t \in tx, t.run = r, t.kind = k, t.chain = Here(r)
       PROVE  FALSE
  <2>1. PICK i \in 1..Len(runs[r].split) :
          /\ t.chain = runs[r].split[i].chain
          /\ \/ i < runs[r].at
             \/ i = runs[r].at /\ Waiting(r) /\ (t.kind = runs[r].pc \/ t.kind = "approve")
    BY <1>11 DEF Requests, AskedFor
  <2>2. \A j, m \in 1..Len(runs[r].split) :
          runs[r].split[j].chain = runs[r].split[m].chain => j = m
    BY RunIs DEF GoodSplit
  <2>3. i = runs[r].at
    BY <1>11, <2>1, <2>2 DEF Here, Row, AtRow
  <2>4. runs[r].at \in Nat
    BY RunIs DEF RunState
  <2>5. Waiting(r) /\ (t.kind = runs[r].pc \/ t.kind = "approve")
    BY <2>1, <2>3, <2>4
  <2> QED
    BY <1>11, <2>5
<1>12. \A s, t \in tx' : s.run = t.run /\ s.kind = t.kind /\ s.chain = t.chain => t = s
  <2>1. \A s, t \in tx : s.run = t.run /\ s.kind = t.kind /\ s.chain = t.chain => t = s
    BY DEF Requests
  <2> QED
    BY <1>1, <1>2, <1>11, <2>1
<1>13. IsPending(new)'
  <2>1. Here(r)' = Here(r)
    BY <1>5, <1>7 DEF Here, Row
  <2> QED
    BY <1>2, <1>5, <1>6, <1>8, <2>1 DEF IsPending
<1>14. \A q \in 1..Latest' : Waiting(q)' => \E t \in tx' : t.run = q /\ IsPending(t)'
  <2> SUFFICES ASSUME NEW q \in 1..Latest', Waiting(q)'
               PROVE  \E t \in tx' : t.run = q /\ IsPending(t)'
    OBVIOUS
  <2>1. CASE q = r
    BY <1>1, <1>2, <1>13, <2>1
  <2>2. CASE q # r
    <3>1. runs'[q] = runs[q]
      BY <1>6, <1>7, <2>2
    <3>2. Waiting(q) /\ Here(q)' = Here(q)
      BY <3>1 DEF Waiting, Here, Row
    <3>3. PICK t \in tx : t.run = q /\ IsPending(t)
      BY <1>6, <3>2 DEF Requests
    <3>4. IsPending(t)'
      BY <1>6, <3>1, <3>2, <3>3 DEF IsPending
    <3> QED
      BY <1>1, <3>3, <3>4
  <2> QED
    BY <2>1, <2>2
<1>15. \A t \in tx' : t.run \in 1..Latest' /\ AskedFor(t)'
  BY <1>1, <1>2, <1>6, <1>9, <1>10 DEF Requests
<1> QED
  BY <1>0, <1>1, <1>2, <1>4, <1>12, <1>13, <1>14, <1>15 DEF Requests, MoneyTyped

\* The runs stay typed when one of them moves.
LEMMA RunsMoved ==
  ASSUME RunsTyped, NEW r \in 1..Latest, OnlyRun(r), runs'[r].at <= Len(runs[r].split) + 1,
         runs'[r].pc \in {"resolve"} \cup Kinds => runs'[r].at <= Len(runs[r].split)
  PROVE  RunsTyped' /\ Latest' = Latest
<1>1. Latest' = Latest /\ runs' \in Seq(RunState)
  BY DEF OnlyRun, Latest
<1>2. \A q \in 1..Latest :
        /\ GoodSplit(runs'[q].split)
        /\ runs'[q].at <= Len(runs'[q].split) + 1
        /\ runs'[q].pc \in {"resolve"} \cup Kinds => runs'[q].at <= Len(runs'[q].split)
  <2> SUFFICES ASSUME NEW q \in 1..Latest
               PROVE  /\ GoodSplit(runs'[q].split)
                      /\ runs'[q].at <= Len(runs'[q].split) + 1
                      /\ runs'[q].pc \in {"resolve"} \cup Kinds =>
                           runs'[q].at <= Len(runs'[q].split)
    OBVIOUS
  <2>1. CASE q = r
    BY <2>1 DEF OnlyRun, RunsTyped
  <2>2. CASE q # r
    BY <2>2 DEF OnlyRun, RunsTyped
  <2> QED
    BY <2>1, <2>2
<1>3. Latest <= MaxRuns
  BY DEF RunsTyped
<1> QED
  BY <1>1, <1>2, <1>3 DEF RunsTyped, GoodSplit, Share, Total

-----------------------------------------------------------------------------
(* Every step keeps the types and the requests.                            *)

LEMMA RowsSet ==
  ASSUME NEW rows \in Rows, SetRows(rows)
  PROVE  /\ status' \in Rows /\ DOMAIN status' = DOMAIN rows
         /\ completedCount' \in 0..Cardinality(Chain) /\ hasErrors' \in BOOLEAN
         /\ stale' \in BOOLEAN
<1>1. DOMAIN rows \subseteq Chain
  BY DEF Rows
<1>2. Finished(rows) \subseteq Chain
  BY <1>1 DEF Finished
<1>3. IsFiniteSet(Chain) /\ Cardinality(Chain) \in Nat
  BY WebConstants, FS_CardinalityType
<1>4. Cardinality(Finished(rows)) \in Nat /\ Cardinality(Finished(rows)) <= Cardinality(Chain)
  BY <1>2, <1>3, FS_Subset, FS_CardinalityType
<1> QED
  BY <1>3, <1>4 DEF SetRows

LEMMA RowUpdated ==
  ASSUME status \in Rows, NEW c, NEW s \in RowStates, UpdateRow(c, s)
  PROVE  /\ status' \in Rows /\ DOMAIN status' = DOMAIN status
         /\ completedCount' \in 0..Cardinality(Chain) /\ hasErrors' \in BOOLEAN
         /\ stale' \in BOOLEAN
         /\ completedCount' = Cardinality(Finished(status)') /\ hasErrors' = (Failed(status)' # {})
         /\ \A d \in DOMAIN status : status'[d] = IF d = c THEN s ELSE status[d]
<1> DEFINE rows == [d \in DOMAIN status |-> IF d = c THEN s ELSE status[d]]
<1>1. rows \in Rows /\ DOMAIN rows = DOMAIN status
  <2>1. PICK S \in SUBSET Chain : status \in [S -> RowStates]
    BY DEF Rows
  <2>2. rows \in [S -> RowStates]
    BY <2>1
  <2> QED
    BY <2>1, <2>2 DEF Rows
<1>2. SetRows(rows)
  BY DEF UpdateRow
<1>3. status' = rows
  BY <1>2 DEF SetRows
<1>4. Finished(status)' = Finished(rows) /\ Failed(status)' = Failed(rows)
  BY <1>3 DEF Finished, Failed
<1>5. completedCount' = Cardinality(Finished(rows)) /\ hasErrors' = (Failed(rows) # {})
  BY <1>2 DEF SetRows
<1>6. \A d \in DOMAIN status : status'[d] = IF d = c THEN s ELSE status[d]
  BY <1>3
<1> HIDE DEF rows
<1> QED
  BY <1>1, <1>2, <1>4, <1>5, <1>6, RowsSet

LEMMA DialogKept ==
  ASSUME DialogTyped, sponsored' = sponsored, dialog' = dialog, isExecuting' \in BOOLEAN,
         Latest' = Latest, Latest # 0, NEW c, NEW s \in RowStates, NoUpdate \/ UpdateRow(c, s)
  PROVE  DialogTyped'
<1>1. /\ status' \in Rows /\ completedCount' \in 0..Cardinality(Chain)
      /\ hasErrors' \in BOOLEAN /\ stale' \in BOOLEAN
  <2>1. CASE NoUpdate
    BY <2>1 DEF NoUpdate, DialogTyped
  <2>2. CASE UpdateRow(c, s)
    BY <2>2, RowUpdated DEF DialogTyped
  <2> QED
    BY <2>1, <2>2
<1> QED
  BY <1>1 DEF DialogTyped, dialog

\* A run moves on to its next row, with its request or giving it up.
LEMMA NextRowTyped ==
  ASSUME RunsTyped, MoneyTyped, Requests, NEW r \in 1..Latest, AtRow(r), NextRow(r),
         tx' = tx \/ (Waiting(r) /\ tx' = GivenUp(r)),
         allowance' = allowance, cached' = cached
  PROVE  RunsTyped' /\ MoneyTyped' /\ Requests' /\ Latest' = Latest
<1>1. OnlyRun(r) /\ runs'[r].pc = "next" /\ runs'[r].at = runs[r].at + 1
  BY NextRowDoes
<1>2. runs'[r].at <= Len(runs[r].split) + 1
  <2>1. PICK a \in Nat, b \in Nat : a = runs[r].at /\ b = Len(runs[r].split) /\ a <= b
    BY RunIs DEF AtRow
  <2> QED
    BY <1>1, <2>1
<1>3. RunsTyped' /\ Latest' = Latest
  BY <1>1, <1>2, RunsMoved DEF Kinds
<1>4. Renewed
  BY SameRenewed, GivenUpRenewed
<1>5. Requests'
  <2>1. \A q \in 1..Latest :
          /\ runs'[q].split = runs[q].split
          /\ \/ runs'[q].pc = runs[q].pc /\ runs'[q].at = runs[q].at
             \/ runs'[q].pc = "next" /\ runs'[q].at = runs[q].at + 1
    BY <1>1 DEF OnlyRun
  <2>2. Latest \in Nat /\ Latest' \in Nat /\ Latest <= Latest'
    BY <1>3, RunIs
  <2>3. \A q \in 1..Latest' : ~ (q > Latest)
    BY <1>3, <2>2
  <2> QED
    BY <1>4, <2>1, <2>2, <2>3, RequestsMoved
<1>6. MoneyTyped'
  BY <1>4 DEF Renewed, MoneyTyped
<1> QED
  BY <1>3, <1>5, <1>6

\* A run is aborted.
LEMMA AbortTyped ==
  ASSUME RunsTyped, MoneyTyped, Requests, NEW r \in 1..Latest, NEW late \in BOOLEAN,
         Abort(r, late), allowance' = allowance, cached' = cached
  PROVE  RunsTyped' /\ MoneyTyped' /\ Requests' /\ Latest' = Latest /\ Renewed
<1>1. OnlyRun(r)
  BY AbortDoes
<1>2. /\ Heard(r) => runs'[r].pc = "next" /\ runs'[r].at = runs[r].at + 1 /\ tx' = GivenUp(r)
      /\ ~ Heard(r) => runs'[r].pc = runs[r].pc /\ runs'[r].at = runs[r].at /\ tx' = tx
  BY AbortDoes
<1>3. Heard(r) => AtRow(r)
  BY RunIs DEF Heard, Waiting, Kinds, RunsTyped, RunState, AtRow
<1>4. RunsTyped' /\ Latest' = Latest
  <2>1. PICK a \in Nat, b \in Nat : a = runs[r].at /\ b = Len(runs[r].split)
    BY RunIs DEF RunState
  <2>2. CASE Heard(r)
    <3>1. a <= b /\ runs'[r].at = a + 1
      BY <1>2, <1>3, <2>1, <2>2 DEF AtRow
    <3>2. runs'[r].at <= b + 1
      BY <2>1, <3>1
    <3> QED
      BY <1>1, <1>2, <2>1, <2>2, <3>2, RunsMoved DEF Kinds
  <2>3. CASE ~ Heard(r)
    <3>1. /\ runs'[r].at <= b + 1
          /\ runs'[r].pc \in {"resolve"} \cup Kinds => runs'[r].at <= b
      BY <1>2, <2>1, <2>3 DEF RunsTyped
    <3> QED
      BY <1>1, <2>1, <3>1, RunsMoved
  <2> QED
    BY <2>2, <2>3
<1>5. Renewed
  <2>1. CASE Heard(r)
    BY <1>2, <2>1, GivenUpRenewed DEF Heard
  <2>2. CASE ~ Heard(r)
    BY <1>2, <2>2, SameRenewed
  <2> QED
    BY <2>1, <2>2
<1>6. Requests'
  <2>1. \A q \in 1..Latest :
          /\ runs'[q].split = runs[q].split
          /\ \/ runs'[q].pc = runs[q].pc /\ runs'[q].at = runs[q].at
             \/ runs'[q].pc = "next" /\ runs'[q].at = runs[q].at + 1
    BY <1>1, <1>2 DEF OnlyRun
  <2>2. Latest \in Nat /\ Latest' \in Nat /\ Latest <= Latest'
    BY <1>4, RunIs
  <2>3. \A q \in 1..Latest' : ~ (q > Latest)
    BY <1>4, <2>2
  <2> QED
    BY <1>5, <2>1, <2>2, <2>3, RequestsMoved
<1>7. MoneyTyped'
  BY <1>5 DEF Renewed, MoneyTyped
<1> QED
  BY <1>4, <1>5, <1>6, <1>7

\* A run asks the wallet.
LEMMA AskTyped ==
  ASSUME RunsTyped, MoneyTyped, Requests, NEW r \in 1..Latest, AtRow(r), NEW k \in Kinds,
         Ask(r, k), ~ Waiting(r) \/ (runs[r].pc = "approve" /\ k = "deposit"),
         allowance' = allowance, cached' = cached
  PROVE  RunsTyped' /\ MoneyTyped' /\ Requests' /\ Latest' = Latest
<1>1. OnlyRun(r) /\ runs'[r].pc = k /\ runs'[r].at = runs[r].at
  BY AskDoes
<1>2. runs'[r].at <= Len(runs[r].split) + 1 /\ runs'[r].at <= Len(runs[r].split)
  <2>1. PICK a \in Nat, b \in Nat : a = runs[r].at /\ b = Len(runs[r].split) /\ a <= b
    BY RunIs DEF AtRow
  <2> QED
    BY <1>1, <2>1
<1>3. RunsTyped' /\ Latest' = Latest
  BY <1>1, <1>2, RunsMoved
<1>4. Latest <= MaxRuns
  BY DEF RunsTyped
<1>5. /\ Requests' /\ tx' \subseteq Sends
      /\ \A t \in tx' : t.kind = "approve" => t.state # "reverted"
  BY <1>4, AskRequests
<1> QED
  BY <1>3, <1>5 DEF MoneyTyped

\* A run ends, or waits for a sender's address.
LEMMA GotoTyped ==
  ASSUME RunsTyped, MoneyTyped, Requests, NEW r \in 1..Latest, NEW p \in {"resolve", "done"},
         Goto(r, p), runs[r].pc = "next", p = "resolve" => AtRow(r),
         tx' = tx, allowance' = allowance, cached' = cached
  PROVE  RunsTyped' /\ MoneyTyped' /\ Requests' /\ Latest' = Latest
<1>1. OnlyRun(r) /\ runs'[r].pc = p /\ runs'[r].at = runs[r].at
  BY GotoDoes
<1>2. /\ runs'[r].at <= Len(runs[r].split) + 1
      /\ runs'[r].pc \in {"resolve"} \cup Kinds => runs'[r].at <= Len(runs[r].split)
  <2>1. PICK a \in Nat, b \in Nat : a = runs[r].at /\ b = Len(runs[r].split) /\ a <= b + 1
    BY RunIs DEF RunsTyped, RunState
  <2> QED
    BY <1>1, <2>1 DEF AtRow, Kinds
<1>3. RunsTyped' /\ Latest' = Latest
  BY <1>1, <1>2, RunsMoved
<1>4. Renewed
  BY SameRenewed
<1>5. Requests'
  <2>1. \A q \in 1..Latest :
          /\ runs'[q].split = runs[q].split
          /\ \/ runs'[q].pc = runs[q].pc /\ runs'[q].at = runs[q].at
             \/ /\ runs[q].pc \notin Kinds /\ runs'[q].pc \notin Kinds
                /\ runs'[q].at = runs[q].at
    BY <1>1 DEF OnlyRun, Kinds
  <2>2. Latest \in Nat /\ Latest' \in Nat /\ Latest <= Latest'
    BY <1>3, RunIs
  <2>3. \A q \in 1..Latest' : ~ (q > Latest)
    BY <1>3, <2>2
  <2> QED
    BY <1>4, <2>1, <2>2, <2>3, RequestsMoved
<1> QED
  BY <1>3, <1>5 DEF MoneyTyped

\* Between "next" and the end, and while it waits, a run is at a row.
LEMMA AtARow ==
  ASSUME RunsTyped, NEW r \in 1..Latest,
         (runs[r].pc = "next" /\ ~ NoMoreRows(r)) \/ runs[r].pc = "resolve" \/ Waiting(r)
  PROVE  AtRow(r)
<1>1. PICK a \in Nat, b \in Nat : a = runs[r].at /\ b = Len(runs[r].split) /\ a > 0
  BY RunIs DEF RunState
<1>2. a <= b
  BY <1>1 DEF NoMoreRows, RunsTyped, Waiting, Kinds
<1> QED
  BY <1>1, <1>2 DEF AtRow

\* What the steps of the catch block have in common.
LEMMA CaughtTyped ==
  ASSUME WebTyped, NEW r \in 1..Latest, AtRow(r), Caught(r), sponsored' = sponsored,
         isExecuting' = isExecuting, dialog' = dialog,
         tx' = tx \/ (Waiting(r) /\ tx' = GivenUp(r)), allowance' = allowance, cached' = cached
  PROVE  WebTyped'
<1>1. NextRow(r) /\ (NoUpdate \/ UpdateRow(Here(r), "error"))
  BY DEF Caught
<1>2. RunsTyped' /\ MoneyTyped' /\ Requests' /\ Latest' = Latest
  BY <1>1, NextRowTyped DEF WebTyped
<1>3. "error" \in RowStates /\ isExecuting' \in BOOLEAN /\ Latest # 0
  BY DEF RowStates, Terminal, WebTyped, DialogTyped
<1>4. DialogTyped'
  BY <1>1, <1>2, <1>3, DialogKept DEF WebTyped
<1> QED
  BY <1>2, <1>4 DEF WebTyped

LEMMA AskedTyped ==
  ASSUME WebTyped, NEW r \in 1..Latest, AtRow(r), NEW k \in Kinds, Ask(r, k),
         ~ Waiting(r) \/ (runs[r].pc = "approve" /\ k = "deposit"), sponsored' = sponsored,
         isExecuting' = isExecuting, dialog' = dialog, allowance' = allowance, cached' = cached
  PROVE  WebTyped'
<1> DEFINE s == IF k = "approve" THEN "approving" ELSE "depositing"
<1>1. UpdateRow(Here(r), s) /\ s \in RowStates
  BY DEF Ask, RowStates
<1>2. RunsTyped' /\ MoneyTyped' /\ Requests' /\ Latest' = Latest
  BY AskTyped DEF WebTyped
<1>3. isExecuting' \in BOOLEAN /\ Latest # 0
  BY DEF WebTyped, DialogTyped
<1> HIDE DEF s
<1>4. DialogTyped'
  BY <1>1, <1>2, <1>3, DialogKept DEF WebTyped
<1> QED
  BY <1>2, <1>4 DEF WebTyped

LEMMA RunStepTyped ==
  ASSUME WebTyped, NEW r \in 1..Latest, RunStep(r) \/ SenderStep(r) \/ SendTimeout(r)
  PROVE  WebTyped'
<1>1. RunsTyped /\ MoneyTyped /\ Requests /\ DialogTyped /\ Latest # 0
  BY DEF WebTyped
<1>2. CASE FinishRun(r)
  <2>1. Goto(r, "done") /\ runs[r].pc = "next" /\ tx' = tx /\ allowance' = allowance /\ cached' = cached
    BY <1>2 DEF FinishRun, money
  <2>2. RunsTyped' /\ MoneyTyped' /\ Requests' /\ Latest' = Latest
    BY <1>1, <2>1, GotoTyped
  <2>3. isExecuting' \in BOOLEAN
    BY <1>1, <1>2 DEF FinishRun, DialogTyped
  <2>4. DialogTyped'
    BY <1>1, <1>2, <2>2, <2>3 DEF FinishRun, DialogTyped, dialog
  <2> QED
    BY <2>2, <2>4 DEF WebTyped
<1>3. CASE StartRow(r)
  <2>1. /\ runs[r].pc = "next" /\ ~ NoMoreRows(r) /\ sponsored' = sponsored
        /\ isExecuting' = isExecuting /\ dialog' = dialog /\ allowance' = allowance /\ cached' = cached
    BY <1>3 DEF StartRow
  <2>2. AtRow(r)
    BY <1>1, <2>1, AtARow
  <2>3. CASE sponsored
    <3>1. Goto(r, "resolve") /\ NoUpdate /\ tx' = tx
      BY <1>3, <2>3 DEF StartRow
    <3>2. RunsTyped' /\ MoneyTyped' /\ Requests' /\ Latest' = Latest
      BY <1>1, <2>1, <2>2, <3>1, GotoTyped
    <3>3. DialogTyped'
      BY <1>1, <2>1, <3>1, <3>2 DEF NoUpdate, DialogTyped, dialog
    <3> QED
      BY <3>2, <3>3 DEF WebTyped
  <2>4. CASE ~ sponsored
    <3>1. \E k \in Kinds : Ask(r, k)
      BY <1>3, <2>4 DEF StartRow, FirstSend, Kinds
    <3>2. ~ Waiting(r)
      BY <2>1 DEF Waiting
    <3> QED
      BY <2>1, <2>2, <3>1, <3>2, AskedTyped
  <2> QED
    BY <2>3, <2>4
<1>4. CASE RowFails(r)
  <2>1. /\ NextRow(r) /\ UpdateRow(Here(r), "error") /\ tx' = tx /\ sponsored' = sponsored
        /\ isExecuting' = isExecuting /\ dialog' = dialog /\ allowance' = allowance
        /\ cached' = cached /\ runs[r].pc = "next" /\ ~ NoMoreRows(r)
    BY <1>4 DEF RowFails, money
  <2>2. AtRow(r)
    BY <1>1, <2>1, AtARow
  <2>3. RunsTyped' /\ MoneyTyped' /\ Requests' /\ Latest' = Latest
    BY <1>1, <2>1, <2>2, NextRowTyped
  <2>4. "error" \in RowStates /\ isExecuting' \in BOOLEAN
    BY <1>1, <2>1 DEF RowStates, Terminal, DialogTyped
  <2>5. DialogTyped'
    BY <1>1, <2>1, <2>3, <2>4, DialogKept
  <2> QED
    BY <2>3, <2>5 DEF WebTyped
<1>5. CASE ApprovalAnswered(r)
  <2>1. /\ runs[r].pc = "approve" /\ sponsored' = sponsored
        /\ isExecuting' = isExecuting /\ dialog' = dialog /\ allowance' = allowance /\ cached' = cached
    BY <1>5 DEF ApprovalAnswered
  <2>2. AtRow(r)
    BY <1>1, <2>1, AtARow DEF Waiting
  <2>3. CASE runs[r].aborted
    <3>1. NextRow(r) /\ NoUpdate /\ tx' = tx
      BY <1>5, <2>3 DEF ApprovalAnswered
    <3>2. RunsTyped' /\ MoneyTyped' /\ Requests' /\ Latest' = Latest
      BY <1>1, <2>1, <2>2, <3>1, NextRowTyped
    <3>3. DialogTyped'
      BY <1>1, <2>1, <3>1, <3>2 DEF NoUpdate, DialogTyped, dialog
    <3> QED
      BY <3>2, <3>3 DEF WebTyped
  <2>4. CASE ~ runs[r].aborted
    <3>1. Ask(r, "deposit") /\ "deposit" \in Kinds
      BY <1>5, <2>4 DEF ApprovalAnswered, Kinds
    <3> QED
      BY <2>1, <2>2, <3>1, AskedTyped
  <2> QED
    BY <2>3, <2>4
<1>6. CASE DepositAnswered(r)
  <2>1. /\ NextRow(r) /\ UpdateRow(Here(r), "success") /\ tx' = tx /\ sponsored' = sponsored
        /\ isExecuting' = isExecuting /\ dialog' = dialog /\ allowance' = allowance
        /\ cached' = cached /\ runs[r].pc = "deposit"
    BY <1>6 DEF DepositAnswered, money
  <2>2. AtRow(r)
    BY <1>1, <2>1, AtARow DEF Waiting
  <2>3. RunsTyped' /\ MoneyTyped' /\ Requests' /\ Latest' = Latest
    BY <1>1, <2>1, <2>2, NextRowTyped
  <2>4. "success" \in RowStates /\ isExecuting' \in BOOLEAN
    BY <1>1, <2>1 DEF RowStates, Terminal, DialogTyped
  <2>5. DialogTyped'
    BY <1>1, <2>1, <2>3, <2>4, DialogKept
  <2> QED
    BY <2>3, <2>5 DEF WebTyped
<1>7. CASE SendFailed(r)
  <2>1. /\ Waiting(r) /\ Caught(r) /\ tx' = tx /\ sponsored' = sponsored
        /\ isExecuting' = isExecuting /\ dialog' = dialog /\ allowance' = allowance /\ cached' = cached
    BY <1>7 DEF SendFailed, money
  <2> QED
    BY <1>1, <2>1, AtARow, CaughtTyped
<1>8. CASE SenderResolved(r)
  <2>1. /\ runs[r].pc = "resolve" /\ sponsored' = sponsored
        /\ isExecuting' = isExecuting /\ dialog' = dialog /\ allowance' = allowance /\ cached' = cached
        /\ \E k \in Kinds : Ask(r, k)
    BY <1>8 DEF SenderResolved, FirstSend, Kinds
  <2>2. AtRow(r) /\ ~ Waiting(r)
    BY <1>1, <2>1, AtARow DEF Waiting
  <2> QED
    BY <2>1, <2>2, AskedTyped
<1>9. CASE SenderFailed(r)
  <2>1. /\ runs[r].pc = "resolve" /\ Caught(r) /\ tx' = tx /\ sponsored' = sponsored
        /\ isExecuting' = isExecuting /\ dialog' = dialog /\ allowance' = allowance /\ cached' = cached
    BY <1>9 DEF SenderFailed, money
  <2> QED
    BY <1>1, <2>1, AtARow, CaughtTyped
<1>10. CASE SendTimeout(r)
  <2>1. /\ Waiting(r) /\ Caught(r) /\ tx' = GivenUp(r) /\ sponsored' = sponsored
        /\ isExecuting' = isExecuting /\ dialog' = dialog /\ allowance' = allowance /\ cached' = cached
    BY <1>10 DEF SendTimeout
  <2> QED
    BY <1>1, <2>1, AtARow, CaughtTyped
<1> QED
  BY <1>2, <1>3, <1>4, <1>5, <1>6, <1>7, <1>8, <1>9, <1>10 DEF RunStep, SenderStep

LEMMA ExecutionTimeoutTyped ==
  ASSUME WebTyped, NEW r \in 1..Latest, ExecutionTimeout(r)
  PROVE  WebTyped'
<1>1. RunsTyped' /\ MoneyTyped' /\ Requests' /\ Latest' = Latest
  <2>1. Abort(r, TRUE) /\ TRUE \in BOOLEAN /\ allowance' = allowance /\ cached' = cached
    BY DEF ExecutionTimeout
  <2> QED
    BY <2>1, AbortTyped DEF WebTyped
<1>2. status' \in Rows
  <2>1. PICK S \in SUBSET Chain : status \in [S -> RowStates]
    BY DEF Rows, WebTyped, DialogTyped
  <2>2. status' \in [S -> RowStates]
    BY <2>1 DEF ExecutionTimeout, RowStates, Terminal
  <2> QED
    BY <2>2 DEF Rows
<1>3. DialogTyped'
  BY <1>1, <1>2 DEF ExecutionTimeout, WebTyped, DialogTyped, dialog
<1> QED
  BY <1>1, <1>3 DEF WebTyped

\* Nothing happens to the runs.
LEMMA RunsLeft ==
  ASSUME RunsTyped, Requests, Renewed, runs' = runs
  PROVE  RunsTyped' /\ Requests' /\ Latest' = Latest
<1>1. RunsTyped' /\ Latest' = Latest
  BY DEF RunsTyped, GoodSplit, Share, Total, Latest
<1>2. Requests'
  <2>1. Latest \in Nat
    BY DEF RunsTyped, Latest
  <2>2. \A q \in 1..Latest' : ~ (q > Latest)
    BY <1>1, <2>1
  <2> QED
    BY <1>1, <2>1, <2>2, RequestsMoved
<1> QED
  BY <1>1, <1>2

LEMMA WalletRenews ==
  ASSUME WebTyped, NEW t \in tx, WalletStep(t)
  PROVE  Renewed
<1>1. MoneyTyped /\ Requests /\ t \in Sends
  BY DEF WebTyped, MoneyTyped
<1>2. CASE Submit(t) \/ Refuse(t)
  BY <1>1, <1>2, BecomesRenewed DEF Submit, Refuse
<1>3. CASE Land(t) \/ Revert(t)
  BY <1>1, <1>3, BecomesRenewed DEF Land, Revert
<1> QED
  BY <1>2, <1>3 DEF WalletStep

LEMMA WalletTyped ==
  ASSUME WebTyped, NEW t \in tx, WalletStep(t)
  PROVE  WebTyped'
<1>1. runs' = runs /\ sponsored' = sponsored /\ hook' = hook /\ dialog' = dialog /\ stale' = stale /\ cached' = cached
  BY DEF WalletStep, Submit, Refuse, Land, Revert
<1>2. Renewed
  BY WalletRenews
<1>3. RunsTyped' /\ Requests' /\ Latest' = Latest
  BY <1>1, <1>2, RunsLeft DEF WebTyped
<1>4. t.chain \in Chain /\ t.amount \in Nat /\ t.kind \in Kinds
  BY DEF WebTyped, MoneyTyped, Sends
<1>5. allowance' \in [Chain -> Nat]
  <2>1. allowance \in [Chain -> Nat]
    BY DEF WebTyped, MoneyTyped
  <2>2. CASE Land(t)
    <3> DEFINE v == IF t.kind = "approve" THEN t.amount ELSE allowance[t.chain] - t.amount
    <3>1. v \in Nat
      BY <1>4, <2>1, <2>2 DEF Land, Kinds
    <3>2. allowance' = [allowance EXCEPT ![t.chain] = v]
      BY <2>2 DEF Land
    <3> HIDE DEF v
    <3> QED
      BY <2>1, <3>1, <3>2
  <2>3. CASE ~ Land(t)
    BY <2>1, <2>3 DEF WalletStep, Submit, Refuse, Revert
  <2> QED
    BY <2>2, <2>3
<1>6. MoneyTyped'
  BY <1>1, <1>2, <1>5 DEF Renewed, MoneyTyped, WebTyped
<1>7. DialogTyped'
  BY <1>1, <1>3 DEF WebTyped, DialogTyped, dialog, hook
<1> QED
  BY <1>3, <1>6, <1>7 DEF WebTyped

LEMMA LatestIs ==
  ASSUME RunsTyped
  PROVE  /\ Latest \in Nat /\ Latest <= MaxRuns /\ MaxRuns \in Nat /\ DOMAIN runs = 1..Latest
         /\ \A r \in 1..Latest : r \in Run
BY WebConstants DEF RunsTyped, Latest, Run

\* A deposit that is confirmed starts the next run, and aborts what there was.
LEMMA ConfirmDoes ==
  ASSUME RunsTyped, NEW split \in Splits, Confirm(split)
  PROVE  /\ Latest' = Latest + 1 /\ Latest + 1 \in Run /\ runs' \in Seq(RunState)
         /\ \A q \in 1..Latest : /\ runs'[q].split = runs[q].split /\ runs'[q].pc = runs[q].pc
                                 /\ runs'[q].at = runs[q].at /\ runs'[q].aborted
                                 /\ runs'[q].deaf = runs[q].deaf /\ runs'[q].need = runs[q].need
         /\ runs'[Latest + 1].split = split /\ GoodSplit(split)
         /\ runs'[Latest + 1].pc = "next" /\ runs'[Latest + 1].at = 1
<1> DEFINE old == [q \in DOMAIN runs |-> [runs[q] EXCEPT !.aborted = TRUE]]
           new == [NoRun EXCEPT !.pc = "next", !.at = 1, !.split = split,
                                !.need = NeedsApproval(split)]
<1>1. runs' = Append(old, new) /\ Latest + 1 \in Run /\ split # <<>>
  BY DEF Confirm
<1>2. PICK n \in Nat : n = Latest /\ DOMAIN runs = 1..n
  BY LatestIs
<1>3. GoodSplit(split)
  BY <1>1, SplitsGood
<1>4. split \in Seq(Share)
  BY <1>3 DEF GoodSplit
<1>5. NeedsApproval(split) \subseteq Chain
  <2>1. \A i \in DOMAIN split : split[i] \in Share
    BY <1>4
  <2>2. \A i \in DOMAIN split : split[i].chain \in Chain
    BY <2>1 DEF Share
  <2> QED
    BY <2>2 DEF NeedsApproval
<1>6. PICK need \in SUBSET Chain : need = NeedsApproval(split)
  BY <1>5
<1>7. /\ new \in RunState /\ new.split = split /\ new.pc = "next" /\ new.at = 1
  <2> DEFINE Fresh == [pc : {"none", "next"}, at : {0, 1}, split : {<<>>, split},
                       need : {{}, need}, aborted : {FALSE}, timedOut : {FALSE}, deaf : {FALSE}]
  <2>1. NoRun \in Fresh
    BY DEF NoRun
  <2>2. new = [NoRun EXCEPT !.pc = "next", !.at = 1, !.split = split, !.need = need]
    BY <1>6
  <2>3. new \in Fresh
    BY <2>1, <2>2
  <2>4. new.pc = "next" /\ new.at = 1 /\ new.split = split
    BY <2>1, <2>2
  <2>5. new.need = need
    BY <2>1, <2>2
  <2> HIDE DEF new
  <2>6. new = [pc |-> "next", at |-> 1, split |-> split, need |-> need,
               aborted |-> FALSE, timedOut |-> FALSE, deaf |-> FALSE]
    BY <2>3, <2>4, <2>5
  <2> QED
    BY <1>4, <2>4, <2>6 DEF RunState
<1>8. \A q \in 1..n : /\ old[q] \in RunState /\ old[q].split = runs[q].split
                      /\ old[q].pc = runs[q].pc /\ old[q].at = runs[q].at /\ old[q].aborted
                      /\ old[q].deaf = runs[q].deaf /\ old[q].need = runs[q].need
  <2> SUFFICES ASSUME NEW q \in 1..n
               PROVE  /\ old[q] \in RunState /\ old[q].split = runs[q].split
                      /\ old[q].pc = runs[q].pc /\ old[q].at = runs[q].at /\ old[q].aborted
                      /\ old[q].deaf = runs[q].deaf /\ old[q].need = runs[q].need
    OBVIOUS
  <2>1. runs[q] \in RunState /\ old[q] = [runs[q] EXCEPT !.aborted = TRUE]
    BY <1>2, RunIs
  <2> HIDE DEF old
  <2> QED
    BY <2>1 DEF RunState
<1>9. old \in Seq(RunState) /\ Len(old) = n
  <2>1. old \in [1..n -> RunState]
    BY <1>2, <1>8
  <2> HIDE DEF old
  <2> QED
    BY <2>1
<1> HIDE DEF old, new
<1>10. /\ runs' \in Seq(RunState) /\ Len(runs') = n + 1 /\ runs'[n + 1] = new
       /\ \A q \in 1..n : runs'[q] = old[q]
  BY <1>1, <1>7, <1>9
<1> QED
  BY <1>1, <1>2, <1>3, <1>7, <1>8, <1>10 DEF Latest

LEMMA ConfirmTyped ==
  ASSUME WebTyped, NEW split \in Splits, Confirm(split)
  PROVE  WebTyped'
<1>1. PICK n \in Nat : /\ n = Latest /\ n + 1 = Latest' /\ n + 1 \in Run /\ n + 1 <= MaxRuns
                       /\ runs' \in Seq(RunState)
  BY LatestIs, ConfirmDoes DEF WebTyped, Run
<1>2. /\ \A q \in 1..n : /\ runs'[q].split = runs[q].split /\ runs'[q].pc = runs[q].pc
                         /\ runs'[q].at = runs[q].at
      /\ runs'[n + 1].split = split /\ GoodSplit(split)
      /\ runs'[n + 1].pc = "next" /\ runs'[n + 1].at = 1
  BY <1>1, ConfirmDoes DEF WebTyped
<1>3. \A q \in 1..Latest' : q \in 1..n \/ q = n + 1
  BY <1>1
<1>4. RunsTyped'
  <2>1. ASSUME NEW q \in 1..Latest'
        PROVE  /\ GoodSplit(runs'[q].split)
               /\ runs'[q].at <= Len(runs'[q].split) + 1
               /\ runs'[q].pc \in {"resolve"} \cup Kinds => runs'[q].at <= Len(runs'[q].split)
    <3>1. CASE q \in 1..n
      BY <1>1, <1>2, <3>1 DEF WebTyped, RunsTyped
    <3>2. CASE q = n + 1
      <4>1. Len(split) \in Nat
        BY <1>2 DEF GoodSplit
      <4> QED
        BY <1>2, <3>2, <4>1 DEF Kinds
    <3> QED
      BY <1>3, <3>1, <3>2
  <2> QED
    BY <1>1, <2>1 DEF RunsTyped, GoodSplit, Share, Total
<1>5. tx' = tx /\ allowance' = allowance /\ cached' = cached /\ sponsored' = sponsored /\ mounted' = mounted
  BY DEF Confirm, money
<1>6. Requests'
  <2>1. Renewed
    BY <1>5, SameRenewed DEF WebTyped
  <2>2. \A q \in 1..Latest' : q > Latest => runs'[q].pc = "next"
    BY <1>1, <1>2, <1>3
  <2>3. Latest' \in Nat /\ Latest <= Latest'
    BY <1>1
  <2>4. \A q \in 1..Latest : /\ runs'[q].split = runs[q].split
                             /\ runs'[q].pc = runs[q].pc /\ runs'[q].at = runs[q].at
    BY <1>1, <1>2
  <2> QED
    BY <2>1, <2>2, <2>3, <2>4, RequestsMoved DEF WebTyped
<1>7. MoneyTyped'
  BY <1>5 DEF WebTyped, MoneyTyped
<1>8. DialogTyped'
  <2> DEFINE S == {split[i].chain : i \in DOMAIN split}
             rows == [c \in S |-> "idle"]
  <2>1. rows \in Rows
    <3>1. split \in Seq(Share)
      BY <1>2 DEF GoodSplit
    <3>0. \A i \in DOMAIN split : split[i] \in Share
      BY <3>1
    <3>2. \A i \in DOMAIN split : split[i].chain \in Chain
      BY <3>0 DEF Share
    <3>3. S \in SUBSET Chain
      BY <3>2
    <3>4. rows \in [S -> RowStates]
      BY DEF RowStates
    <3> HIDE DEF S
    <3> QED
      BY <3>3, <3>4 DEF Rows
  <2>2. /\ status' = rows /\ isExecuting' = TRUE /\ completedCount' = 0 /\ hasErrors' = FALSE
        /\ stale' = TRUE /\ phase' = "executing" /\ parent' = n + 1
        /\ record' = [record EXCEPT ![n + 1] = [status |-> "signing", rows |-> rows]]
    BY <1>1 DEF Confirm
  <2> HIDE DEF rows
  <2>3. [status |-> "signing", rows |-> rows] \in Docked
    BY <2>1 DEF Docked
  <2>4. record' \in [Run -> Docked]
    BY <1>1, <2>2, <2>3 DEF WebTyped, DialogTyped
  <2>5. 0 \in 0..Cardinality(Chain)
    BY WebConstants, FS_CardinalityType
  <2>6. parent' \in {None} \cup 1..Latest' /\ Latest' # 0
    BY <1>1, <2>2
  <2> QED
    BY <1>5, <2>1, <2>2, <2>4, <2>5, <2>6 DEF WebTyped, DialogTyped
<1> QED
  BY <1>4, <1>6, <1>7, <1>8 DEF WebTyped

\* Back to the preview: a run that is under way is aborted.
LEMMA BackDoes ==
  ASSUME WebTyped, BackToPreview
  PROVE  /\ Latest \in 1..Latest
         /\ \/ Alive(Latest) /\ Abort(Latest, FALSE)
            \/ runs[Latest].pc = "done" /\ runs' = runs /\ tx' = tx
<1>1. Latest # 0 /\ Latest \in Nat
  BY LatestIs DEF BackToPreview, WebTyped, DialogTyped
<1>2. Latest \in 1..Latest
  BY <1>1
<1>3. runs[Latest].pc # "none"
  BY <1>2, RunIs DEF WebTyped, RunState, Kinds
<1> QED
  BY <1>2, <1>3 DEF BackToPreview, Alive

LEMMA BackTyped ==
  ASSUME WebTyped, BackToPreview
  PROVE  WebTyped' /\ Latest' = Latest /\ Renewed
<1>1. /\ allowance' = allowance /\ cached' = cached /\ sponsored' = sponsored
      /\ parent' = parent /\ record' = record /\ mounted' = mounted
      /\ phase' = "preview" /\ status' = NoRows /\ isExecuting' = FALSE
      /\ completedCount' = 0 /\ hasErrors' = FALSE /\ stale' = TRUE
  BY DEF BackToPreview, ResetHook
<1>2. RunsTyped' /\ MoneyTyped' /\ Requests' /\ Latest' = Latest /\ Renewed
  <2>1. CASE Abort(Latest, FALSE)
    <3>1. FALSE \in BOOLEAN /\ Latest \in 1..Latest
      BY BackDoes
    <3> QED
      BY <1>1, <2>1, <3>1, AbortTyped DEF WebTyped
  <2>2. CASE runs' = runs /\ tx' = tx
    <3>1. Renewed
      BY <2>2, SameRenewed DEF WebTyped
    <3> QED
      BY <1>1, <2>2, <3>1, RunsLeft DEF WebTyped, MoneyTyped
  <2> QED
    BY <2>1, <2>2, BackDoes
<1>3. NoRows \in Rows /\ DOMAIN NoRows = {}
  <2>1. {} \in SUBSET Chain /\ NoRows \in [{} -> RowStates]
    BY DEF NoRows
  <2> QED
    BY <2>1 DEF Rows, NoRows
<1>4. 0 \in 0..Cardinality(Chain)
  BY WebConstants, FS_CardinalityType
<1>5. DialogTyped'
  BY <1>1, <1>2, <1>3, <1>4 DEF WebTyped, DialogTyped
<1> QED
  BY <1>2, <1>5 DEF WebTyped

LEMMA QuietTyped ==
  ASSUME WebTyped, runs' = runs, tx' = tx, allowance' = allowance, cached' \in [Chain -> Nat]
  PROVE  RunsTyped' /\ MoneyTyped' /\ Requests' /\ Latest' = Latest /\ Renewed
<1>1. Renewed
  BY SameRenewed DEF WebTyped
<1> QED
  BY <1>1, RunsLeft DEF WebTyped, MoneyTyped

\* What the effects do to the dock.
LEMMA MirrorDoes ==
  ASSUME WebTyped, Effects
  PROVE  /\ record' \in [Run -> Docked] /\ parent' \in {None, parent}
         /\ \A r \in Run : r # parent => record'[r] = record[r]
         /\ parent' # None /\ parent' \in Run => record'[parent'].status = record[parent'].status
<1>1. /\ record \in [Run -> Docked] /\ parent \in {None} \cup Run /\ status \in Rows
  BY LatestIs DEF WebTyped, DialogTyped
<1>2. CASE parent = None \/ DOMAIN status = {}
  BY <1>1, <1>2 DEF Effects, Mirror
<1>3. CASE ~ (parent = None \/ DOMAIN status = {})
  <2> DEFINE s == IF AllConfirmed THEN "confirmed"
                  ELSE IF SomeFailed THEN "failed" ELSE record[parent].status
             new == [status |-> s, rows |-> status]
  <2>1. parent \in Run /\ record[parent] \in Docked
    BY <1>1, <1>3
  <2>2. new \in Docked
    BY <1>1, <2>1 DEF Docked
  <2>3. record' = [record EXCEPT ![parent] = new]
    BY <1>1, <1>3, <2>1 DEF Effects, Mirror
  <2>4. parent' = IF AllConfirmed \/ SomeFailed THEN None ELSE parent
    BY <1>3 DEF Effects, Mirror
  <2>5. ~ (AllConfirmed \/ SomeFailed) => s = record[parent].status
    OBVIOUS
  <2>6. new.status = s
    OBVIOUS
  <2> HIDE DEF s, new
  <2>7. record' \in [Run -> Docked] /\ record'[parent] = new
        /\ \A r \in Run : r # parent => record'[r] = record[r]
    BY <1>1, <2>1, <2>2, <2>3
  <2> QED
    BY <2>4, <2>5, <2>6, <2>7
<1> QED
  BY <1>2, <1>3

LEMMA EffectsTyped ==
  ASSUME WebTyped, Effects
  PROVE  WebTyped'
<1>1. /\ sponsored' = sponsored /\ runs' = runs /\ hook' = hook /\ mounted' = mounted
      /\ tx' = tx /\ allowance' = allowance /\ cached' = cached /\ stale' = FALSE
      /\ phase' = PhaseAfter
  BY DEF Effects, money
<1>2. cached' \in [Chain -> Nat]
  BY <1>1 DEF WebTyped, MoneyTyped
<1>3. RunsTyped' /\ MoneyTyped' /\ Requests' /\ Latest' = Latest
  BY <1>1, <1>2, QuietTyped
<1>4. record' \in [Run -> Docked] /\ parent' \in {None, parent}
  BY MirrorDoes
<1>5. /\ phase' \in {"preview", "executing", "complete", "error"}
      /\ Latest = 0 => phase' = "preview"
  BY <1>1 DEF PhaseAfter, WebTyped, DialogTyped
<1>6. DialogTyped'
  BY <1>1, <1>3, <1>4, <1>5 DEF WebTyped, DialogTyped, hook
<1> QED
  BY <1>3, <1>6 DEF WebTyped

LEMMA OtherTyped ==
  ASSUME WebTyped, (\E c \in Chain : Refetch(c)) \/ SafetyTimeout \/ Leave \/ UNCHANGED vars
  PROVE  WebTyped'
<1>1. /\ sponsored' = sponsored /\ runs' = runs /\ hook' = hook /\ parent' = parent
      /\ record' = record /\ tx' = tx /\ allowance' = allowance /\ stale' = stale
  BY DEF Refetch, SafetyTimeout, Leave, vars, hook, dialog, money
<1>2. cached' \in [Chain -> Nat]
  <2>1. cached \in [Chain -> Nat] /\ \A c \in Chain : {0, allowance[c]} \subseteq Nat
    BY DEF WebTyped, MoneyTyped
  <2> QED
    BY <2>1 DEF Refetch, SafetyTimeout, Leave, vars, hook, dialog, money
<1>3. RunsTyped' /\ MoneyTyped' /\ Requests' /\ Latest' = Latest
  BY <1>1, <1>2, QuietTyped
<1>4. /\ phase' = phase \/ (phase = "executing" /\ phase' = "error")
      /\ mounted' \in BOOLEAN
  BY DEF Refetch, SafetyTimeout, Leave, vars, dialog, WebTyped, DialogTyped
<1>5. DialogTyped'
  BY <1>1, <1>3, <1>4 DEF WebTyped, DialogTyped, hook
<1> QED
  BY <1>3, <1>5 DEF WebTyped

LEMMA TypedStep ==
  ASSUME WebTyped, [Next]_vars
  PROVE  WebTyped'
<1>1. DOMAIN runs = 1..Latest
  BY LatestIs DEF WebTyped
<1>2. CASE \E r \in DOMAIN runs : RunStep(r) \/ TimerStep(r) \/ SenderStep(r)
  BY <1>1, <1>2, RunStepTyped, ExecutionTimeoutTyped DEF TimerStep
<1>3. CASE \E t \in tx : WalletStep(t)
  BY <1>3, WalletTyped
<1>4. CASE UserStep
  BY <1>4, ConfirmTyped, BackTyped, OtherTyped DEF UserStep, Retry, Close
<1>5. CASE (\E c \in Chain : Refetch(c)) \/ SafetyTimeout \/ UNCHANGED vars
  BY <1>5, OtherTyped
<1>6. CASE Effects
  BY <1>6, EffectsTyped
<1> QED
  BY <1>2, <1>3, <1>4, <1>5, <1>6 DEF Next

-----------------------------------------------------------------------------
(* With the user's own wallet: one run, one request.                       *)

LEMMA LastOnly ==
  ASSUME RunsTyped, OneRun, ~ sponsored, NEW r \in 1..Latest, runs[r].pc # "done"
  PROVE  r = Latest /\ \A q \in 1..Latest : q # r => runs[q].pc = "done"
<1>1. \A q \in 1..Latest : q < Latest => runs[q].pc = "done"
  BY DEF OneRun
<1>2. Latest \in Nat
  BY LatestIs
<1> QED
  BY <1>1, <1>2

LEMMA OpenIsPending ==
  ASSUME OneRun, ~ sponsored, NEW t \in tx, Open(t)
  PROVE  IsPending(t)
BY DEF OneRun, Unanswered, Open

LEMMA NoneOpen ==
  ASSUME WebTyped, OneRun, ~ sponsored,
         \A r \in 1..Latest : Waiting(r) => ~ Open(Pending(r))
  PROVE  \A t \in tx : ~ Open(t)
<1> SUFFICES ASSUME NEW t \in tx, Open(t) PROVE FALSE
  OBVIOUS
<1>1. IsPending(t)
  BY OpenIsPending
<1>2. t.run \in 1..Latest /\ Waiting(t.run)
  BY <1>1 DEF IsPending
<1>3. t = Pending(t.run)
  BY <1>1, <1>2, PendingIs DEF WebTyped
<1> QED
  BY <1>2, <1>3

\* The run that is under way comes to its next row, or to its end.
LEMMA MovedOne ==
  ASSUME WebTyped, WebTyped', OneRun, ~ sponsored, sponsored' = sponsored,
         NEW r \in 1..Latest, runs[r].pc # "done", OnlyRun(r), runs'[r].pc \in {"next", "done"},
         phase' = phase \/ runs'[r].aborted, \A t \in tx' : ~ Open(t)
  PROVE  OneRun' /\ Allowed'
<1>1. /\ r = Latest /\ \A q \in 1..Latest : q # r => runs[q].pc = "done"
  BY LastOnly DEF WebTyped
<1>2. Latest' = Latest /\ Latest \in Nat
  BY LatestIs DEF OnlyRun, Latest, WebTyped
<1>3. \A q \in 1..Latest : q # r => runs'[q].pc = "done"
  BY <1>1 DEF OnlyRun
<1>4. \A q \in 1..Latest' : ~ Waiting(q)'
  BY <1>2, <1>3 DEF Waiting
<1>5. /\ \A q \in 1..Latest' : q < Latest' => runs'[q].pc = "done"
      /\ \A q \in 1..Latest' : runs'[q].pc # "resolve"
  BY <1>1, <1>2, <1>3
<1>6. phase' = "preview" => runs'[r].pc = "done" \/ (runs'[r].pc = "next" /\ runs'[r].aborted)
  <2>1. phase = "preview" => runs[r].pc = "done" \/ (runs[r].pc = "next" /\ runs[r].aborted)
    BY <1>1, <1>2 DEF OneRun
  <2> QED
    BY <2>1 DEF OnlyRun
<1>7. Unanswered' = {}
  BY DEF Unanswered, Open
<1>8. OneRun'
  BY <1>1, <1>2, <1>4, <1>5, <1>6, <1>7 DEF OneRun
<1>9. \A t \in tx' : ~ IsPending(t)'
  BY <1>4 DEF IsPending
<1> QED
  BY <1>8, <1>9 DEF Allowed

\* The run that is under way asks.
LEMMA AskedOne ==
  ASSUME WebTyped, WebTyped', OneRun, ~ sponsored, sponsored' = sponsored, phase' = phase,
         NEW r \in 1..Latest, runs[r].pc # "done", ~ runs[r].aborted, AtRow(r),
         NEW k \in Kinds, Ask(r, k),
         ~ Waiting(r) \/ (runs[r].pc = "approve" /\ k = "deposit"),
         \A t \in tx : ~ Open(t), allowance' = allowance,
         (\A t \in tx : ~ t.given) /\ k = "deposit" /\ Here(r) \in runs[r].need =>
           Row(r).amount <= allowance[Here(r)]
  PROVE  OneRun' /\ Allowed'
<1>1. r = Latest /\ \A q \in 1..Latest : q # r => runs[q].pc = "done"
  BY LastOnly DEF WebTyped
<1>2. /\ OnlyRun(r) /\ runs'[r].pc = k /\ ~ runs'[r].aborted /\ ~ runs'[r].deaf
  BY AskDoes DEF WebTyped
<1>3. Latest' = Latest /\ Latest \in Nat
  BY <1>2, LatestIs DEF OnlyRun, Latest, WebTyped
<1>4. \A q \in 1..Latest : q # r => runs'[q].pc = "done"
  BY <1>1, <1>2 DEF OnlyRun
<1>5. PICK s : s = SendAsked(r, k) /\ tx' = tx \cup {s} /\ IsPending(s)'
  BY AskRequests DEF WebTyped, RunsTyped
<1>6. phase # "preview"
  BY <1>1, <1>3 DEF OneRun
<1>7. /\ \A q \in 1..Latest' : q < Latest' => runs'[q].pc = "done"
      /\ \A q \in 1..Latest' : runs'[q].pc # "resolve"
      /\ \A q \in 1..Latest' : Waiting(q)' => ~ runs'[q].aborted /\ ~ runs'[q].deaf
  BY <1>1, <1>2, <1>3, <1>4 DEF Waiting, Kinds
<1>8. \A t \in Unanswered' : IsPending(t)'
  BY <1>5 DEF Unanswered, Open
<1>9. OneRun'
  BY <1>6, <1>7, <1>8 DEF OneRun
<1>10. ASSUME \A t \in tx' : ~ t.given, NEW t \in tx', IsPending(t)'
       PROVE  /\ t.kind = "approve" /\ t.state = "landed" => allowance'[t.chain] = t.amount
              /\ t.kind = "deposit" /\ t.state \in {"asked", "sent"}
                   /\ t.chain \in runs'[t.run].need => t.amount <= allowance'[t.chain]
  <2>1. s.run = r /\ s.kind = k /\ s.chain = Here(r) /\ s.amount = Row(r).amount /\ s.state = "asked"
    BY <1>5 DEF SendAsked
  <2>2. t.run \in 1..Latest /\ runs'[t.run].pc \in Kinds
    BY <1>3, <1>10 DEF IsPending, Waiting, Kinds
  <2>3. t.run = r
    BY <1>4, <2>2 DEF Kinds
  <2>4. t.kind = s.kind /\ t.chain = s.chain /\ t.run = s.run
    BY <1>5, <1>10, <2>1, <2>3 DEF IsPending
  <2>5. t = s
    BY <1>5, <2>4 DEF WebTyped, Requests
  <2>6. runs'[r].need = runs[r].need
    BY <1>2 DEF OnlyRun
  <2>7. \A u \in tx : ~ u.given
    BY <1>5, <1>10
  <2> QED
    BY <2>1, <2>3, <2>5, <2>6, <2>7
<1>11. Allowed'
  BY <1>10 DEF Allowed
<1> QED
  BY <1>9, <1>11

\* The run that is under way is aborted.
LEMMA AbortedOne ==
  ASSUME WebTyped, WebTyped', OneRun, ~ sponsored, sponsored' = sponsored,
         NEW r \in 1..Latest, runs[r].pc # "done", NEW late \in BOOLEAN, Abort(r, late)
  PROVE  OneRun' /\ Allowed'
<1>1. RunsTyped /\ MoneyTyped /\ Requests
  BY DEF WebTyped
<1>2. r = Latest /\ \A q \in 1..Latest : q # r => runs[q].pc = "done"
  BY <1>1, LastOnly
<1>3. OnlyRun(r) /\ runs'[r].aborted
  BY <1>1, AbortDoes
<1>4. runs[r].pc # "resolve" /\ (Waiting(r) => ~ runs[r].deaf)
  BY DEF OneRun
<1>5. CASE Waiting(r)
  <2>1. runs'[r].pc = "next" /\ tx' = GivenUp(r)
    BY <1>1, <1>4, <1>5, AbortDoes DEF Heard
  <2>2. \A s \in tx' : ~ Open(s)
    <3> SUFFICES ASSUME NEW s \in tx', Open(s) PROVE FALSE
      OBVIOUS
    <3>1. PICK t \in tx : Open(t) /\ t # Pending(r)
      BY <1>1, <1>5, <2>1, GivenUpRenewed
    <3>2. IsPending(t)
      BY <3>1, OpenIsPending
    <3>3. t.run = r
      BY <1>2, <3>2 DEF IsPending, Waiting
    <3> QED
      BY <1>1, <1>5, <3>1, <3>2, <3>3, PendingIs
  <2> QED
    BY <1>3, <2>1, <2>2, MovedOne
<1>6. CASE ~ Waiting(r)
  <2>1. runs'[r].pc = runs[r].pc /\ tx' = tx
    BY <1>1, <1>6, AbortDoes DEF Heard
  <2>2. runs[r].pc = "next"
    BY <1>1, <1>4, <1>6, RunIs DEF RunState, Waiting, Kinds
  <2>3. \A q \in 1..Latest : ~ Waiting(q)
    BY <1>2, <1>6 DEF Waiting
  <2>4. \A s \in tx' : ~ Open(s)
    BY <2>1, <2>3, NoneOpen
  <2> QED
    BY <1>3, <2>1, <2>2, <2>4, MovedOne
<1> QED
  BY <1>5, <1>6

LEMMA SponsorStays ==
  ASSUME [Next]_vars
  PROVE  sponsored' = sponsored
BY DEF Next, vars, RunStep, TimerStep, SenderStep, WalletStep, UserStep, FinishRun, StartRow,
       RowFails, ApprovalAnswered, DepositAnswered, SendFailed, SendTimeout, ExecutionTimeout,
       SenderResolved, SenderFailed, Submit, Refuse, Land, Revert, Refetch, Confirm, Retry,
       Close, BackToPreview, Leave, Effects, SafetyTimeout

\* Nobody else waits for an answer, and this one has it.
LEMMA AnsweredNoneOpen ==
  ASSUME WebTyped, OneRun, ~ sponsored, NEW r \in 1..Latest, runs[r].pc # "done",
         Waiting(r) => ~ Open(Pending(r))
  PROVE  \A t \in tx : ~ Open(t)
<1>1. \A q \in 1..Latest : Waiting(q) => q = r
  BY LastOnly DEF Waiting, WebTyped
<1> QED
  BY <1>1, NoneOpen

LEMMA RunStepOne ==
  ASSUME WebTyped, WebTyped', OneRun, Allowed, ~ sponsored, sponsored' = sponsored,
         NEW r \in 1..Latest, RunStep(r) \/ SenderStep(r) \/ SendTimeout(r)
  PROVE  OneRun' /\ Allowed'
<1>1. RunsTyped /\ MoneyTyped /\ Requests
  BY DEF WebTyped
<1>2. CASE FinishRun(r)
  <2>1. Goto(r, "done") /\ runs[r].pc = "next" /\ tx' = tx /\ phase' = phase
    BY <1>2 DEF FinishRun, money, dialog
  <2>2. OnlyRun(r) /\ runs'[r].pc = "done"
    BY <1>1, <2>1, GotoDoes
  <2>3. \A t \in tx' : ~ Open(t)
    BY <2>1, AnsweredNoneOpen DEF Waiting
  <2> QED
    BY <2>1, <2>2, <2>3, MovedOne
<1>3. CASE StartRow(r)
  <2>1. /\ runs[r].pc = "next" /\ ~ NoMoreRows(r) /\ phase' = phase /\ allowance' = allowance
        /\ FirstSend(r)
    BY <1>3 DEF StartRow, dialog
  <2>2. AtRow(r) /\ ~ runs[r].aborted /\ ~ Waiting(r)
    BY <1>1, <2>1, AtARow DEF NoMoreRows, Waiting
  <2>3. \A t \in tx : ~ Open(t)
    BY <2>1, <2>2, AnsweredNoneOpen
  <2>4. CASE Here(r) \in runs[r].need
    <3>1. Ask(r, "approve") /\ "approve" \in Kinds /\ "approve" # "deposit"
      BY <2>1, <2>4 DEF FirstSend, Kinds
    <3> QED
      BY <2>1, <2>2, <2>3, <3>1, AskedOne
  <2>5. CASE Here(r) \notin runs[r].need
    <3>1. Ask(r, "deposit") /\ "deposit" \in Kinds
      BY <2>1, <2>5 DEF FirstSend, Kinds
    <3> QED
      BY <2>1, <2>2, <2>3, <2>5, <3>1, AskedOne
  <2> QED
    BY <2>4, <2>5
<1>4. CASE RowFails(r)
  <2>1. NextRow(r) /\ runs[r].pc = "next" /\ tx' = tx /\ phase' = phase
    BY <1>4 DEF RowFails, money, dialog
  <2>2. OnlyRun(r) /\ runs'[r].pc = "next"
    BY <1>1, <2>1, NextRowDoes
  <2>3. \A t \in tx' : ~ Open(t)
    BY <2>1, AnsweredNoneOpen DEF Waiting
  <2> QED
    BY <2>1, <2>2, <2>3, MovedOne
<1>5. CASE ApprovalAnswered(r)
  <2>1. /\ runs[r].pc = "approve" /\ phase' = phase /\ allowance' = allowance
        /\ Answered(Pending(r)) /\ Waiting(r)
    BY <1>5 DEF ApprovalAnswered, dialog, Waiting
  <2>2. AtRow(r) /\ ~ runs[r].aborted
    BY <1>1, <2>1, AtARow DEF OneRun
  <2>3. Ask(r, "deposit") /\ "deposit" \in Kinds
    BY <1>5, <2>2 DEF ApprovalAnswered, Kinds
  <2>4. /\ Pending(r) \in tx /\ IsPending(Pending(r)) /\ Pending(r).kind = "approve"
        /\ Pending(r).chain = Here(r) /\ Pending(r).amount = Row(r).amount
    BY <1>1, <2>1, PendingIs
  <2>5. Pending(r).state = "landed"
    BY <2>1, <2>4 DEF Answered, WebTyped, MoneyTyped
  <2>6. \A t \in tx : ~ Open(t)
    BY <2>1, <2>5, AnsweredNoneOpen DEF Open
  <2>7. (\A t \in tx : ~ t.given) => Row(r).amount <= allowance[Here(r)]
    <3>1. HAVE \A t \in tx : ~ t.given
    <3>2. allowance[Here(r)] = Row(r).amount
      BY <2>4, <2>5, <3>1 DEF Allowed
    <3>3. Row(r).amount \in Nat
      BY <1>1, <2>2, HereIs
    <3> QED
      BY <3>2, <3>3
  <2> QED
    BY <2>1, <2>2, <2>3, <2>6, <2>7, AskedOne
<1>6. CASE DepositAnswered(r)
  <2>1. /\ NextRow(r) /\ runs[r].pc = "deposit" /\ tx' = tx /\ phase' = phase
        /\ Answered(Pending(r))
    BY <1>6 DEF DepositAnswered, money, dialog
  <2>2. OnlyRun(r) /\ runs'[r].pc = "next"
    BY <1>1, <2>1, NextRowDoes
  <2>3. \A t \in tx' : ~ Open(t)
    BY <2>1, AnsweredNoneOpen DEF Answered, Open
  <2> QED
    BY <2>1, <2>2, <2>3, MovedOne
<1>7. CASE SendFailed(r)
  <2>1. /\ NextRow(r) /\ Waiting(r) /\ tx' = tx /\ phase' = phase
        /\ Pending(r).state = "refused"
    BY <1>7 DEF SendFailed, Caught, money, dialog
  <2>2. OnlyRun(r) /\ runs'[r].pc = "next"
    BY <1>1, <2>1, NextRowDoes
  <2>3. \A t \in tx' : ~ Open(t)
    BY <2>1, AnsweredNoneOpen DEF Open, Waiting
  <2> QED
    BY <2>1, <2>2, <2>3, MovedOne DEF Waiting
<1>8. CASE SenderStep(r)
  BY <1>8 DEF SenderStep, SenderResolved, SenderFailed, OneRun
<1>9. CASE SendTimeout(r)
  <2>1. /\ NextRow(r) /\ Waiting(r) /\ tx' = GivenUp(r) /\ phase' = phase
    BY <1>9 DEF SendTimeout, Caught, dialog
  <2>2. OnlyRun(r) /\ runs'[r].pc = "next"
    BY <1>1, <2>1, NextRowDoes
  <2>3. \A s \in tx' : ~ Open(s)
    <3> SUFFICES ASSUME NEW s \in tx', Open(s) PROVE FALSE
      OBVIOUS
    <3>1. PICK t \in tx : Open(t) /\ t # Pending(r)
      BY <1>1, <2>1, GivenUpRenewed
    <3>2. IsPending(t)
      BY <3>1, OpenIsPending
    <3>3. t.run \in 1..Latest /\ runs[t.run].pc # "done" /\ runs[r].pc # "done"
      BY <2>1, <3>2 DEF IsPending, Waiting
    <3>4. t.run = r
      BY <1>1, <3>3, LastOnly
    <3> QED
      BY <1>1, <2>1, <3>1, <3>2, <3>4, PendingIs
  <2> QED
    BY <2>1, <2>2, <2>3, MovedOne DEF Waiting
<1> QED
  BY <1>2, <1>3, <1>4, <1>5, <1>6, <1>7, <1>8, <1>9 DEF RunStep

LEMMA WalletOne ==
  ASSUME WebTyped, WebTyped', OneRun, Allowed, ~ sponsored, sponsored' = sponsored,
         NEW u \in tx, WalletStep(u)
  PROVE  OneRun' /\ Allowed'
<1>1. runs' = runs /\ phase' = phase /\ Latest' = Latest
  BY DEF WalletStep, Submit, Refuse, Land, Revert, dialog, Latest
<1>2. Renewed /\ RunsTyped /\ MoneyTyped /\ Requests
  BY WalletRenews DEF WebTyped
<1>3. \A s, t : Alike(s, t) /\ IsPending(t) => IsPending(s)'
  BY <1>1 DEF Alike, IsPending, Waiting, Here, Row
<1>4. \A s, t : Alike(s, t) /\ IsPending(s)' => IsPending(t)
  BY <1>1 DEF Alike, IsPending, Waiting, Here, Row
<1>5. \A s \in Unanswered' : IsPending(s)'
  <2> SUFFICES ASSUME NEW s \in tx', Open(s) PROVE IsPending(s)'
    BY DEF Unanswered, Open
  <2>1. PICK t \in tx : Alike(s, t) /\ Open(t)
    BY <1>2 DEF Renewed
  <2> QED
    BY <1>3, <2>1, OpenIsPending
<1>6. OneRun'
  BY <1>1, <1>5 DEF OneRun, Waiting
<1>7. ASSUME \A t \in tx' : ~ t.given, NEW s \in tx', IsPending(s)'
      PROVE  /\ s.kind = "approve" /\ s.state = "landed" => allowance'[s.chain] = s.amount
             /\ s.kind = "deposit" /\ s.state \in {"asked", "sent"}
                  /\ s.chain \in runs'[s.run].need => s.amount <= allowance'[s.chain]
  <2>1. \A t \in tx : ~ t.given
    BY <1>2, <1>7 DEF Renewed
  <2> DEFINE After(v) == (tx \ {u}) \cup {[u EXCEPT !.state = v]}
  <2>0. /\ Submit(u) => tx' = After("sent")
        /\ Refuse(u) => tx' = After("refused")
        /\ Land(u) => tx' = After("landed")
        /\ Revert(u) => tx' = After("reverted")
    BY DEF Submit, Refuse, Land, Revert, Becomes
  <2>2. PICK v : /\ tx' = After(v)
                 /\ \/ Submit(u) /\ v = "sent"
                    \/ Refuse(u) /\ v = "refused"
                    \/ Land(u) /\ v = "landed"
                    \/ Revert(u) /\ v = "reverted"
    <3> HIDE DEF After
    <3>1. CASE Submit(u)
      <4> WITNESS "sent"
      <4> QED
        BY <2>0, <3>1
    <3>2. CASE Refuse(u)
      <4> WITNESS "refused"
      <4> QED
        BY <2>0, <3>2
    <3>3. CASE Land(u)
      <4> WITNESS "landed"
      <4> QED
        BY <2>0, <3>3
    <3>4. CASE Revert(u)
      <4> WITNESS "reverted"
      <4> QED
        BY <2>0, <3>4
    <3> QED
      BY <3>1, <3>2, <3>3, <3>4 DEF WalletStep
  <2>3. CASE s \in tx /\ s # u
    <3>1. IsPending(s)
      BY <1>4, <1>7 DEF Alike
    <3>2. allowance' = allowance
      <4>1. ~ Land(u)
        <5> SUFFICES ASSUME Land(u) PROVE FALSE
          OBVIOUS
        <5>1. IsPending(u)
          BY <2>1, OpenIsPending DEF Land, Open
        <5>2. s.run \in 1..Latest /\ u.run \in 1..Latest /\ Waiting(s.run) /\ Waiting(u.run)
          BY <3>1, <5>1 DEF IsPending
        <5>3. s.run = u.run
          BY <1>2, <5>2, LastOnly DEF Waiting
        <5> QED
          BY <1>2, <2>3, <3>1, <5>1, <5>2, <5>3, PendingIs
      <4> QED
        BY <4>1 DEF WalletStep, Submit, Refuse, Revert
    <3> QED
      BY <1>1, <2>1, <2>3, <3>1, <3>2 DEF Allowed
  <2>4. CASE s = [u EXCEPT !.state = v]
    <3>1. u \in Sends
      BY <1>2 DEF MoneyTyped
    <3>2. s.run = u.run /\ s.kind = u.kind /\ s.chain = u.chain /\ s.amount = u.amount /\ s.state = v
      BY <2>4, <3>1 DEF Sends
    <3>3. IsPending(u)
      BY <1>4, <1>7, <3>2 DEF Alike
    <3>4. CASE Submit(u) /\ v = "sent"
      <4>1. u.state = "asked" /\ allowance' = allowance
        BY <3>4 DEF Submit
      <4> QED
        BY <1>1, <2>1, <3>2, <3>3, <3>4, <4>1 DEF Allowed
    <3>5. CASE v \in {"refused", "reverted"} /\ (v = "reverted" => Revert(u))
      BY <3>2, <3>5 DEF Revert
    <3>6. CASE Land(u) /\ v = "landed"
      <4>1. allowance \in [Chain -> Nat] /\ u.chain \in Chain
        BY <1>2, <3>1 DEF MoneyTyped, Sends
      <4>2. u.kind = "approve" => allowance' = [allowance EXCEPT ![u.chain] = u.amount]
        BY <3>6 DEF Land
      <4> QED
        BY <3>2, <3>6, <4>1, <4>2
    <3> QED
      BY <2>2, <3>4, <3>5, <3>6
  <2> QED
    BY <2>2, <2>3, <2>4
<1> QED
  BY <1>6, <1>7 DEF Allowed

LEMMA ConfirmOne ==
  ASSUME WebTyped, WebTyped', OneRun, ~ sponsored, sponsored' = sponsored,
         NEW split \in Splits, Confirm(split)
  PROVE  OneRun' /\ Allowed'
<1>1. PICK n \in Nat : /\ n = Latest /\ n + 1 = Latest'
                       /\ \A q \in 1..n : runs'[q].pc = runs[q].pc
                       /\ runs'[n + 1].pc = "next"
  BY LatestIs, ConfirmDoes DEF WebTyped
<1>2. phase = "preview" /\ phase' = "executing" /\ tx' = tx /\ AtRest
  BY DEF Confirm, Settled, money
<1>3. \A q \in 1..n : runs[q].pc = "done"
  <2>1. n > 0 => runs[n].pc = "done"
    BY <1>1, <1>2, LatestIs DEF OneRun, AtRest, WebTyped
  <2>2. \A q \in 1..n : q < n => runs[q].pc = "done"
    BY <1>1 DEF OneRun
  <2> QED
    BY <1>1, <2>1, <2>2
<1>4. \A q \in 1..Latest' : /\ ~ Waiting(q)' /\ runs'[q].pc # "resolve"
                            /\ q < Latest' => runs'[q].pc = "done"
  BY <1>1, <1>3 DEF Waiting
<1>5. \A t \in tx' : ~ Open(t)
  <2>1. \A q \in 1..Latest : ~ Waiting(q)
    BY <1>1, <1>3 DEF Waiting
  <2> QED
    BY <1>2, <2>1, NoneOpen
<1>6. Unanswered' = {}
  BY <1>5 DEF Unanswered, Open
<1>7. OneRun'
  BY <1>2, <1>4, <1>6 DEF OneRun
<1>8. \A t \in tx' : ~ IsPending(t)'
  BY <1>4 DEF IsPending
<1> QED
  BY <1>7, <1>8 DEF Allowed

LEMMA QuietOne ==
  ASSUME OneRun, Allowed, sponsored' = sponsored, runs' = runs, tx' = tx,
         allowance' = allowance,
         \/ phase' = phase \/ phase' # "preview" \/ (Latest > 0 /\ runs[Latest].pc = "done")
  PROVE  OneRun' /\ Allowed'
<1>1. \A t : IsPending(t)' <=> IsPending(t)
  BY DEF IsPending, Waiting, Here, Row, Latest
<1>2. Latest' = Latest /\ Unanswered' = Unanswered /\ \A r : Waiting(r)' <=> Waiting(r)
  BY DEF Latest, Unanswered, Waiting
<1>3. OneRun'
  BY <1>1, <1>2 DEF OneRun
<1>4. Allowed'
  BY <1>1 DEF Allowed
<1> QED
  BY <1>3, <1>4

LEMMA OneStep ==
  ASSUME WebTyped, OneRun, Allowed, [Next]_vars
  PROVE  OneRun' /\ Allowed'
<1>1. WebTyped' /\ sponsored' = sponsored
  BY TypedStep, SponsorStays
<1>2. CASE sponsored
  BY <1>1, <1>2 DEF OneRun, Allowed
<1>3. CASE ~ sponsored
  <2>1. DOMAIN runs = 1..Latest
    BY LatestIs DEF WebTyped
  <2>2. CASE \E r \in DOMAIN runs : RunStep(r) \/ SenderStep(r) \/ SendTimeout(r)
    BY <1>1, <1>3, <2>1, <2>2, RunStepOne
  <2>3. CASE \E r \in DOMAIN runs : ExecutionTimeout(r)
    <3>1. PICK r \in 1..Latest : ExecutionTimeout(r)
      BY <2>1, <2>3
    <3>2. Abort(r, TRUE) /\ runs[r].pc # "done" /\ TRUE \in BOOLEAN
      BY <3>1 DEF ExecutionTimeout, Alive
    <3> QED
      BY <1>1, <1>3, <3>2, AbortedOne
  <2>4. CASE \E t \in tx : WalletStep(t)
    BY <1>1, <1>3, <2>4, WalletOne
  <2>5. CASE \E split \in Splits : Confirm(split)
    BY <1>1, <1>3, <2>5, ConfirmOne
  <2>6. CASE BackToPreview
    <3>1. Latest \in 1..Latest /\ allowance' = allowance
      BY <2>6, BackDoes DEF BackToPreview
    <3>2. CASE Alive(Latest) /\ Abort(Latest, FALSE)
      <4>1. runs[Latest].pc # "done" /\ FALSE \in BOOLEAN
        BY <3>2 DEF Alive
      <4> QED
        BY <1>1, <1>3, <3>1, <3>2, <4>1, AbortedOne
    <3>3. CASE runs[Latest].pc = "done" /\ runs' = runs /\ tx' = tx
      <4>1. Latest > 0
        BY <3>1
      <4> QED
        BY <1>1, <3>1, <3>3, <4>1, QuietOne
    <3> QED
      BY <2>6, <3>2, <3>3, BackDoes
  <2>7. CASE Effects
    <3>1. runs' = runs /\ tx' = tx /\ allowance' = allowance /\ (phase' = phase \/ phase' # "preview")
      BY <2>7 DEF Effects, PhaseAfter, money
    <3> QED
      BY <1>1, <3>1, QuietOne
  <2>8. CASE (\E c \in Chain : Refetch(c)) \/ SafetyTimeout \/ Leave \/ UNCHANGED vars
    <3>1. runs' = runs /\ tx' = tx /\ allowance' = allowance /\ (phase' = phase \/ phase' # "preview")
      BY <2>8 DEF Refetch, SafetyTimeout, Leave, vars, money, dialog
    <3> QED
      BY <1>1, <3>1, QuietOne
  <2> QED
    BY <2>2, <2>3, <2>4, <2>5, <2>6, <2>7, <2>8 DEF Next, TimerStep, UserStep, Retry, Close
<1> QED
  BY <1>2, <1>3

-----------------------------------------------------------------------------
(* The rows, and what the dialog makes of them.                            *)

\* No request is forgotten, and what went out stays so.
Remembered == \A t \in tx : \E s \in tx' : Alike(s, t) /\ (Gone(t) => Gone(s))

LEMMA WentOutStays ==
  ASSUME Remembered, NEW c, WentOut(c)
  PROVE  WentOut(c)'
BY DEF Remembered, WentOut, Alike, Gone

LEMMA SameRemembered ==
  ASSUME tx \subseteq tx'
  PROVE  Remembered
BY DEF Remembered, Alike

LEMMA StepRemembers ==
  ASSUME WebTyped, [Next]_vars
  PROVE  Remembered
<1>1. Renewed => Remembered
  BY DEF Renewed, Remembered
<1>2. DOMAIN runs = 1..Latest /\ RunsTyped /\ MoneyTyped /\ Requests
  BY LatestIs DEF WebTyped
<1>3. CASE \E r \in DOMAIN runs : RunStep(r) \/ SenderStep(r) \/ SendTimeout(r)
  <2>1. PICK r \in 1..Latest : RunStep(r) \/ SenderStep(r) \/ SendTimeout(r)
    BY <1>2, <1>3
  <2>2. CASE SendTimeout(r)
    <3>1. Waiting(r) /\ tx' = GivenUp(r)
      BY <2>2 DEF SendTimeout
    <3> QED
      BY <1>1, <1>2, <3>1, GivenUpRenewed
  <2>3. CASE RunStep(r) \/ SenderStep(r)
    <3>1. tx \subseteq tx'
      BY <2>3 DEF RunStep, SenderStep, FinishRun, StartRow, RowFails, ApprovalAnswered,
                  DepositAnswered, SendFailed, SenderResolved, SenderFailed, FirstSend, Ask, money
    <3> QED
      BY <3>1, SameRemembered
  <2> QED
    BY <2>1, <2>2, <2>3
<1>4. CASE \E r \in DOMAIN runs : ExecutionTimeout(r)
  <2>1. PICK r \in 1..Latest : Abort(r, TRUE) /\ allowance' = allowance /\ cached' = cached
    BY <1>2, <1>4 DEF ExecutionTimeout
  <2>2. TRUE \in BOOLEAN
    OBVIOUS
  <2> QED
    BY <1>1, <1>2, <2>1, <2>2, AbortTyped
<1>5. CASE \E t \in tx : WalletStep(t)
  BY <1>1, <1>5, WalletRenews
<1>6. CASE BackToPreview
  BY <1>1, <1>6, BackTyped
<1>7. CASE \/ \E split \in Splits : Confirm(split)
           \/ Effects \/ (\E c \in Chain : Refetch(c)) \/ SafetyTimeout \/ Leave \/ UNCHANGED vars
  <2>1. tx' = tx
    BY <1>7 DEF Confirm, Effects, Refetch, SafetyTimeout, Leave, vars, money
  <2> QED
    BY <2>1, SameRemembered
<1> QED
  BY <1>3, <1>4, <1>5, <1>6, <1>7 DEF Next, TimerStep, UserStep, Retry, Close

LEMMA UpdatedRows ==
  ASSUME WebTyped, Counted, CompleteMeansSent, Remembered, phase' = phase,
         NEW c, NEW s \in RowStates, UpdateRow(c, s), s = "success" => WentOut(c)
  PROVE  Counted' /\ CompleteMeansSent'
<1>1. /\ DOMAIN status' = DOMAIN status
      /\ completedCount' = Cardinality(Finished(status)') /\ hasErrors' = (Failed(status)' # {})
      /\ \A d \in DOMAIN status : status'[d] = IF d = c THEN s ELSE status[d]
  BY RowUpdated DEF WebTyped, DialogTyped
<1>2. ~ hasErrors' => Failed(status)' = {}
  BY <1>1
<1>3. \A d \in DOMAIN status' : status'[d] = "success" => WentOut(d)'
  <2> SUFFICES ASSUME NEW d \in DOMAIN status, status'[d] = "success" PROVE WentOut(d)'
    BY <1>1
  <2>1. WentOut(d)
    BY <1>1 DEF Counted
  <2> QED
    BY <2>1, WentOutStays
<1>4. Counted'
  BY <1>1, <1>2, <1>3 DEF Counted
<1>5. CompleteMeansSent'
  BY <1>1, WentOutStays DEF CompleteMeansSent
<1> QED
  BY <1>4, <1>5

LEMMA SameRows ==
  ASSUME Counted, CompleteMeansSent, Remembered, status' = status,
         completedCount' = completedCount, hasErrors' = hasErrors,
         phase' = "complete" => phase = "complete" \/ \A c \in DOMAIN status : WentOut(c)
  PROVE  Counted' /\ CompleteMeansSent'
<1>1. Failed(status)' = Failed(status) /\ Finished(status)' = Finished(status)
  BY DEF Failed, Finished
<1>2. Counted'
  BY <1>1, WentOutStays DEF Counted
<1>3. CompleteMeansSent'
  BY WentOutStays DEF CompleteMeansSent
<1> QED
  BY <1>2, <1>3

\* Rows as they are before a run and after a reset.
LEMMA FreshRows ==
  ASSUME completedCount' = 0, \A c \in DOMAIN status' : status'[c] = "idle", phase' # "complete"
  PROVE  Counted' /\ CompleteMeansSent'
<1>1. Failed(status)' = {} /\ Finished(status)' = {}
  BY DEF Failed, Finished, Terminal
<1>2. Cardinality({}) = 0
  BY FS_EmptySet
<1> QED
  BY <1>1, <1>2 DEF Counted, CompleteMeansSent

\* Complete is what the dialog says when every row is a success.
LEMMA CompleteIsAll ==
  ASSUME WebTyped, Counted, Effects, phase' = "complete", phase # "complete"
  PROVE  \A c \in DOMAIN status : WentOut(c)
<1>1. ~ hasErrors /\ completedCount = Cardinality(DOMAIN status)
  BY DEF Effects, PhaseAfter
<1>2. Failed(status) = {} /\ Cardinality(Finished(status)) = Cardinality(DOMAIN status)
  BY <1>1 DEF Counted
<1>3. Finished(status) = DOMAIN status
  <2>1. DOMAIN status \subseteq Chain
    BY DEF WebTyped, DialogTyped, Rows
  <2>2. IsFiniteSet(DOMAIN status)
    BY <2>1, WebConstants, FS_Subset
  <2>3. Finished(status) \subseteq DOMAIN status
    BY DEF Finished
  <2> QED
    BY <1>2, <2>2, <2>3, FS_Subset
<1>4. \A c \in DOMAIN status : status[c] = "success"
  BY <1>2, <1>3 DEF Finished, Failed, Terminal
<1> QED
  BY <1>4 DEF Counted

LEMMA RowsStep ==
  ASSUME WebTyped, Counted, CompleteMeansSent, [Next]_vars
  PROVE  Counted' /\ CompleteMeansSent'
<1>1. DOMAIN runs = 1..Latest /\ RunsTyped /\ MoneyTyped /\ Requests
  BY LatestIs DEF WebTyped
<1>2. Remembered
  BY StepRemembers
<1>3. {"approving", "depositing", "success", "error"} \subseteq RowStates
  BY DEF RowStates, Terminal
<1>4. CASE \E r \in DOMAIN runs : RunStep(r) \/ SenderStep(r) \/ SendTimeout(r)
  <2>1. PICK r \in 1..Latest : RunStep(r) \/ SenderStep(r) \/ SendTimeout(r)
    BY <1>1, <1>4
  <2>2. phase' = phase
    BY <2>1 DEF RunStep, SenderStep, FinishRun, StartRow, RowFails, ApprovalAnswered,
                DepositAnswered, SendFailed, SenderResolved, SenderFailed, SendTimeout, dialog
  <2>3. \/ status' = status /\ completedCount' = completedCount /\ hasErrors' = hasErrors
        \/ \E s \in {"approving", "depositing", "error"} : UpdateRow(Here(r), s)
        \/ UpdateRow(Here(r), "success") /\ DepositAnswered(r)
    BY <2>1 DEF RunStep, SenderStep, FinishRun, StartRow, RowFails, ApprovalAnswered, Caught,
                DepositAnswered, SendFailed, SenderResolved, SenderFailed, SendTimeout,
                FirstSend, Ask, NoUpdate
  <2>4. CASE status' = status /\ completedCount' = completedCount /\ hasErrors' = hasErrors
    BY <1>2, <2>2, <2>4, SameRows
  <2>5. CASE \E s \in {"approving", "depositing", "error"} : UpdateRow(Here(r), s)
    <3>1. PICK s \in RowStates : s # "success" /\ UpdateRow(Here(r), s)
      BY <1>3, <2>5
    <3> QED
      BY <1>2, <2>2, <3>1, UpdatedRows
  <2>6. CASE UpdateRow(Here(r), "success") /\ DepositAnswered(r)
    <3>1. runs[r].pc = "deposit" /\ Waiting(r) /\ Answered(Pending(r))
      BY <2>6 DEF DepositAnswered, Waiting
    <3>2. Pending(r) \in tx /\ Pending(r).kind = "deposit" /\ Pending(r).chain = Here(r)
      BY <1>1, <3>1, PendingIs
    <3>3. WentOut(Here(r))
      BY <3>1, <3>2 DEF WentOut, Answered
    <3> QED
      BY <1>2, <1>3, <2>2, <2>6, <3>3, UpdatedRows
  <2> QED
    BY <2>3, <2>4, <2>5, <2>6
<1>5. CASE \E r \in DOMAIN runs : ExecutionTimeout(r)
  <2>1. /\ hasErrors' = TRUE /\ phase' = phase
        /\ status' = [c \in DOMAIN status |->
                        IF status[c] \in Terminal THEN status[c] ELSE "error"]
    BY <1>5 DEF ExecutionTimeout, dialog
  <2>2. /\ DOMAIN status' = DOMAIN status
        /\ \A c \in DOMAIN status : status'[c] = "success" => status[c] = "success"
    BY <2>1
  <2>3. Counted'
    BY <1>2, <2>1, <2>2, WentOutStays DEF Counted
  <2>4. CompleteMeansSent'
    BY <1>2, <2>1, <2>2, WentOutStays DEF CompleteMeansSent
  <2> QED
    BY <2>3, <2>4
<1>6. CASE \E t \in tx : WalletStep(t)
  <2>1. status' = status /\ completedCount' = completedCount /\ hasErrors' = hasErrors /\ phase' = phase
    BY <1>6 DEF WalletStep, Submit, Refuse, Land, Revert, hook, dialog
  <2> QED
    BY <1>2, <2>1, SameRows
<1>7. CASE \E split \in Splits : Confirm(split)
  <2>1. /\ completedCount' = 0 /\ phase' = "executing"
        /\ \A c \in DOMAIN status' : status'[c] = "idle"
    BY <1>7 DEF Confirm
  <2> QED
    BY <2>1, FreshRows
<1>8. CASE BackToPreview
  <2>1. /\ completedCount' = 0 /\ phase' = "preview"
        /\ \A c \in DOMAIN status' : status'[c] = "idle"
    BY <1>8 DEF BackToPreview, ResetHook, NoRows
  <2> QED
    BY <2>1, FreshRows
<1>9. CASE Effects
  <2>1. status' = status /\ completedCount' = completedCount /\ hasErrors' = hasErrors
    BY <1>9 DEF Effects, hook
  <2>2. phase' = "complete" => phase = "complete" \/ \A c \in DOMAIN status : WentOut(c)
    BY <1>9, CompleteIsAll
  <2> QED
    BY <1>2, <2>1, <2>2, SameRows
<1>10. CASE (\E c \in Chain : Refetch(c)) \/ SafetyTimeout \/ Leave \/ UNCHANGED vars
  <2>1. /\ status' = status /\ completedCount' = completedCount /\ hasErrors' = hasErrors
        /\ phase' \in {phase, "error"}
    BY <1>10 DEF Refetch, SafetyTimeout, Leave, vars, hook, dialog
  <2> QED
    BY <1>2, <2>1, SameRows
<1> QED
  BY <1>4, <1>5, <1>6, <1>7, <1>8, <1>9, <1>10 DEF Next, TimerStep, UserStep, Retry, Close

-----------------------------------------------------------------------------
(* The dock.                                                               *)

\* Only a confirmation and the effects write records.
LEMMA DockStep ==
  ASSUME WebTyped, Dock, [Next]_vars
  PROVE  /\ Dock'
         /\ \A r \in Run : record[r].status \in {"confirmed", "failed"} => record'[r] = record[r]
<1>1. /\ DOMAIN runs = 1..Latest /\ RunsTyped /\ record \in [Run -> Docked] /\ Latest \in Nat
      /\ parent \in {None} \cup 1..Latest /\ \A r \in 1..Latest : r \in Run
  BY LatestIs DEF WebTyped, DialogTyped
<1>2. CASE \E split \in Splits : Confirm(split)
  <2>1. PICK split \in Splits, n \in Nat : Confirm(split) /\ n = Latest
    BY <1>1, <1>2
  <2>2. Latest' = n + 1 /\ n + 1 \in Run
    BY <1>1, <2>1, ConfirmDoes
  <2>3. PICK rows : /\ parent' = n + 1
                    /\ record' = [record EXCEPT ![n + 1] = [status |-> "signing", rows |-> rows]]
    BY <2>1 DEF Confirm
  <2>4. /\ record'[n + 1].status = "signing"
        /\ \A r \in Run : r # n + 1 => record'[r] = record[r]
    BY <1>1, <2>2, <2>3
  <2>5. record[n + 1].status = "none"
    BY <2>1, <2>2 DEF Dock
  <2>6. \A r \in Run : r > n + 1 => r > n /\ r # n + 1
    BY DEF Run
  <2>7. \A r \in Run : r > Latest' => record'[r].status = "none"
    BY <2>1, <2>2, <2>4, <2>6 DEF Dock
  <2> QED
    BY <2>3, <2>4, <2>5, <2>7 DEF Dock
<1>3. CASE Effects
  <2>1. Latest' = Latest
    BY <1>3 DEF Effects, Latest
  <2>2. /\ parent' \in {None, parent}
        /\ \A r \in Run : r # parent => record'[r] = record[r]
        /\ parent' # None /\ parent' \in Run => record'[parent'].status = record[parent'].status
    BY <1>3, MirrorDoes
  <2>3. parent' # None => record'[parent'].status = "signing"
    BY <1>1, <2>2 DEF Dock
  <2>4. \A r \in Run : r > Latest => r # parent
    BY <1>1, <2>2 DEF Run, None
  <2>5. \A r \in Run : r > Latest' => record'[r].status = "none"
    BY <2>1, <2>2, <2>4 DEF Dock
  <2>6. \A r \in Run : record[r].status \in {"confirmed", "failed"} => r # parent
    BY <1>1 DEF Dock, Run, None
  <2> QED
    BY <2>2, <2>3, <2>5, <2>6 DEF Dock
<1>4. CASE ~ Effects /\ ~ \E split \in Splits : Confirm(split)
  <2>1. record' = record /\ parent' = parent
    BY <1>4 DEF Next, vars, RunStep, TimerStep, SenderStep, WalletStep, UserStep, FinishRun, StartRow,
       RowFails, ApprovalAnswered, DepositAnswered, SendFailed, SendTimeout, ExecutionTimeout,
       SenderResolved, SenderFailed, Submit, Refuse, Land, Revert, Refetch, Retry,
       Close, BackToPreview, Leave, SafetyTimeout, dialog
  <2>2. Latest' = Latest
    <3>1. CASE \E r \in DOMAIN runs : RunStep(r) \/ SenderStep(r) \/ SendTimeout(r)
      <4>1. PICK r \in 1..Latest : RunStep(r) \/ SenderStep(r) \/ SendTimeout(r)
        BY <1>1, <3>1
      <4>2. \/ \E p \in {"resolve", "done"} : Goto(r, p)
            \/ NextRow(r) \/ \E k \in Kinds : Ask(r, k)
        BY <4>1 DEF RunStep, SenderStep, FinishRun, StartRow, RowFails, ApprovalAnswered, Caught,
                DepositAnswered, SendFailed, SenderResolved, SenderFailed, SendTimeout,
                FirstSend, Kinds
      <4>3. OnlyRun(r)
        BY <1>1, <4>2, GotoDoes, NextRowDoes, AskDoes
      <4> QED
        BY <4>3 DEF OnlyRun, Latest
    <3>2. CASE \E r \in DOMAIN runs : ExecutionTimeout(r)
      <4>1. PICK r \in 1..Latest : Abort(r, TRUE)
        BY <1>1, <3>2 DEF ExecutionTimeout
      <4>2. TRUE \in BOOLEAN
        OBVIOUS
      <4>3. OnlyRun(r)
        BY <1>1, <4>1, <4>2, AbortDoes
      <4> QED
        BY <4>3 DEF OnlyRun, Latest
    <3>3. CASE BackToPreview
      BY <3>3, BackTyped
    <3>4. CASE \/ \E t \in tx : WalletStep(t)
               \/ (\E c \in Chain : Refetch(c)) \/ SafetyTimeout \/ Leave \/ UNCHANGED vars
      BY <3>4 DEF WalletStep, Submit, Refuse, Land, Revert, Refetch, SafetyTimeout, Leave, vars, Latest
    <3> QED
      BY <1>4, <3>1, <3>2, <3>3, <3>4 DEF Next, TimerStep, UserStep, Retry, Close
  <2> QED
    BY <2>1, <2>2 DEF Dock
<1> QED
  BY <1>2, <1>3, <1>4

-----------------------------------------------------------------------------
(* Aborted runs.                                                           *)

\* In a step that finds the page at rest no run is about to start a row.
LEMMA AtRestNoNext ==
  ASSUME AtRest, NEW r \in DOMAIN runs
  PROVE  runs[r].pc # "next"
BY DEF AtRest

LEMMA AbortStep ==
  ASSUME WebTyped, [Next]_vars, NEW r \in 1..Latest, runs[r].aborted
  PROVE  /\ runs'[r].aborted
         /\ runs[r].pc = "next" => runs'[r].at = runs[r].at /\ runs'[r].pc \in {"next", "done"}
<1>1. DOMAIN runs = 1..Latest /\ RunsTyped
  BY LatestIs DEF WebTyped
<1>2. CASE \E q \in DOMAIN runs : RunStep(q) \/ SenderStep(q) \/ SendTimeout(q)
  <2>1. PICK q \in 1..Latest : RunStep(q) \/ SenderStep(q) \/ SendTimeout(q)
    BY <1>1, <1>2
  <2>2. /\ \/ \E p \in {"resolve", "done"} : Goto(q, p)
           \/ NextRow(q)
           \/ \E k \in Kinds : Ask(q, k)
        /\ AtRest \/ Goto(q, "done") \/ ~ NoMoreRows(q)
    BY <2>1 DEF RunStep, SenderStep, FinishRun, StartRow, RowFails, ApprovalAnswered, Caught,
                DepositAnswered, SendFailed, SenderResolved, SenderFailed, SendTimeout,
                FirstSend, Kinds
  <2>3. OnlyRun(q)
    BY <1>1, <2>2, GotoDoes, NextRowDoes, AskDoes
  <2>4. runs'[r].aborted
    BY <2>3 DEF OnlyRun
  <2>5. ASSUME runs[r].pc = "next"
        PROVE  runs'[r].at = runs[r].at /\ runs'[r].pc \in {"next", "done"}
    <3>1. CASE r # q
      BY <2>3, <2>5, <3>1 DEF OnlyRun
    <3>2. CASE r = q
      <4>1. ~ AtRest
        BY <1>1, <2>5, AtRestNoNext
      <4>2. NoMoreRows(q)
        BY <3>2 DEF NoMoreRows
      <4> QED
        BY <1>1, <2>2, <3>2, <4>1, <4>2, GotoDoes
    <3> QED
      BY <3>1, <3>2
  <2> QED
    BY <2>4, <2>5
<1>3. CASE ~ \E q \in DOMAIN runs : RunStep(q) \/ SenderStep(q) \/ SendTimeout(q)
  <2>1. runs' = runs \/ AtRest
    BY <1>3 DEF Next, TimerStep, ExecutionTimeout, WalletStep, Submit, Refuse, Land, Revert,
                Refetch, UserStep, Confirm, Retry, Close, BackToPreview, Settled, Leave, Effects,
                SafetyTimeout, vars
  <2>2. runs'[r].aborted
    <3>1. CASE \E q \in DOMAIN runs : ExecutionTimeout(q)
      <4>1. PICK q \in 1..Latest : Abort(q, TRUE)
        BY <1>1, <3>1 DEF ExecutionTimeout
      <4>2. TRUE \in BOOLEAN
        OBVIOUS
      <4>3. OnlyRun(q)
        BY <1>1, <4>1, <4>2, AbortDoes
      <4> QED
        BY <4>3 DEF OnlyRun
    <3>2. CASE BackToPreview
      <4>1. CASE Abort(Latest, FALSE)
        <5>1. FALSE \in BOOLEAN /\ Latest \in 1..Latest
          BY <3>2, BackDoes
        <5>2. OnlyRun(Latest)
          BY <1>1, <4>1, <5>1, AbortDoes
        <5> QED
          BY <5>2 DEF OnlyRun
      <4> QED
        BY <3>2, <4>1, BackDoes
    <3>3. CASE \E split \in Splits : Confirm(split)
      BY <1>1, <3>3, ConfirmDoes
    <3>4. CASE runs' = runs
      BY <3>4
    <3> QED
      BY <1>3, <3>1, <3>2, <3>3, <3>4 DEF Next, TimerStep, WalletStep, Submit, Refuse, Land, Revert,
                Refetch, UserStep, Retry, Close, Leave, Effects, SafetyTimeout, vars
  <2>3. runs[r].pc = "next" => runs'[r].at = runs[r].at /\ runs'[r].pc \in {"next", "done"}
    BY <1>1, <2>1, AtRestNoNext
  <2> QED
    BY <2>2, <2>3
<1> QED
  BY <1>2, <1>3

-----------------------------------------------------------------------------
(* The invariant.                                                          *)

LEMMA InitWebInv ==
  ASSUME Init
  PROVE  WebInv
<1>1. /\ runs = <<>> /\ tx = {} /\ Latest = 0 /\ 1..Latest = {} /\ DOMAIN runs = {}
  BY DEF Init, Latest
<1>2. DOMAIN status = {} /\ status \in Rows /\ NoRows \in Rows
  <2>1. {} \in SUBSET Chain /\ NoRows \in [{} -> RowStates]
    BY DEF NoRows
  <2> QED
    BY <2>1 DEF Rows, NoRows, Init
<1>3. record \in [Run -> Docked]
  <2>1. NoRecord \in Docked
    BY <1>2 DEF NoRecord, Docked
  <2> QED
    BY <2>1 DEF Init
<1>4. 0 \in 0..Cardinality(Chain)
  BY WebConstants, FS_CardinalityType
<1>5. DialogTyped
  BY <1>1, <1>2, <1>3, <1>4 DEF Init, DialogTyped
<1>6. RunsTyped
  BY <1>1, WebConstants DEF RunsTyped
<1>7. MoneyTyped
  <2>1. allowance \in [Chain -> Nat]
    BY WebConstants DEF Init
  <2> QED
    BY <1>1, <2>1 DEF Init, MoneyTyped
<1>8. Requests
  BY <1>1 DEF Requests
<1>9. OneRun /\ Allowed
  BY <1>1 DEF OneRun, Allowed, Unanswered
<1>10. Failed(status) = {} /\ Finished(status) = {} /\ Cardinality({}) = 0
  BY <1>2, FS_EmptySet DEF Failed, Finished
<1>11. Counted /\ CompleteMeansSent
  BY <1>2, <1>10 DEF Counted, CompleteMeansSent, Init
<1>12. Dock
  BY DEF Dock, Init, NoRecord
<1> QED
  BY <1>5, <1>6, <1>7, <1>8, <1>9, <1>11, <1>12 DEF WebInv, WebTyped

LEMMA Invariant == Spec => []WebInv
<1>1. Init => WebInv
  BY InitWebInv
<1>2. WebInv /\ [Next]_vars => WebInv'
  <2> SUFFICES ASSUME WebInv, [Next]_vars PROVE WebInv'
    OBVIOUS
  <2>1. WebTyped /\ OneRun /\ Allowed /\ Counted /\ CompleteMeansSent /\ Dock
    BY DEF WebInv
  <2>2. WebTyped' /\ OneRun' /\ Allowed' /\ Counted' /\ CompleteMeansSent' /\ Dock'
    BY <2>1, TypedStep, OneStep, RowsStep, DockStep
  <2> QED
    BY <2>2 DEF WebInv
<1> QED
  BY <1>1, <1>2, PTL DEF Spec

-----------------------------------------------------------------------------
(* Theorems.                                                               *)

\* Runs, requests, rows, counts and records are what the hook's types and the
\* walk over the split allow, in every state of the dialog.
THEOREM DialogTypes == Spec => []TypeOK
<1>1. WebInv => TypeOK
  <2> SUFFICES ASSUME WebInv PROVE TypeOK
    OBVIOUS
  <2>1. DialogTyped /\ RunsTyped /\ MoneyTyped
    BY DEF WebInv, WebTyped
  <2>2. DOMAIN runs = 1..Latest /\ Latest \in 0..MaxRuns
    BY <2>1, LatestIs
  <2>3. ASSUME NEW r \in DOMAIN runs
        PROVE  /\ runs[r].pc \in {"next", "resolve", "done"} \cup Kinds
               /\ runs[r].at \in 1..(Len(runs[r].split) + 1)
               /\ runs[r].need \subseteq Chain
    <3>1. runs[r] \in RunState /\ runs[r].at <= Len(runs[r].split) + 1
      BY <2>1, <2>2, RunIs DEF RunsTyped
    <3>2. Len(runs[r].split) \in Nat
      BY <2>1, <2>2, RunIs
    <3> QED
      BY <3>1, <3>2 DEF RunState
  <2>4. DOMAIN status \subseteq Chain /\ \A c \in DOMAIN status : status[c] \in RowStates
    BY <2>1 DEF DialogTyped, Rows
  <2>5. \A r \in Run : record[r].status \in {"none", "signing", "confirmed", "failed"}
    BY <2>1 DEF DialogTyped, Docked
  <2> QED
    BY <2>1, <2>2, <2>3, <2>4, <2>5 DEF TypeOK, DialogTyped, MoneyTyped
<1> QED
  BY <1>1, Invariant, PTL

\* However the weights and the roundings fall, what a run sends to the chains is
\* together what the user entered, and no chain of several gets less than the
\* minimum.
THEOREM NothingLostInSplits == Spec => []SplitsAddUp
<1>1. WebInv => SplitsAddUp
  <2> SUFFICES ASSUME WebInv, NEW r \in DOMAIN runs
               PROVE  /\ Total(runs[r].split) \in Amount
                      /\ Len(runs[r].split) > 1 =>
                           \A i \in DOMAIN runs[r].split : MinSplit <= runs[r].split[i].amount
    BY DEF SplitsAddUp
  <2>1. GoodSplit(runs[r].split)
    BY LatestIs, RunIs DEF WebInv, WebTyped
  <2>2. DOMAIN runs[r].split = 1..Len(runs[r].split)
    BY <2>1 DEF GoodSplit
  <2> QED
    BY <2>1, <2>2 DEF GoodSplit
<1> QED
  BY <1>1, Invariant, PTL

\* A user's own wallet is asked for one transaction at a time over all the
\* deposits there have been, a deposit that follows its approval finds the
\* allowance, and the dialog says complete when a deposit went out everywhere.
THEOREM WalletAskedInOrder == Spec => []SendsInOrder
<1>1. WebInv => SendsInOrder
  <2> SUFFICES ASSUME WebInv PROVE SendsInOrder
    OBVIOUS
  <2>1. WebTyped /\ OneRun /\ Allowed /\ CompleteMeansSent
    BY DEF WebInv
  <2>2. OneSendAtATime
    <3> SUFFICES ASSUME ~ sponsored PROVE Cardinality(Unanswered) <= 1
      BY DEF OneSendAtATime
    <3>1. ASSUME NEW t \in Unanswered, NEW s \in Unanswered
          PROVE  t = s
      <4>1. t \in tx /\ s \in tx /\ IsPending(t) /\ IsPending(s)
        BY <2>1 DEF Unanswered, OneRun
      <4>2. t.run = s.run /\ t.run \in 1..Latest /\ Waiting(t.run)
        BY <2>1, <4>1, LastOnly DEF IsPending, Waiting, WebTyped
      <4> QED
        BY <2>1, <4>1, <4>2, PendingIs DEF WebTyped
    <3>2. CASE Unanswered = {}
      BY <3>2, FS_EmptySet
    <3>3. CASE Unanswered # {}
      <4>1. PICK t : Unanswered = {t}
        BY <3>1, <3>3
      <4>2. Cardinality({t}) = 1
        BY FS_Singleton
      <4>3. Cardinality(Unanswered) = 1
        BY <4>1, <4>2
      <4> QED
        BY <4>3
    <3> QED
      BY <3>2, <3>3
  <2>3. ApprovedFirst
    <3> SUFFICES ASSUME ~ sponsored, \A t \in tx : ~ t.given, NEW t \in tx,
                        t.kind = "deposit", t.state \in {"asked", "sent"},
                        t.chain \in runs[t.run].need
                 PROVE  t.amount <= allowance[t.chain]
      BY DEF ApprovedFirst
    <3>1. IsPending(t)
      BY <2>1, OpenIsPending DEF Open
    <3> QED
      BY <2>1, <3>1 DEF Allowed
  <2> QED
    BY <2>1, <2>2, <2>3 DEF SendsInOrder
<1> QED
  BY <1>1, Invariant, PTL

\* A run that was aborted starts no further chain, whoever aborted it and
\* whatever answers it still gets, and a record of the dock that has settled is
\* never written again.
THEOREM GivenUpStaysOver == Spec => GivenUpIsOver
<1>1. WebInv /\ [Next]_vars =>
        [\A r \in DOMAIN runs : runs[r].aborted =>
           /\ runs'[r].aborted
           /\ runs[r].pc = "next" => runs'[r].at = runs[r].at /\ runs'[r].pc \in {"next", "done"}]_vars
  BY AbortStep, LatestIs DEF WebInv, WebTyped
<1>2. WebInv /\ [Next]_vars =>
        [\A r \in Run : record[r].status \in {"confirmed", "failed"} => record'[r] = record[r]]_vars
  BY DockStep DEF WebInv
<1> QED
  BY <1>1, <1>2, Invariant, PTL DEF Spec, GivenUpIsOver, AbortStops, SettledIsFinal

=============================================================================
